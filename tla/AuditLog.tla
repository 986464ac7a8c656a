------------------------------ MODULE AuditLog ------------------------------
(***************************************************************************)
(* The hash-chained log of administrative actions (audit_log.rs).  Several *)
(* loggers append to one file, each call under a lock on the file it       *)
(* opened; writes can stop part-way, processes can die anywhere, and       *)
(* logrotate can rename the file while a call is under way.                *)
(*                                                                         *)
(* A file is a sequence of lines and a tail, the bytes after the last      *)
(* newline: empty, or one line that is either a whole entry without its    *)
(* newline or the beginning of one, which does not parse.  SHA-256 is      *)
(* collision free: an entry's hash is the history it stands for, its       *)
(* predecessor's hash with its own identity appended.                      *)
(***************************************************************************)
EXTENDS Naturals, Sequences

CONSTANTS Loggers,   \* instances of AuditLogger, in one process or several
          MaxLogs,   \* calls of log in a behaviour
          MaxFiles   \* files: the first, and one per rotation

ASSUME Bounds == MaxLogs \in Nat /\ MaxFiles \in Nat \ {0}

VARIABLES files,     \* contents by inode
          current,   \* the inode the configured path names
          next,      \* identity of the next entry
          calls,     \* where each logger is in log()
          acked      \* entries whose log() met no error

vars == <<files, current, next, calls, acked>>

GENESIS_HASH == <<>>

\* Lines from before the chain deserialize with an empty hash.
NoHash == <<0>>

compute_hash(id, prev) == Append(prev, id)

Entry(id, prev) ==
    [parses |-> TRUE, id |-> id, prev_hash |-> prev, hash |-> compute_hash(id, prev)]

Legacy == [parses |-> TRUE, id |-> 0, prev_hash |-> NoHash, hash |-> NoHash]

Broken == [parses |-> FALSE, id |-> 0, prev_hash |-> NoHash, hash |-> NoHash]

NoFile == [lines |-> <<>>, tail |-> <<>>]

Idle == [at |-> "idle", fd |-> 0, id |-> 0, prev |-> GENESIS_HASH]

Extents == {"none", "torn", "whole", "all"}

\* What the bytes of a line become at the end of a file.  After a tail they
\* continue its line, and the two together are no entry.
Appended(file, line, extent) ==
    LET joined == IF file.tail = <<>> THEN line ELSE Broken IN
    CASE extent = "none"  -> file
      [] extent = "torn"  -> [file EXCEPT !.tail = <<Broken>>]
      [] extent = "whole" -> [file EXCEPT !.tail = <<joined>>]
      [] extent = "all"   -> [lines |-> Append(file.lines, joined), tail |-> <<>>]

\* The newline a tail was missing.
Terminated(file) ==
    [lines |-> file.lines \o file.tail, tail |-> <<>>]

Tip(line) == IF line.hash = NoHash THEN GENESIS_HASH ELSE line.hash

Locked(fd) == \E l \in Loggers : calls[l].fd = fd /\ calls[l].at \in {"locked", "tip"}
-----------------------------------------------------------------------------
Init ==
    /\ \E old \in {<<>>, <<Legacy>>} :
           files = [f \in 1 .. MaxFiles |->
                       IF f = 1 THEN [NoFile EXCEPT !.lines = old] ELSE NoFile]
    /\ current = 1
    /\ next = 1
    /\ calls = [l \in Loggers |-> Idle]
    /\ acked = {}

\* log() opens the path as it is now ...
Open(l) ==
    /\ calls[l] = Idle
    /\ next <= MaxLogs
    /\ calls' = [calls EXCEPT ![l] = [Idle EXCEPT !.at = "open", !.fd = current, !.id = next]]
    /\ next' = next + 1
    /\ UNCHANGED <<files, current, acked>>

\* ... waits for the lock on the file it opened ...
Lock(l) ==
    /\ calls[l].at = "open"
    /\ ~Locked(calls[l].fd)
    /\ calls' = [calls EXCEPT ![l].at = "locked"]
    /\ UNCHANGED <<files, current, next, acked>>

ReadLastHashMutantTerminates(l) ==
    LET file == files[calls[l].fd]
        all  == file.lines \o file.tail
    IN  /\ calls[l].at = "locked"
        /\ files' = [files EXCEPT ![calls[l].fd] = Terminated(file)]
        /\ calls' = [calls EXCEPT ![l].at = "tip",
                                  ![l].prev = IF all = <<>> THEN GENESIS_HASH
                                              ELSE Tip(all[Len(all)])]
        /\ UNCHANGED <<current, next, acked>>

ReadLastHashMutantPath(l) ==
    LET file == files[calls[l].fd]
        all  == file.lines \o file.tail
        seen == files[current].lines \o files[current].tail
    IN  /\ calls[l].at = "locked"
        /\ \/ /\ file.tail # <<>>
              /\ ~all[Len(all)].parses
              /\ files' = [files EXCEPT ![calls[l].fd].tail = <<>>]
              /\ UNCHANGED calls
           \/ /\ all # <<>> => all[Len(all)].parses
              /\ files' = [files EXCEPT ![calls[l].fd] = Terminated(file)]
              /\ calls' = [calls EXCEPT ![l].at = "tip",
                                        ![l].prev = IF seen = <<>> THEN GENESIS_HASH
                                                    ELSE Tip(seen[Len(seen)])]
        /\ UNCHANGED <<current, next, acked>>

\* ... and reads the hash of the last line.  A tail that does not parse is cut
\* off and the reading starts again, a tail that does parse gets its newline,
\* and a last line that is broken and complete is an error (Stop).
read_last_hash(l) ==
    LET file == files[calls[l].fd]
        all  == file.lines \o file.tail
        last == all[Len(all)]
    IN  /\ calls[l].at = "locked"
        /\ \/ /\ file.tail # <<>>
              /\ ~last.parses
              /\ files' = [files EXCEPT ![calls[l].fd].tail = <<>>]
              /\ UNCHANGED calls
           \/ /\ all # <<>> => last.parses
              /\ files' = [files EXCEPT ![calls[l].fd] = Terminated(file)]
              /\ calls' = [calls EXCEPT ![l].at = "tip",
                                        ![l].prev = IF all = <<>> THEN GENESIS_HASH
                                                    ELSE Tip(last)]
        /\ UNCHANGED <<current, next, acked>>

\* The entry is written.  An error or the death of the process can leave any
\* part of it; log() returns and the lock goes with the file handle.
write_all(l, extent) ==
    LET call == calls[l] IN
    /\ call.at = "tip"
    /\ files' = [files EXCEPT ![call.fd] = Appended(@, Entry(call.id, call.prev), extent)]
    /\ acked' = IF extent = "all" THEN acked \union {call.id} ELSE acked
    /\ calls' = [calls EXCEPT ![l] = Idle]
    /\ UNCHANGED <<current, next>>

\* Any earlier call returns an error, or the process dies: nothing is logged.
Stop(l) ==
    /\ calls[l] # Idle
    /\ calls' = [calls EXCEPT ![l] = Idle]
    /\ UNCHANGED <<files, current, next, acked>>

\* logrotate moves the file away; the next open creates a new one.
Rotate ==
    /\ current < MaxFiles
    /\ current' = current + 1
    /\ UNCHANGED <<files, next, calls, acked>>

Next ==
    \/ \E l \in Loggers :
           \/ Open(l)
           \/ Lock(l)
           \/ read_last_hash(l)
           \/ \E extent \in Extents : write_all(l, extent)
           \/ Stop(l)
    \/ Rotate

Spec == Init /\ [][Next]_vars
-----------------------------------------------------------------------------
(* What the management API shows *)

\* Where the entries are that audit_tail returns of the last n lines: it takes
\* no lock, so a line can be in the making, and lines that do not parse are
\* left out.
audit_tail(lines, n) == {i \in DOMAIN lines : i + n > Len(lines) /\ lines[i].parses}

\* Each entry has the hash of its content and names the hash of the entry
\* shown before it.
verify_chain(lines, shown) ==
    \A i \in shown :
        /\ lines[i].hash = compute_hash(lines[i].id, lines[i].prev_hash)
        /\ \A j \in shown :
               j < i /\ (\A k \in shown : k <= j \/ k >= i) => lines[i].prev_hash = lines[j].hash
-----------------------------------------------------------------------------
\* GET /audit-log?verify=1 never reports a break in a log nobody edited: at any
\* moment, in the middle of a write or after any number of torn ones, every
\* window of the lines written since the chain began verifies.
AuditVerifies ==
    \A f \in 1 .. MaxFiles :
        LET all   == files[f].lines \o files[f].tail
            since == IF all # <<>> /\ all[1] = Legacy THEN 1 ELSE 0
        IN  \A n \in 1 .. Len(all) - since : verify_chain(all, audit_tail(all, n))

\* The first entry a file gets refers to GENESIS_HASH, so a reader of a whole
\* file can tell that nothing was taken from its beginning, whatever the
\* rotation cut short.
StartsAtGenesis ==
    \A f \in 1 .. MaxFiles :
        LET lines == files[f].lines IN
        \A i \in DOMAIN lines :
            lines[i] # Legacy /\ (i = 1 \/ lines[i - 1] = Legacy)
                => lines[i].prev_hash = GENESIS_HASH

\* An entry whose log() met no error stays in the log, once, through every
\* later repair of a torn tail.
AckedKept ==
    \A id \in acked :
        \E f \in 1 .. MaxFiles :
            \E i \in DOMAIN files[f].lines :
                /\ files[f].lines[i].id = id
                /\ \A g \in 1 .. MaxFiles : \A j \in DOMAIN files[g].lines :
                       files[g].lines[j].id = id => f = g /\ i = j

\* A torn write never stops the log: no complete line is broken, so the error
\* read_last_hash keeps for a damaged file is never met.
NeverJams ==
    \A f \in 1 .. MaxFiles :
        \A i \in DOMAIN files[f].lines : files[f].lines[i].parses

\* The readable lines of every audit file form one chain that starts at the
\* genesis hash, and an entry whose log() succeeded is in it, through torn
\* writes, concurrent loggers, readers without the lock and rotations.
AuditIntact == AuditVerifies /\ StartsAtGenesis /\ AckedKept
=============================================================================
