------------------------------ MODULE ClientDb ------------------------------
(***************************************************************************)
(* clients.json shared by the daemon and by a second process (an admin CLI *)
(* call, a sibling), as client_db/mod.rs keeps it: every mutation is       *)
(*   flock -> absorb the disk into memory -> mutate -> write -> remember   *)
(* the mtime -> unlock, traffic counters change in memory without the      *)
(* lock, and the daemon polls the file's mtime for changes of others.      *)
(* The daemon's exit_route_cache (gateway/mod.rs), filled from memory and  *)
(* cleared after the events that can change it, hangs off the same state.  *)
(* A process may crash at any step and load the file again; a write may    *)
(* fail, which rolls the mutation back.                                    *)
(***************************************************************************)
EXTENDS ClientRecord, FiniteSets, FiniteSetsExt

CONSTANTS Procs,      \* the processes that have the file open
          Daemon,     \* the one that serves traffic and polls the file
          Writers,    \* threads that run mutations
          Host,       \* Writers -> Procs
          MaxBytes,   \* bound on a traffic counter
          Ties,       \* TRUE: two writes may leave the same mtime
          MaxMtime,   \* bound on the number of file versions
          Failures,   \* TRUE: a write of the file may fail
          Pool        \* TRUE: the daemon also merges records of pool peers

(* The lock names its holder; the clock has started. *)
ASSUME DbAssumption ==
  /\ Daemon \in Procs /\ Host \in [Writers -> Procs] /\ "nobody" \notin Writers
  /\ {MaxBytes, MaxMtime, TTL} \subseteq Nat /\ MaxClock \in Nat \ {0}

VARIABLES
  fileClock,     \* Utc::now()
  disk,      \* contents of clients.json
  mtime,     \* its modification time
  mem,       \* process -> ClientDatabase::data
  last,      \* process -> last_mtime
  used,      \* ids ever issued (they are 8 random bytes, never issued twice)
  txn,       \* the holder of the flock, with the snapshot to roll back to
  poll,      \* the daemon's reload_if_changed in progress
  lookup,    \* resolve_client_exit_addr between its read and its insert
  cache,     \* exit_route_cache: id -> {cached exit_node}, {} if not cached
  toClear    \* writers that returned and have not cleared the cache yet

dbVars == <<fileClock, disk, mtime, mem, last, used, txn, poll, lookup, cache, toClear>>

NoRecord == [st |-> "none", at |-> 0, val |-> 0, bytes |-> 0]
FileRecord == [st : States, at : 0..MaxClock, val : Vals \union {0},
               bytes : 0..MaxBytes]
NoTxn   == [by |-> "nobody"]
NoPoll  == [at |-> "idle"]
NoLookup == [id |-> "none"]
Empty    == [i \in Ids |-> {}]

Transaction == [by : Writers, step : {"write", "finish"},
                rollback : [Ids -> FileRecord], admin : BOOLEAN]
Poll == [at : {"absorb"}, seen : 0..MaxMtime]
          \union [at : {"remember"}, seen : 0..MaxMtime, changed : BOOLEAN]
          \union {NoPoll, [at |-> "clear"]}

(* Every part of the state has its type. *)
DbTypeOK ==
  /\ fileClock \in 1..MaxClock
  /\ disk \in [Ids -> FileRecord]
  /\ mtime \in 0..MaxMtime
  /\ mem \in [Procs -> [Ids -> FileRecord]]
  /\ last \in [Procs -> 0..MaxMtime]
  /\ used \subseteq Ids
  /\ txn = NoTxn \/ txn \in Transaction
  /\ poll \in Poll
  /\ lookup = NoLookup \/ lookup \in [id : Ids, val : Vals \union {0}]
  /\ cache \in [Ids -> SUBSET (Vals \union {0})]
  /\ toClear \subseteq Writers

-----------------------------------------------------------------------------
(* Pure parts of a transaction *)

ReapAll(m) ==
  [i \in Ids |-> IF Expired(m[i], fileClock, TTL) THEN NoRecord ELSE m[i]]

AbsorbOne(m, d) ==
  IF d.st = "none" THEN m
  ELSE IF m.st = "none" THEN d
  ELSE [(IF TakeDisk(m, d) THEN d ELSE m) EXCEPT !.bytes = Max({m.bytes, d.bytes})]

\* Mutant: only records memory does not know are taken from disk.
AbsorbMutantOnlyNew(m, d) ==
  ReapAll([i \in Ids |-> IF m[i].st = "none" THEN d[i] ELSE m[i]])

(* absorb_disk_locked: every disk record into memory, then reap *)
Absorb(m, d) == ReapAll([i \in Ids |-> AbsorbOne(m[i], d[i])])

(* client_snapshot_sig, compared before and after an absorb *)
SameConfig(m, n) == \A i \in Ids : Canonical(m[i]) = Canonical(n[i])

(* restore_preserving_traffic: the snapshot, with the counters that grew *)
RestorePreservingTraffic(current, snapshot) ==
  [i \in Ids |->
     IF snapshot[i].st # "none" /\ current[i].st # "none"
     THEN [snapshot[i] EXCEPT !.bytes = Max({@, current[i].bytes})]
     ELSE snapshot[i]]

(* The mutations.  Each is the set of records that can result for id i:
   empty when the closure returns Err. *)
insert_client(r, i) ==
  IF r.st = "none" /\ i \notin used
  THEN {[NoRecord EXCEPT !.st = "live", !.at = fileClock]} ELSE {}

update_client(r) ==
  IF r.st = "live" THEN {[r EXCEPT !.at = fileClock, !.val = v] : v \in Vals} ELSE {}

(* enroll_device and reset_device_binding look the id up without asking
   whether the record is a tombstone *)
bind_device(r) ==
  IF r.st # "none" THEN {[r EXCEPT !.at = fileClock, !.val = v] : v \in Vals} ELSE {}

remove_client(r) ==
  IF r.st = "live" THEN {[r EXCEPT !.st = "dead", !.at = fileClock]} ELSE {}

(* merge_from_json of one peer record for a known id *)
merge_peer_edit(r) ==
  IF r.st # "none"
  THEN {MergeOne(r, inc) :
          inc \in [st : {"live", "dead"}, at : 1..fileClock, val : Vals]}
  ELSE {}

Mutations(w, r, i) ==
  insert_client(r, i) \union update_client(r) \union bind_device(r)
    \union remove_client(r)
    \union (IF Pool /\ Host[w] = Daemon THEN merge_peer_edit(r) ELSE {})

-----------------------------------------------------------------------------
(* Actions *)

DbInit ==
  /\ fileClock = 1
  /\ disk = [i \in Ids |-> NoRecord]
  /\ mtime = 0
  /\ mem = [p \in Procs |-> [i \in Ids |-> NoRecord]]
  /\ last = [p \in Procs |-> 0]
  /\ used = {}
  /\ txn = NoTxn
  /\ poll = NoPoll
  /\ lookup = NoLookup
  /\ cache = Empty
  /\ toClear = {}

(* Time passes.  A process polls, mutates or ends well within the 30 days
   of TOMBSTONE_TTL, so no copy is still live when a tombstone expires. *)
FileTick ==
  /\ fileClock < MaxClock
  /\ \A i \in Ids :
       LET copies == {disk[i]} \union {mem[p][i] : p \in Procs}
       IN (\E r \in copies : Expired(r, fileClock + 1, TTL)) =>
            \A r \in copies : r.st # "live"
  /\ fileClock' = fileClock + 1
  /\ UNCHANGED <<disk, mtime, mem, last, used, txn, poll, lookup, cache, toClear>>

(* After an error the in-tunnel management handler clears the exit cache all
   the same, the REST handler and the pool merge do not. *)
MayClear(w) ==
  toClear' \in {toClear} \union
    (IF Host[w] = Daemon THEN {toClear \union {w}} ELSE {})

(* The first half of with_mutation: flock, absorb, keep the snapshot, run
   the closure.  A closure that fails leaves the absorbed state. *)
BeginMutation(w, i) ==
  LET p == Host[w]
      base == Absorb(mem[p], disk)
  IN /\ txn = NoTxn
     /\ w \notin toClear
     /\ \/ \E r \in Mutations(w, base[i], i) :
             /\ mem' = [mem EXCEPT ![p] = [base EXCEPT ![i] = r]]
             /\ txn' = [by |-> w, step |-> "write", rollback |-> base, admin |-> TRUE]
             /\ used' = used \union {i}
             /\ UNCHANGED toClear
        \/ /\ mem' = [mem EXCEPT ![p] = base]
           /\ MayClear(w)
           /\ UNCHANGED <<txn, used>>
     /\ UNCHANGED <<fileClock, disk, mtime, last, poll, lookup, cache>>

(* save / flush_stats: the same transaction with a closure that does nothing *)
BeginFlush(w) ==
  LET base == Absorb(mem[Host[w]], disk)
  IN /\ txn = NoTxn
     /\ w \notin toClear
     /\ mem' = [mem EXCEPT ![Host[w]] = base]
     /\ txn' = [by |-> w, step |-> "write", rollback |-> base, admin |-> FALSE]
     /\ UNCHANGED <<fileClock, disk, mtime, last, used, poll, lookup, cache, toClear>>

(* write_snapshot_locked: memory as it is now; equal contents are not
   rewritten.  The rename makes the new file visible; two writes within the
   file system's timestamp granularity leave the same mtime. *)
WriteSnapshot(w) ==
  LET m == mem[Host[w]]
  IN /\ txn.by = w /\ txn.step = "write"
     /\ IF m = disk
        THEN UNCHANGED <<disk, mtime>>
        ELSE /\ disk' = m
             /\ mtime' \in IF Ties THEN {mtime, mtime + 1} ELSE {mtime + 1}
             /\ mtime' <= MaxMtime
     /\ txn' = [txn EXCEPT !.step = "finish"]
     /\ UNCHANGED <<fileClock, mem, last, used, poll, lookup, cache, toClear>>

(* The write failed before the rename: roll the mutation back *)
WriteFails(w) ==
  LET p == Host[w]
  IN /\ Failures
     /\ txn.by = w /\ txn.step = "write"
     /\ mem' = [mem EXCEPT ![p] = RestorePreservingTraffic(mem[p], txn.rollback)]
     /\ txn' = NoTxn
     /\ IF txn.admin THEN MayClear(w) ELSE UNCHANGED toClear
     /\ UNCHANGED <<fileClock, disk, mtime, last, used, poll, lookup, cache>>

(* remember_mtime, unlock, return.  The daemon's callers of an admin
   mutation or a merge clear the exit cache afterwards; the flush does not. *)
FinishMutation(w) ==
  /\ txn.by = w /\ txn.step = "finish"
  /\ last' = [last EXCEPT ![Host[w]] = mtime]
  /\ toClear' = IF txn.admin /\ Host[w] = Daemon THEN toClear \union {w} ELSE toClear
  /\ txn' = NoTxn
  /\ UNCHANGED <<fileClock, disk, mtime, mem, used, poll, lookup, cache>>

ClearAfterMutation(w) ==
  /\ w \in toClear
  /\ cache' = Empty
  /\ toClear' = toClear \ {w}
  /\ UNCHANGED <<fileClock, disk, mtime, mem, last, used, txn, poll, lookup>>

(* record_traffic: memory only, no flock *)
RecordTraffic(i) ==
  /\ mem[Daemon][i].st # "none"
  /\ mem[Daemon][i].bytes < MaxBytes
  /\ mem' = [mem EXCEPT ![Daemon][i].bytes = @ + 1]
  /\ UNCHANGED <<fileClock, disk, mtime, last, used, txn, poll, lookup, cache, toClear>>

(* reload_if_changed: compare the mtime without the lock ... *)
PollStat ==
  /\ poll.at = "idle"
  /\ mtime # last[Daemon]
  /\ poll' = [at |-> "absorb", seen |-> mtime]
  /\ UNCHANGED <<fileClock, disk, mtime, mem, last, used, txn, lookup, cache, toClear>>

(* ... reload_from_disk under the lock ... *)
PollAbsorb ==
  LET m == Absorb(mem[Daemon], disk)
  IN /\ poll.at = "absorb"
     /\ txn = NoTxn
     /\ mem' = [mem EXCEPT ![Daemon] = m]
     /\ poll' = [at |-> "remember", seen |-> poll.seen,
                 changed |-> ~SameConfig(mem[Daemon], m)]
     /\ UNCHANGED <<fileClock, disk, mtime, last, used, txn, lookup, cache, toClear>>

(* ... then remember the mtime that was read first. *)
PollRemember ==
  /\ poll.at = "remember"
  /\ last' = [last EXCEPT ![Daemon] = poll.seen]
  /\ poll' = IF poll.changed THEN [at |-> "clear"] ELSE NoPoll
  /\ UNCHANGED <<fileClock, disk, mtime, mem, used, txn, lookup, cache, toClear>>

(* run_loop's reload task clears the cache when the reload returned true *)
PollClear ==
  /\ poll.at = "clear"
  /\ cache' = Empty
  /\ poll' = NoPoll
  /\ UNCHANGED <<fileClock, disk, mtime, mem, last, used, txn, lookup, toClear>>

(* resolve_client_exit_addr on a miss: read the database ... *)
ResolveRead(i) ==
  /\ lookup = NoLookup
  /\ cache[i] = {}
  /\ mem[Daemon][i].st = "live"
  /\ lookup' = [id |-> i, val |-> mem[Daemon][i].val]
  /\ UNCHANGED <<fileClock, disk, mtime, mem, last, used, txn, poll, cache, toClear>>

(* ... then insert what was read *)
ResolveInsert ==
  /\ lookup # NoLookup
  /\ cache' = [cache EXCEPT ![lookup.id] = {lookup.val}]
  /\ lookup' = NoLookup
  /\ UNCHANGED <<fileClock, disk, mtime, mem, last, used, txn, poll, toClear>>

(* A process dies, at any point, and loads the file again.  The kernel
   drops its flock; an unfinished write left the old file in place. *)
CrashAndLoad(p) ==
  /\ mem' = [mem EXCEPT ![p] = ReapAll(disk)]
  /\ last' = [last EXCEPT ![p] = mtime]
  /\ txn' = IF txn # NoTxn /\ Host[txn.by] = p THEN NoTxn ELSE txn
  /\ toClear' = {w \in toClear : Host[w] # p}
  /\ IF p = Daemon
     THEN /\ poll' = NoPoll
          /\ lookup' = NoLookup
          /\ cache' = Empty
     ELSE UNCHANGED <<poll, lookup, cache>>
  /\ UNCHANGED <<fileClock, disk, mtime, used>>

Proceeds(w) ==
  WriteSnapshot(w) \/ WriteFails(w) \/ FinishMutation(w) \/ ClearAfterMutation(w)

DbNext ==
  \/ FileTick
  \/ \E w \in Writers :
       \/ \E i \in Ids : BeginMutation(w, i)
       \/ BeginFlush(w)
       \/ Proceeds(w)
  \/ \E i \in Ids : RecordTraffic(i) \/ ResolveRead(i)
  \/ PollStat \/ PollAbsorb \/ PollRemember \/ PollClear
  \/ ResolveInsert
  \/ \E p \in Procs : CrashAndLoad(p)

(* Fairness: a holder of the flock finishes, and each of the daemon's two
   background tasks (stats flush, reload poll) comes round again and again
   and is granted the flock, which the kernel queues in order. *)
DbFairness ==
  /\ \A w \in Writers :
       /\ WF_dbVars(Proceeds(w))
       /\ Host[w] = Daemon => SF_dbVars(BeginFlush(w))
  /\ WF_dbVars(PollStat \/ PollRemember \/ PollClear) /\ SF_dbVars(PollAbsorb)

DbSpec == DbInit /\ [][DbNext]_dbVars
FairDbSpec == DbSpec /\ DbFairness

-----------------------------------------------------------------------------
(* Properties *)

(* A revocation that reached the file is never taken back: whatever process
   writes next, with whatever stale copy in memory, the record stays a
   tombstone until it is reaped. *)
RevocationSticks ==
  [][\A i \in Ids : disk[i].st = "dead" => disk'[i].st \in {"dead", "none"}]_dbVars

(* Outside a transaction no memory is ahead of the file: a mutation whose
   write failed leaves no trace that a later save would publish. *)
NoGhostMutation ==
  \A p \in Procs, i \in Ids :
    (txn = NoTxn \/ Host[txn.by] # p) /\ mem[p][i].st # "none" =>
      \/ disk[i].st # "none" /\ mem[p][i].at <= disk[i].at
      \/ mem[p][i].st = "dead"

(* The file behaves as one database changed by one mutation at a time: no
   write of a stale memory undoes, reorders or repeats another's mutation. *)
Serial == INSTANCE SerialDb WITH db <- disk, now <- fileClock
SerialSpec == Serial!Spec

(* Traffic counters never run backwards, in the file or in a daemon that
   does not restart, whichever transaction absorbs, writes or rolls back. *)
CountersOnlyGrow ==
  [][\A i \in Ids :
       /\ disk'[i].st # "none" => disk'[i].bytes >= disk[i].bytes
       /\ mem'[Daemon][i].st # "none" =>
            \/ mem'[Daemon][i].bytes >= mem[Daemon][i].bytes
            \/ mem'[Daemon] = ReapAll(disk)]_dbVars

(* All of these, with the type of the state (with_mutation, absorb_disk_locked,
   restore_preserving_traffic, flush_stats). *)
FileSerial == [](DbTypeOK /\ NoGhostMutation) /\ CountersOnlyGrow /\ SerialSpec

(* Whatever another process commits to the file reaches the daemon's memory:
   the mtime poll may miss a write that left the mtime as it was, or set
   last_mtime to a value read before another write, but not for good. *)
DaemonCatchesUp ==
  \A i \in Ids, t \in 1..MaxClock :
    disk[i].at = t ~> mem[Daemon][i].at >= t \/ Expired(disk[i], fileClock, TTL)

(* When nothing is in progress the cache holds what the database says, as
   the comment on resolve_client_exit_addr promises. *)
Quiet == txn = NoTxn /\ toClear = {} /\ poll = NoPoll /\ lookup = NoLookup
         /\ mtime = last[Daemon]
ExitCacheFresh ==
  Quiet => \A i \in Ids :
    mem[Daemon][i].st = "live" => cache[i] \subseteq {mem[Daemon][i].val}
=============================================================================
