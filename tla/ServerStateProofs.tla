------------------------- MODULE ServerStateProofs --------------------------
(***************************************************************************)
(* The two files that several processes of a server write: the audit log,  *)
(* for any number of loggers, calls and rotations, and the registry of     *)
(* nodes, for every set of processes, identities and keys.                 *)
(*                                                                         *)
(* The invariants are not inductive alone. What a write adds to the log    *)
(* depends on what its call read, so the induction carries that the lock   *)
(* keeps two calls off one file, and that a call which has read the tip    *)
(* still faces a file with no tail whose tip is the one it read. For the   *)
(* registry it carries that a process writes only what it has just read:   *)
(* the readable file, or nothing when nothing was ever revoked.            *)
(***************************************************************************)
EXTENDS AuditLog, NodeRegistry, TLAPS

(* Appending an entry is concatenating it. *)
LEMMA AppendIsConcat ==
  ASSUME NEW S, NEW q \in Seq(S), NEW x \in S
  PROVE  Append(q, x) = q \o <<x>>
OBVIOUS

Line == [parses : BOOLEAN, id : Nat, prev_hash : Seq(Nat), hash : Seq(Nat)]

File == [lines : Seq(Line), tail : Seq(Line)]

Call == [at : {"idle", "open", "locked", "tip"}, fd : Nat, id : Nat, prev : Seq(Nat)]

TypeOK ==
    /\ files \in [1 .. MaxFiles -> File]
    /\ current \in 1 .. MaxFiles
    /\ next \in Nat \ {0}
    /\ calls \in [Loggers -> Call]
    /\ \A l \in Loggers : calls[l].at # "idle" => calls[l].fd \in 1 .. MaxFiles /\ calls[l].id # 0

Holds(l) == calls[l].at \in {"locked", "tip"}

\* The hash the next entry refers to.
TipOf(lines) == IF lines = <<>> THEN GENESIS_HASH ELSE Tip(lines[Len(lines)])

\* An entry that continues a chain with this tip.
Follows(line, tip) ==
    /\ line.parses
    /\ line.id # 0
    /\ line.prev_hash = tip
    /\ line.hash = compute_hash(line.id, tip)

Chained(lines) ==
    \A i \in 1 .. Len(lines) :
        IF i = 1 THEN lines[1] = Legacy \/ Follows(lines[1], GENESIS_HASH)
        ELSE Follows(lines[i], Tip(lines[i - 1]))

TailOK(file) ==
    \/ file.tail = <<>>
    \/ /\ file.tail = <<file.tail[1]>>
       /\ file.tail[1].parses => Follows(file.tail[1], TipOf(file.lines))

FileOK(file) == Chained(file.lines) /\ TailOK(file)

Ready(call) ==
    /\ files[call.fd].tail = <<>>
    /\ call.prev = TipOf(files[call.fd].lines)

IInv ==
    /\ TypeOK
    /\ \A l, m \in Loggers : l # m /\ Holds(l) /\ Holds(m) => calls[l].fd # calls[m].fd
    /\ \A l \in Loggers : calls[l].at = "tip" => Ready(calls[l])
    /\ \A f \in 1 .. MaxFiles : FileOK(files[f])

-----------------------------------------------------------------------------
\* The records of the model are lines.
LEMMA LineTypes ==
    /\ Legacy \in Line /\ Broken \in Line /\ Legacy.parses /\ ~Broken.parses
    /\ \A id \in Nat, prev \in Seq(Nat) :
           /\ Entry(id, prev) \in Line
           /\ Entry(id, prev).parses
           /\ Entry(id, prev).prev_hash = prev
<1>1. NoHash \in Seq(Nat)
  BY DEF NoHash
<1>2. Legacy \in Line /\ Broken \in Line /\ Legacy.parses /\ ~Broken.parses
  BY <1>1 DEF Legacy, Broken, Line
<1>3. ASSUME NEW id \in Nat, NEW prev \in Seq(Nat)
      PROVE  /\ Entry(id, prev) \in Line
             /\ Entry(id, prev).parses
             /\ Entry(id, prev).prev_hash = prev
  <2>1. compute_hash(id, prev) \in Seq(Nat)
    BY DEF compute_hash
  <2> QED BY <2>1 DEF Entry, Line
<1> QED BY <1>2, <1>3

\* What a line says of the next one's predecessor.
LEMMA TipTypes ==
    ASSUME NEW x \in Line
    PROVE  /\ Tip(x) \in Seq(Nat)
           /\ x = Legacy => Tip(x) = GENESIS_HASH
           /\ \A tip \in Seq(Nat) : Follows(x, tip) => Tip(x) = x.hash /\ x # Legacy
<1>1. GENESIS_HASH \in Seq(Nat)
  BY DEF GENESIS_HASH
<1>2. Tip(x) \in Seq(Nat)
  BY <1>1 DEF Tip, Line
<1>3. x = Legacy => Tip(x) = GENESIS_HASH
  BY DEF Tip, Legacy
<1>4. ASSUME NEW tip \in Seq(Nat), Follows(x, tip) PROVE x.hash # NoHash
  <2>1. x.id \in Nat /\ x.id # 0 /\ x.hash = Append(tip, x.id)
    BY <1>4 DEF Follows, compute_hash, Line
  <2>2. Len(x.hash) = Len(tip) + 1 /\ x.hash[Len(tip) + 1] = x.id /\ Len(tip) \in Nat
    BY <2>1
  <2>3. Len(NoHash) = 1 /\ NoHash[1] = 0
    BY DEF NoHash
  <2>4. ASSUME x.hash = NoHash PROVE FALSE
    <3>1. Len(tip) + 1 = 1
      BY <2>2, <2>3, <2>4, Zenon
    <3> QED BY <2>1, <2>2, <2>3, <2>4, <3>1
  <2> QED BY <2>4
<1>5. Legacy.hash = NoHash
  BY DEF Legacy
<1> QED BY <1>2, <1>3, <1>4, <1>5 DEF Tip

\* A line that follows the tip of a chain, at its end, continues the chain.
LEMMA AddLine ==
    ASSUME NEW lines \in Seq(Line), NEW x \in Line,
           Chained(lines), Follows(x, TipOf(lines))
    PROVE  Append(lines, x) \in Seq(Line) /\ Chained(Append(lines, x))
<1> DEFINE new == Append(lines, x)
           n   == Len(lines)
<1>1. /\ n \in Nat /\ new \in Seq(Line) /\ Len(new) = n + 1 /\ new[n + 1] = x
      /\ \A i \in 1 .. n : new[i] = lines[i]
  OBVIOUS
<1>2. TipOf(lines) = IF n = 0 THEN GENESIS_HASH ELSE Tip(lines[n])
  <2>1. lines = <<>> <=> n = 0
    OBVIOUS
  <2> QED BY <2>1 DEF TipOf
<1>3. \A i \in 1 .. n : IF i = 1 THEN lines[1] = Legacy \/ Follows(lines[1], GENESIS_HASH)
                       ELSE Follows(lines[i], Tip(lines[i - 1]))
  BY DEF Chained
<1> HIDE DEF new, n
<1>4. ASSUME NEW i \in 1 .. n + 1
      PROVE  IF i = 1 THEN new[1] = Legacy \/ Follows(new[1], GENESIS_HASH)
             ELSE Follows(new[i], Tip(new[i - 1]))
  <2>1. CASE i = n + 1
    <3>1. CASE n = 0
      BY <1>1, <1>2, <2>1, <3>1
    <3>2. CASE n # 0
      <4>1. i # 1 /\ i - 1 = n /\ n \in 1 .. n
        BY <1>1, <2>1, <3>2
      <4> QED BY <1>1, <1>2, <2>1, <3>2, <4>1
    <3> QED BY <3>1, <3>2
  <2>2. CASE i # n + 1
    <3>1. i \in 1 .. n /\ 1 \in 1 .. n /\ (i = 1 \/ i - 1 \in 1 .. n)
      BY <1>1, <2>2
    <3> QED BY <1>1, <1>3, <3>1
  <2> QED BY <2>1, <2>2
<1> QED BY <1>1, <1>4 DEF new, Chained

\* The last element of a sequence that has one.
LEMMA LastLine ==
    ASSUME NEW lines \in Seq(Line)
    PROVE  /\ lines # <<>> => lines[Len(lines)] \in Line
           /\ \A x \in Line : /\ Append(lines, x) # <<>>
                             /\ Append(lines, x)[Len(Append(lines, x))] = x
<1>1. lines # <<>> => Len(lines) \in 1 .. Len(lines)
  OBVIOUS
<1>2. lines # <<>> => lines[Len(lines)] \in Line
  BY <1>1
<1>3. ASSUME NEW x \in Line
      PROVE  Append(lines, x) # <<>> /\ Append(lines, x)[Len(Append(lines, x))] = x
  <2>1. Len(Append(lines, x)) = Len(lines) + 1 /\ Len(lines) \in Nat
    OBVIOUS
  <2>2. Append(lines, x)[Len(lines) + 1] = x
    OBVIOUS
  <2>3. Append(lines, x) # <<>>
    BY <2>1
  <2> QED BY <2>1, <2>2, <2>3
<1> QED BY <1>2, <1>3

\* A call that holds the lock may change its file and its own state: no other
\* call looks at that file.
LEMMA HolderStep ==
    ASSUME IInv, NEW l \in Loggers, NEW c \in Call, NEW new \in File,
           Holds(l), FileOK(new),
           files' = [files EXCEPT ![calls[l].fd] = new],
           calls' = [calls EXCEPT ![l] = c],
           UNCHANGED <<current, next>>,
           c.at = "idle" \/ (c.fd = calls[l].fd /\ c.id = calls[l].id),
           c.at = "tip" => new.tail = <<>> /\ c.prev = TipOf(new.lines)
    PROVE  IInv'
<1> DEFINE fd == calls[l].fd
<1>0. TypeOK /\ fd \in 1 .. MaxFiles
  BY DEF IInv, TypeOK, Holds, fd
<1>1. /\ files'[fd] = new
      /\ \A f \in 1 .. MaxFiles : f # fd => files'[f] = files[f]
      /\ calls'[l] = c
      /\ \A m \in Loggers : m # l => calls'[m] = calls[m]
  BY <1>0 DEF TypeOK
<1>2. TypeOK'
  <2>1. files' \in [1 .. MaxFiles -> File] /\ calls' \in [Loggers -> Call]
    BY <1>0 DEF TypeOK
  <2>2. ASSUME NEW m \in Loggers, calls'[m].at # "idle" PROVE calls'[m].fd \in 1 .. MaxFiles /\ calls'[m].id # 0
    BY <1>0, <1>1, <2>2 DEF TypeOK, Holds
  <2> QED BY <1>0, <2>1, <2>2 DEF TypeOK
<1>3. ASSUME NEW a \in Loggers, NEW b \in Loggers, a # b, Holds(a)', Holds(b)'
      PROVE  calls'[a].fd # calls'[b].fd
  <2>1. Holds(a) /\ Holds(b)
    BY <1>1, <1>3 DEF Holds
  <2>2. calls'[a].fd = calls[a].fd /\ calls'[b].fd = calls[b].fd
    BY <1>1, <1>3 DEF Holds
  <2> QED BY <1>3, <2>1, <2>2 DEF IInv
<1>4. ASSUME NEW m \in Loggers, calls'[m].at = "tip" PROVE Ready(calls[m])'
  <2>1. CASE m = l
    BY <1>1, <1>4, <2>1 DEF Ready, TipOf
  <2>2. CASE m # l
    <3>1. calls'[m] = calls[m] /\ Holds(m) /\ Ready(calls[m])
      BY <1>1, <1>4, <2>2 DEF IInv, Holds
    <3>2. calls[m].fd # fd /\ calls[m].fd \in 1 .. MaxFiles
      BY <1>0, <2>2, <3>1 DEF IInv, TypeOK, Holds
    <3> QED BY <1>1, <3>1, <3>2, SMTT(30) DEF Ready, TipOf
  <2> QED BY <2>1, <2>2
<1>5. ASSUME NEW f \in 1 .. MaxFiles PROVE FileOK(files'[f])
  <2>1. CASE f = fd
    BY <1>1, <2>1
  <2>2. CASE f # fd
    BY <1>1, <2>2 DEF IInv
  <2> QED BY <2>1, <2>2
<1> QED BY <1>2, <1>3, <1>4, <1>5 DEF IInv

\* A call that leaves the files alone and does not get past the lock wrongly.
LEMMA CallStep ==
    ASSUME IInv, NEW l \in Loggers, NEW c \in Call,
           calls' = [calls EXCEPT ![l] = c],
           UNCHANGED <<files, current>>, next' \in Nat \ {0},
           c.at # "tip", c.at # "idle" => c.fd \in 1 .. MaxFiles /\ c.id # 0,
           c.at = "locked" => \A m \in Loggers : Holds(m) => calls[m].fd # c.fd
    PROVE  IInv'
<1>1. /\ calls'[l] = c
      /\ \A m \in Loggers : m # l => calls'[m] = calls[m]
  BY DEF IInv, TypeOK
<1>2. TypeOK'
  <2>1. calls' \in [Loggers -> Call]
    BY DEF IInv, TypeOK
  <2>2. ASSUME NEW m \in Loggers, calls'[m].at # "idle" PROVE calls'[m].fd \in 1 .. MaxFiles /\ calls'[m].id # 0
    BY <1>1, <2>2 DEF IInv, TypeOK
  <2> QED BY <2>1, <2>2 DEF IInv, TypeOK
<1>3. ASSUME NEW a \in Loggers, NEW b \in Loggers, a # b, Holds(a)', Holds(b)'
      PROVE  calls'[a].fd # calls'[b].fd
  <2>1. CASE a # l /\ b # l
    BY <1>1, <1>3, <2>1 DEF IInv, Holds
  <2>2. CASE a = l
    BY <1>1, <1>3, <2>2 DEF Holds
  <2>3. CASE b = l
    BY <1>1, <1>3, <2>3 DEF Holds
  <2> QED BY <2>1, <2>2, <2>3, SMTT(30)
<1>4. ASSUME NEW m \in Loggers, calls'[m].at = "tip" PROVE Ready(calls[m])'
  BY <1>1, <1>4, SMTT(30) DEF IInv, Ready, TipOf
<1>5. ASSUME NEW f \in 1 .. MaxFiles PROVE FileOK(files'[f])
  BY DEF IInv
<1> QED BY <1>2, <1>3, <1>4, <1>5 DEF IInv

\* Idle calls, and calls with a few fields changed, are calls.
LEMMA CallTypes ==
    ASSUME IInv, NEW l \in Loggers
    PROVE  /\ Idle \in Call /\ Idle.at = "idle"
           /\ calls[l] \in Call
           /\ GENESIS_HASH \in Seq(Nat)
<1>1. GENESIS_HASH \in Seq(Nat)
  BY DEF GENESIS_HASH
<1> QED BY <1>1 DEF IInv, TypeOK, Call, Idle

\* Opening, locking and giving up.
LEMMA OpenStep == ASSUME IInv, NEW l \in Loggers, Open(l) PROVE IInv'
<1> DEFINE c == [Idle EXCEPT !.at = "open", !.fd = current, !.id = next]
<1>1. c \in Call /\ c.at = "open" /\ c.fd \in 1 .. MaxFiles /\ c.id # 0
  <2>1. current \in Nat /\ current \in 1 .. MaxFiles /\ next \in Nat \ {0} /\ GENESIS_HASH \in Seq(Nat)
    BY CallTypes, Bounds DEF IInv, TypeOK
  <2>2. Idle \in Call
    BY CallTypes
  <2> QED BY <2>1, <2>2, Zenon DEF Call
<1>2. calls' = [calls EXCEPT ![l] = c] /\ UNCHANGED <<files, current>> /\ next' \in Nat \ {0}
  BY DEF Open, IInv, TypeOK
<1> HIDE DEF c
<1>3. c.at # "tip" /\ c.at # "locked"
  BY <1>1
<1> QED BY <1>1, <1>2, <1>3, CallStep, Zenon

LEMMA LockStep == ASSUME IInv, NEW l \in Loggers, Lock(l) PROVE IInv'
<1> DEFINE c == [calls[l] EXCEPT !.at = "locked"]
<1>1. c \in Call /\ c.at = "locked" /\ c.fd = calls[l].fd /\ c.fd \in 1 .. MaxFiles /\ c.id # 0
  BY CallTypes, Zenon DEF IInv, TypeOK, Call, Lock
<1>2. calls' = [calls EXCEPT ![l] = c] /\ UNCHANGED <<files, current>> /\ next' \in Nat \ {0}
  BY DEF Lock, IInv, TypeOK
<1>3. \A m \in Loggers : Holds(m) => calls[m].fd # c.fd
  BY <1>1 DEF Lock, Locked, Holds
<1> HIDE DEF c
<1> QED BY <1>1, <1>2, <1>3, CallStep, Zenon

LEMMA StopStep == ASSUME IInv, NEW l \in Loggers, Stop(l) PROVE IInv'
<1>1. calls' = [calls EXCEPT ![l] = Idle] /\ UNCHANGED <<files, current>> /\ next' \in Nat \ {0}
  BY DEF Stop, IInv, TypeOK
<1> QED BY <1>1, CallTypes, CallStep, Zenon

\* Cutting off a tail that does not parse, and giving one that does its newline.
LEMMA ReadStep == ASSUME IInv, NEW l \in Loggers, read_last_hash(l) PROVE IInv'
<1> DEFINE fd   == calls[l].fd
           file == files[fd]
           all  == file.lines \o file.tail
           last == all[Len(all)]
<1>1. /\ TypeOK /\ calls[l].at = "locked" /\ Holds(l) /\ fd \in 1 .. MaxFiles
      /\ file \in File /\ FileOK(file) /\ calls[l] \in Call
  BY Zenon DEF read_last_hash, IInv, TypeOK, Holds
<1>2. UNCHANGED <<current, next>>
  BY <1>1, Zenon DEF read_last_hash, TypeOK
<1>3. CASE files' = [files EXCEPT ![fd].tail = <<>>] /\ UNCHANGED calls
  <2> DEFINE new == [lines |-> file.lines, tail |-> <<>>]
  <2>1. new \in File /\ new.lines = file.lines /\ new.tail = <<>>
    BY <1>1 DEF File
  <2>2. FileOK(new)
    BY <1>1, <2>1, SMTT(30) DEF FileOK, TailOK
  <2>3. [file EXCEPT !.tail = <<>>] = new
    BY <1>1 DEF File
  <2>4. files' = [files EXCEPT ![fd] = new]
    BY <1>1, <1>3, <2>3, Zenon DEF TypeOK
  <2>5. calls' = [calls EXCEPT ![l] = calls[l]]
    BY <1>1, <1>3 DEF TypeOK
  <2> HIDE DEF new
  <2> QED BY <1>1, <1>2, <2>1, <2>2, <2>4, <2>5, HolderStep, Zenon
<1>4. CASE /\ all # <<>> => last.parses
           /\ files' = [files EXCEPT ![fd] = Terminated(file)]
           /\ calls' = [calls EXCEPT ![l].at = "tip",
                                     ![l].prev = IF all = <<>> THEN GENESIS_HASH ELSE Tip(last)]
  <2> DEFINE new  == Terminated(file)
             prev == IF all = <<>> THEN GENESIS_HASH ELSE Tip(last)
             c    == [calls[l] EXCEPT !.at = "tip", !.prev = prev]
  <2>0. file.lines \in Seq(Line) /\ file.tail \in Seq(Line) /\ all \in Seq(Line)
    BY <1>1 DEF File
  <2>1. new = [lines |-> all, tail |-> <<>>] /\ new \in File /\ new.lines = all /\ new.tail = <<>>
    <3>1. new = [lines |-> all, tail |-> <<>>]
      BY DEF Terminated
    <3> HIDE DEF all, new
    <3> QED BY <2>0, <3>1 DEF File
  <2>2. Chained(all)
    <3>1. CASE file.tail = <<>>
      <4>1. all = file.lines
        BY <2>0, <3>1
      <4> QED BY <1>1, <4>1, Zenon DEF FileOK
    <3>2. CASE file.tail # <<>>
      <4>1. PICK x \in Line : file.tail = <<x>> /\ (x.parses => Follows(x, TipOf(file.lines)))
        <5>1. 1 \in 1 .. Len(file.tail)
          BY <2>0, <3>2
        <5>2. file.tail[1] \in Line
          BY <2>0, <5>1
        <5> QED BY <1>1, <3>2, <5>2, Zenon DEF FileOK, TailOK
      <4>2. all = Append(file.lines, x)
        BY <2>0, <4>1, AppendIsConcat, Zenon
      <4>3. all # <<>> /\ last = x
        <5>1. /\ Append(file.lines, x) # <<>>
              /\ Append(file.lines, x)[Len(Append(file.lines, x))] = x
          BY <2>0, LastLine, Zenon
        <5> HIDE DEF all
        <5> QED BY <4>2, <5>1, Zenon
      <4>4. x.parses
        BY <1>4, <4>3, SMTT(30)
      <4> QED BY <1>1, <2>0, <4>1, <4>2, <4>4, AddLine, Zenon DEF FileOK
    <3> QED BY <3>1, <3>2
  <2>3. FileOK(new)
    BY <2>1, <2>2, Zenon DEF FileOK, TailOK
  <2>4. prev \in Seq(Nat)
    <3>1. CASE all = <<>>
      BY <3>1, CallTypes
    <3>2. CASE all # <<>>
      <4>1. last \in Line
        BY <2>0, <3>2, LastLine, Zenon
      <4> QED BY <3>2, <4>1, CallTypes, Zenon DEF Tip, Line
    <3> QED BY <3>1, <3>2, Zenon
  <2>5. prev = TipOf(all)
    BY DEF TipOf
  <2>6. c \in Call /\ c.at = "tip" /\ c.fd = fd /\ c.id = calls[l].id /\ c.prev = prev
    BY <1>1, <2>4, Zenon DEF Call
  <2>7. calls' = [calls EXCEPT ![l] = c]
    BY <1>1, <1>4, Zenon DEF TypeOK
  <2>8. files' = [files EXCEPT ![fd] = new]
    BY <1>4, Zenon
  <2> HIDE DEF new, prev, c
  <2> QED BY <1>1, <1>2, <2>1, <2>3, <2>5, <2>6, <2>7, <2>8, HolderStep, Zenon
<1> QED BY <1>3, <1>4, Zenon DEF read_last_hash

\* Writing any part of an entry after the tip that was read.
LEMMA WriteStep ==
    ASSUME IInv, NEW l \in Loggers, NEW extent \in Extents, write_all(l, extent)
    PROVE  IInv'
<1> DEFINE fd   == calls[l].fd
           file == files[fd]
           x    == Entry(calls[l].id, calls[l].prev)
           new  == Appended(file, x, extent)
<1>1. /\ TypeOK /\ calls[l].at = "tip" /\ Holds(l) /\ fd \in 1 .. MaxFiles
      /\ file \in File /\ FileOK(file) /\ Ready(calls[l]) /\ calls[l] \in Call
  BY DEF write_all, IInv, TypeOK, Holds
<1>2. UNCHANGED <<current, next>>
  BY <1>1 DEF write_all, TypeOK
<1>3. x \in Line /\ Follows(x, calls[l].prev)
  <2>1. calls[l].id \in Nat /\ calls[l].prev \in Seq(Nat) /\ calls[l].id # 0
    BY <1>1, Zenon DEF Call, TypeOK
  <2> QED BY <2>1, LineTypes DEF Entry, Follows
<1>4. file.tail = <<>> /\ Follows(x, TipOf(file.lines))
  BY <1>1, <1>3, SMTT(30) DEF Ready
<1>5. file.lines \in Seq(Line) /\ file = [lines |-> file.lines, tail |-> <<>>]
  BY <1>1, <1>4 DEF File
<1> HIDE DEF x
<1>6. new \in File /\ FileOK(new)
  <2>1. CASE extent = "none"
    BY <1>1, <2>1 DEF Appended
  <2>2. CASE extent = "torn"
    <3>1. new = [lines |-> file.lines, tail |-> <<Broken>>]
      BY <1>5, <2>2 DEF Appended
    <3>2. new \in File
      BY <1>5, <3>1, LineTypes DEF File
    <3>3. FileOK(new)
      <4>1. <<Broken>>[1] = Broken
        OBVIOUS
      <4> QED BY <1>1, <3>1, <4>1, LineTypes, SMTT(30) DEF FileOK, TailOK
    <3> QED BY <3>2, <3>3
  <2>3. CASE extent = "whole"
    <3>1. new = [lines |-> file.lines, tail |-> <<x>>]
      BY <1>4, <1>5, <2>3 DEF Appended
    <3>2. new \in File
      BY <1>3, <1>5, <3>1 DEF File
    <3>3. FileOK(new)
      BY <1>1, <1>3, <1>4, <3>1, SMTT(30) DEF FileOK, TailOK
    <3> QED BY <3>2, <3>3
  <2>4. CASE extent = "all"
    <3>1. new = [lines |-> Append(file.lines, x), tail |-> <<>>]
      BY <1>4, <2>4 DEF Appended
    <3>2. Append(file.lines, x) \in Seq(Line) /\ Chained(Append(file.lines, x))
      BY <1>1, <1>3, <1>4, <1>5, AddLine, SMTT(30) DEF FileOK
    <3>3. new \in File
      BY <3>1, <3>2 DEF File
    <3>4. FileOK(new)
      BY <3>1, <3>2, SMTT(30) DEF FileOK, TailOK
    <3> QED BY <3>3, <3>4
  <2> QED BY <2>1, <2>2, <2>3, <2>4 DEF Extents
<1> DEFINE c == Idle
<1>7. files' = [files EXCEPT ![fd] = new] /\ calls' = [calls EXCEPT ![l] = c]
  BY <1>1 DEF write_all, TypeOK, x
<1>8. c \in Call /\ c.at = "idle" /\ c.at # "tip"
  BY CallTypes
<1> HIDE DEF new, c
<1> QED BY <1>1, <1>2, <1>6, <1>7, <1>8, HolderStep, Zenon

-----------------------------------------------------------------------------
LEMMA InitInv == Init => IInv
<1> SUFFICES ASSUME Init PROVE IInv
  OBVIOUS
<1>1. PICK old \in {<<>>, <<Legacy>>} :
        files = [f \in 1 .. MaxFiles |->
                    IF f = 1 THEN [NoFile EXCEPT !.lines = old] ELSE NoFile]
  BY DEF Init
<1>2. old \in Seq(Line) /\ Chained(old)
  <2>1. CASE old = <<>>
    BY <2>1 DEF Chained
  <2>2. CASE old = <<Legacy>>
    <3>1. old \in Seq(Line) /\ Len(old) = 1 /\ old[1] = Legacy
      BY <2>2, LineTypes
    <3> QED BY <3>1 DEF Chained
  <2> QED BY <2>1, <2>2
<1>3. /\ Chained(<<>>)
      /\ NoFile \in File /\ NoFile.tail = <<>> /\ NoFile.lines = <<>>
      /\ [NoFile EXCEPT !.lines = old] = [lines |-> old, tail |-> <<>>]
  BY DEF NoFile, File, Chained
<1>4. [lines |-> old, tail |-> <<>>] \in File
  BY <1>2 DEF File
<1>5. \A f \in 1 .. MaxFiles : files[f] \in File /\ FileOK(files[f])
  BY <1>1, <1>2, <1>3, <1>4 DEF FileOK, TailOK
<1>6. files \in [1 .. MaxFiles -> File]
  BY <1>1, <1>5
<1>7. GENESIS_HASH \in Seq(Nat)
  BY DEF GENESIS_HASH
<1>8. Idle \in Call /\ Idle.at = "idle"
  BY <1>7 DEF Idle, Call
<1>9. TypeOK
  BY <1>6, <1>8, Bounds DEF Init, TypeOK
<1> QED BY <1>5, <1>8, <1>9 DEF IInv, Holds, Init

LEMMA StepInv == IInv /\ [Next]_vars => IInv'
<1> SUFFICES ASSUME IInv, [Next]_vars PROVE IInv'
  OBVIOUS
<1>1. CASE Rotate
  BY <1>1, Bounds, SMTT(30) DEF Rotate, IInv, TypeOK, Holds, Ready, TipOf
<1>2. CASE UNCHANGED vars
  BY <1>2 DEF vars, IInv, TypeOK, Holds, Ready, TipOf
<1> QED BY <1>1, <1>2, OpenStep, LockStep, ReadStep, WriteStep, StopStep DEF Next

\* The audit log in any instance: no complete line is ever broken, so a torn
\* write never stops the log.
THEOREM AuditLogRecovers == Spec => []NeverJams
<1>1. IInv => NeverJams
  <2> SUFFICES ASSUME IInv, NEW f \in 1 .. MaxFiles, NEW i \in DOMAIN files[f].lines
               PROVE  files[f].lines[i].parses
    BY DEF NeverJams
  <2>1. files[f].lines \in Seq(Line) /\ Chained(files[f].lines)
    BY DEF IInv, TypeOK, File, FileOK
  <2>2. i \in 1 .. Len(files[f].lines)
    BY <2>1
  <2> QED BY <2>1, <2>2, LineTypes, SMTT(30) DEF Chained, Follows
<1> QED BY <1>1, InitInv, StepInv, PTL DEF Spec

-----------------------------------------------------------------------------
\* Any window of a chain verifies, up to any of its lines, when a line from
\* before the chain is left out.
LEMMA ChainVerifies ==
    ASSUME NEW all \in Seq(Line), NEW lines \in Seq(Line), Chained(lines),
           NEW from \in Nat,
           \A i \in 1 .. Len(lines) : all[i] = lines[i]
    PROVE  verify_chain(all, {i \in 1 .. Len(lines) : i >= from /\ (i = 1 => lines[1] # Legacy)})
<1> DEFINE n == Len(lines)
           shown == {i \in 1 .. n : i >= from /\ (i = 1 => lines[1] # Legacy)}
<1>0. n \in Nat
  OBVIOUS
<1>1. ASSUME NEW i \in shown
      PROVE  /\ all[i].hash = compute_hash(all[i].id, all[i].prev_hash)
             /\ \A j \in shown :
                    j < i /\ (\A k \in shown : k <= j \/ k >= i) => all[i].prev_hash = all[j].hash
  <2>1. /\ i \in 1 .. n /\ all[i] = lines[i]
        /\ IF i = 1 THEN Follows(lines[i], GENESIS_HASH) ELSE Follows(lines[i], Tip(lines[i - 1]))
    BY <1>1 DEF Chained
  <2>2. all[i].hash = compute_hash(all[i].id, all[i].prev_hash)
    BY <2>1 DEF Follows
  <2>3. ASSUME NEW j \in shown, j < i, \A k \in shown : k <= j \/ k >= i
        PROVE  all[i].prev_hash = all[j].hash
    <3>1. i - 1 \in shown
      BY <1>0, <2>3
    <3>2. j = i - 1 /\ j \in 1 .. n /\ i # 1 /\ all[j] = lines[j] /\ lines[j] \in Line
      BY <1>0, <2>3, <3>1
    <3>3. lines[i].prev_hash = Tip(lines[j])
      BY <2>1, <3>2 DEF Follows
    <3>4. PICK tip \in Seq(Nat) : Follows(lines[j], tip)
      <4>1. CASE j = 1
        <5>1. GENESIS_HASH \in Seq(Nat)
          BY DEF GENESIS_HASH
        <5> QED BY <2>3, <3>2, <4>1, <5>1 DEF Chained
      <4>2. CASE j # 1
        <5>1. j - 1 \in 1 .. n /\ lines[j - 1] \in Line
          BY <1>0, <3>2, <4>2
        <5>2. Tip(lines[j - 1]) \in Seq(Nat)
          BY <5>1, TipTypes
        <5> QED BY <3>2, <4>2, <5>2 DEF Chained
      <4> QED BY <4>1, <4>2
    <3>5. Tip(lines[j]) = lines[j].hash
      BY <3>2, <3>4, TipTypes, SMTT(30)
    <3> QED BY <2>1, <3>2, <3>3, <3>5
  <2> QED BY <2>2, <2>3, SMTT(30)
<1> QED BY <1>1, Zenon DEF verify_chain

\* The lines of a file that parse: a chain, before what there is of the next
\* entry.
Readable(all, good) ==
    /\ all \in Seq(Line) /\ good \in Seq(Line)
    /\ Chained(good) /\ Len(good) <= Len(all)
    /\ \A i \in 1 .. Len(good) : all[i] = good[i] /\ all[i].parses
    /\ \A i \in 1 .. Len(all) : i > Len(good) => ~all[i].parses

LEMMA ChainParses ==
    ASSUME NEW good \in Seq(Line), Chained(good), NEW i \in 1 .. Len(good)
    PROVE  good[i].parses
BY LineTypes DEF Chained, Follows

LEMMA WholeIsReadable ==
    ASSUME NEW all \in Seq(Line), Chained(all)
    PROVE  Readable(all, all)
<1>1. Len(all) \in Nat
  OBVIOUS
<1>2. \A i \in 1 .. Len(all) : all[i].parses
  BY ChainParses
<1> QED BY <1>1, <1>2 DEF Readable

LEMMA TornIsReadable ==
    ASSUME NEW lines \in Seq(Line), NEW x \in Line, Chained(lines), ~x.parses
    PROVE  Readable(Append(lines, x), lines)
<1> DEFINE all == Append(lines, x)
<1>1. /\ all \in Seq(Line) /\ Len(lines) \in Nat /\ Len(all) = Len(lines) + 1
      /\ all[Len(lines) + 1] = x
      /\ \A i \in 1 .. Len(lines) : all[i] = lines[i]
  OBVIOUS
<1>2. \A i \in 1 .. Len(lines) : lines[i].parses
  BY ChainParses
<1> HIDE DEF all
<1>3. Readable(all, lines)
  BY <1>1, <1>2 DEF Readable
<1> QED BY <1>3 DEF all

LEMMA FileIsReadable ==
    ASSUME IInv, NEW f \in 1 .. MaxFiles
    PROVE  \E good : Readable(files[f].lines \o files[f].tail, good)
<1> DEFINE lines == files[f].lines
           tail  == files[f].tail
<1>1. /\ lines \in Seq(Line) /\ tail \in Seq(Line)
      /\ Chained(lines) /\ TailOK(files[f])
  BY DEF IInv, TypeOK, File, FileOK
<1>2. CASE tail = <<>>
  <2>1. lines \o tail = lines
    BY <1>1, <1>2
  <2> QED BY <1>1, <2>1, WholeIsReadable
<1>3. CASE tail # <<>>
  <2>1. PICK x \in Line : tail = <<x>> /\ (x.parses => Follows(x, TipOf(lines)))
    <3>1. 1 \in 1 .. Len(tail)
      BY <1>1, <1>3
    <3>2. tail[1] \in Line
      BY <1>1, <3>1
    <3> QED BY <1>1, <1>3, <3>2 DEF TailOK
  <2>2. lines \o tail = Append(lines, x)
    BY <1>1, <2>1, AppendIsConcat
  <2>3. CASE x.parses
    BY <1>1, <2>1, <2>2, <2>3, AddLine, WholeIsReadable, Zenon
  <2>4. CASE ~x.parses
    BY <1>1, <2>2, <2>4, TornIsReadable
  <2> QED BY <2>3, <2>4
<1> QED BY <1>2, <1>3

LEMMA FileVerifies ==
    ASSUME NEW all, NEW good, Readable(all, good), NEW n \in Nat,
           n <= Len(all), all # <<>> /\ all[1] = Legacy => n < Len(all)
    PROVE  verify_chain(all, audit_tail(all, n))
<1> DEFINE from  == Len(all) - n + 1
           shown == {i \in 1 .. Len(good) : i >= from /\ (i = 1 => good[1] # Legacy)}
<1>1. /\ all \in Seq(Line) /\ good \in Seq(Line)
      /\ Len(all) \in Nat /\ Len(good) \in Nat /\ DOMAIN all = 1 .. Len(all) /\ from \in Nat
  BY DEF Readable
<1>2. verify_chain(all, shown)
  <2> HIDE DEF from
  <2> QED BY <1>1, ChainVerifies DEF Readable
<1>3. audit_tail(all, n) = shown
  <2>1. ASSUME NEW i \in audit_tail(all, n) PROVE i \in shown
    <3>1. i \in 1 .. Len(all) /\ i + n > Len(all) /\ all[i].parses
      BY <1>1, <2>1 DEF audit_tail
    <3>2. i \in 1 .. Len(good) /\ i >= from /\ all[i] = good[i]
      BY <1>1, <3>1 DEF Readable
    <3>3. ASSUME i = 1, good[1] = Legacy PROVE FALSE
      <4>1. all[1] = Legacy /\ all # <<>>
        BY <1>1, <3>1, <3>2, <3>3
      <4> QED BY <1>1, <3>1, <3>3, <4>1
    <3> QED BY <3>2, <3>3
  <2>2. ASSUME NEW i \in shown PROVE i \in audit_tail(all, n)
    BY <1>1, <2>2 DEF audit_tail, Readable
  <2> QED BY <2>1, <2>2
<1> QED BY <1>2, <1>3

LEMMA ChainIsSound == IInv => AuditVerifies /\ StartsAtGenesis
<1> SUFFICES ASSUME IInv PROVE AuditVerifies /\ StartsAtGenesis
  OBVIOUS
<1>1. AuditVerifies
  <2> SUFFICES ASSUME NEW f \in 1 .. MaxFiles
               PROVE  LET all   == files[f].lines \o files[f].tail
                          since == IF all # <<>> /\ all[1] = Legacy THEN 1 ELSE 0
                      IN  \A n \in 1 .. Len(all) - since : verify_chain(all, audit_tail(all, n))
    BY Zenon DEF AuditVerifies
  <2> DEFINE all   == files[f].lines \o files[f].tail
             since == IF all # <<>> /\ all[1] = Legacy THEN 1 ELSE 0
  <2>1. PICK good : Readable(all, good)
    BY FileIsReadable
  <2> HIDE DEF all
  <2>2. Len(all) \in Nat
    BY <2>1 DEF Readable
  <2>3. ASSUME NEW n \in 1 .. Len(all) - since PROVE verify_chain(all, audit_tail(all, n))
    <3>1. n \in Nat /\ n <= Len(all) /\ (all # <<>> /\ all[1] = Legacy => n < Len(all))
      BY <2>2, <2>3
    <3> QED BY <2>1, <3>1, FileVerifies
  <2> QED BY <2>3, Zenon DEF all
<1>2. StartsAtGenesis
  <2> SUFFICES ASSUME NEW f \in 1 .. MaxFiles, NEW i \in DOMAIN files[f].lines,
                      files[f].lines[i] # Legacy, i = 1 \/ files[f].lines[i - 1] = Legacy
               PROVE  files[f].lines[i].prev_hash = GENESIS_HASH
    BY DEF StartsAtGenesis
  <2> DEFINE lines == files[f].lines
  <2>1. lines \in Seq(Line) /\ Chained(lines)
    BY DEF IInv, TypeOK, File, FileOK
  <2>2. i \in 1 .. Len(lines)
    BY <2>1
  <2>3. Tip(Legacy) = GENESIS_HASH
    BY DEF Tip, Legacy
  <2> QED BY <2>1, <2>2, <2>3, SMTT(30) DEF Chained, Follows
<1> QED BY <1>1, <1>2

-----------------------------------------------------------------------------
(* No entry that was acknowledged is lost or doubled *)

\* The identity of a tail that is an entry, and of an entry a call has to write.
TailId(f) == IF files[f].tail = <<>> THEN 0 ELSE files[f].tail[1].id

CallId(l) == IF calls[l].at = "idle" THEN 0 ELSE calls[l].id

Positions(f) == 1 .. Len(files[f].lines)

\* An identity is in one place: a line, a tail or a call.
OnePlace ==
    /\ \A f, g \in 1 .. MaxFiles : \A i \in Positions(f), j \in Positions(g) :
           files[f].lines[i].id = files[g].lines[j].id /\ files[f].lines[i].id # 0 => f = g /\ i = j
    /\ \A f, g \in 1 .. MaxFiles : \A i \in Positions(f) :
           TailId(g) # 0 => files[f].lines[i].id # TailId(g)
    /\ \A f \in 1 .. MaxFiles, l \in Loggers : \A i \in Positions(f) :
           CallId(l) # 0 => files[f].lines[i].id # CallId(l)
    /\ \A f, g \in 1 .. MaxFiles : f # g /\ TailId(f) # 0 => TailId(f) # TailId(g)
    /\ \A f \in 1 .. MaxFiles, l \in Loggers : CallId(l) # 0 => TailId(f) # CallId(l)
    /\ \A l, m \in Loggers : l # m /\ CallId(l) # 0 => CallId(l) # CallId(m)

\* No identity is given out twice.
GivenOut ==
    /\ \A f \in 1 .. MaxFiles : TailId(f) < next /\ \A i \in Positions(f) : files[f].lines[i].id < next
    /\ \A l \in Loggers : CallId(l) < next

\* An entry whose log() succeeded is a line.
AckedThere ==
    \A id \in acked : id # 0 /\ \E f \in 1 .. MaxFiles : \E i \in Positions(f) : files[f].lines[i].id = id

IdInv == OnePlace /\ GivenOut /\ AckedThere

\* The call that holds the lock moves identities: one that goes to a new line
\* or to the tail comes from the tail or from the call, and from there alone.
LEMMA MoveIds ==
    ASSUME IInv, IInv', IdInv, NEW l \in Loggers, NEW fd \in 1 .. MaxFiles,
           \A f \in 1 .. MaxFiles : f # fd => files'[f] = files[f],
           \A m \in Loggers : m # l => calls'[m] = calls[m],
           next' = next,
           NEW y \in {0, TailId(fd), CallId(l)},
           \A i \in Positions(fd)' :
              \/ i \in Positions(fd) /\ files'[fd].lines[i] = files[fd].lines[i]
              \/ i = Len(files[fd].lines) + 1 /\ files'[fd].lines[i].id = y,
           TailId(fd)' \in {0, TailId(fd), CallId(l)},
           CallId(l)' \in {0, CallId(l)},
           y # 0 => y # TailId(fd)' /\ y # CallId(l)',
           TailId(fd)' # 0 => TailId(fd)' # CallId(l)'
    PROVE  OnePlace' /\ GivenOut'
<1> DEFINE Id(f, i) == files[f].lines[i].id
<1>1. \A f \in 1 .. MaxFiles : f # fd => TailId(f)' = TailId(f) /\ Positions(f)' = Positions(f)
                                         /\ \A i \in Positions(f) : Id(f, i)' = Id(f, i)
  BY Zenon DEF TailId, Positions
<1>2. \A m \in Loggers : m # l => CallId(m)' = CallId(m)
  BY DEF CallId
<1>3. \A i \in Positions(fd)' :
        \/ i \in Positions(fd) /\ Id(fd, i)' = Id(fd, i)
        \/ i = Len(files[fd].lines) + 1 /\ Id(fd, i)' = y
  OBVIOUS
<1> HIDE DEF Id
<1>4. /\ \A f, g \in 1 .. MaxFiles : \A i \in Positions(f), j \in Positions(g) :
             Id(f, i) = Id(g, j) /\ Id(f, i) # 0 => f = g /\ i = j
      /\ \A f, g \in 1 .. MaxFiles : \A i \in Positions(f) : TailId(g) # 0 => Id(f, i) # TailId(g)
      /\ \A f \in 1 .. MaxFiles, m \in Loggers : \A i \in Positions(f) :
             CallId(m) # 0 => Id(f, i) # CallId(m)
      /\ \A f, g \in 1 .. MaxFiles : f # g /\ TailId(f) # 0 => TailId(f) # TailId(g)
      /\ \A f \in 1 .. MaxFiles, m \in Loggers : CallId(m) # 0 => TailId(f) # CallId(m)
      /\ \A m, k \in Loggers : m # k /\ CallId(m) # 0 => CallId(m) # CallId(k)
  BY Zenon DEF IdInv, OnePlace, Id
<1>5. \A f, g \in 1 .. MaxFiles : \A i \in Positions(f)', j \in Positions(g)' :
         Id(f, i)' = Id(g, j)' /\ Id(f, i)' # 0 => f = g /\ i = j
  BY <1>1, <1>3, <1>4, SMTT(30)
<1>6. \A f, g \in 1 .. MaxFiles : \A i \in Positions(f)' : TailId(g)' # 0 => Id(f, i)' # TailId(g)'
  BY <1>1, <1>3, <1>4, SMTT(30)
<1>7. \A f \in 1 .. MaxFiles, m \in Loggers : \A i \in Positions(f)' :
         CallId(m)' # 0 => Id(f, i)' # CallId(m)'
  BY <1>1, <1>2, <1>3, <1>4
<1>8. \A f, g \in 1 .. MaxFiles : f # g /\ TailId(f)' # 0 => TailId(f)' # TailId(g)'
  BY <1>1, <1>4
<1>9. \A f \in 1 .. MaxFiles, m \in Loggers : CallId(m)' # 0 => TailId(f)' # CallId(m)'
  BY <1>1, <1>2, <1>4
<1>10. \A m, k \in Loggers : m # k /\ CallId(m)' # 0 => CallId(m)' # CallId(k)'
  BY <1>2, <1>4
<1>11. OnePlace'
  BY <1>5, <1>6, <1>7, <1>8, <1>9, <1>10, Zenon DEF OnePlace, Id
<1>12. /\ \A f \in 1 .. MaxFiles : TailId(f) < next /\ \A i \in Positions(f) : Id(f, i) < next
       /\ \A m \in Loggers : CallId(m) < next
       /\ 0 < next
  <2>1. 0 < next
    BY DEF IInv, TypeOK
  <2> QED BY <2>1, Zenon DEF IdInv, GivenOut, Id
<1>13. \A f \in 1 .. MaxFiles : TailId(f)' < next' /\ \A i \in Positions(f)' : Id(f, i)' < next'
  BY <1>1, <1>3, <1>12
<1>14. \A m \in Loggers : CallId(m)' < next'
  BY <1>2, <1>12
<1>15. GivenOut'
  BY <1>13, <1>14 DEF GivenOut, Id
<1> QED BY <1>11, <1>15

\* What was acknowledged stays when no line goes.
LEMMA AckedStays ==
    ASSUME IdInv, acked' = acked,
           \A f \in 1 .. MaxFiles : \A i \in Positions(f) :
               i \in Positions(f)' /\ files'[f].lines[i] = files[f].lines[i]
    PROVE  AckedThere'
BY DEF IdInv, AckedThere

\* A call that leaves the files alone and forgets what it had to write, or not.
LEMMA CallIds ==
    ASSUME IInv, IInv', IdInv, NEW l \in Loggers, UNCHANGED <<files, next, acked>>,
           \A m \in Loggers : m # l => calls'[m] = calls[m],
           CallId(l)' \in {0, CallId(l)}
    PROVE  IdInv'
<1>1. /\ \A f \in 1 .. MaxFiles : TailId(f)' = TailId(f) /\ Positions(f)' = Positions(f)
      /\ \A m \in Loggers : CallId(m)' \in {0, CallId(m)}
  BY DEF TailId, Positions, CallId
<1>2. OnePlace'
  BY <1>1, SMTT(30) DEF IdInv, OnePlace
<1>3. GivenOut'
  <2>1. 0 < next
    BY DEF IInv, TypeOK
  <2> QED BY <1>1, <2>1, Zenon DEF IdInv, GivenOut
<1>4. AckedThere'
  BY <1>1, AckedStays, Zenon
<1> QED BY <1>2, <1>3, <1>4 DEF IdInv

LEMMA OpenIds == ASSUME IInv, IInv', IdInv, NEW l \in Loggers, Open(l) PROVE IdInv'
<1>1. /\ UNCHANGED <<files, acked>> /\ next \in Nat \ {0} /\ next' = next + 1
      /\ calls' = [calls EXCEPT ![l] = [Idle EXCEPT !.at = "open", !.fd = current, !.id = next]]
  BY DEF Open, IInv, TypeOK
<1>2. /\ calls'[l] = [Idle EXCEPT !.at = "open", !.fd = current, !.id = next]
      /\ \A m \in Loggers : m # l => calls'[m] = calls[m]
  BY <1>1 DEF IInv, TypeOK
<1>3. CallId(l)' = next /\ \A m \in Loggers : m # l => CallId(m)' = CallId(m)
  BY <1>2 DEF CallId, Idle
<1>4. \A f \in 1 .. MaxFiles : TailId(f)' = TailId(f) /\ Positions(f)' = Positions(f)
  BY <1>1 DEF TailId, Positions
<1>5. /\ \A f \in 1 .. MaxFiles : TailId(f) < next /\ \A i \in Positions(f) : files[f].lines[i].id < next
      /\ \A m \in Loggers : CallId(m) < next
  BY DEF IdInv, GivenOut
<1>6. /\ \A f \in 1 .. MaxFiles : TailId(f) \in Nat /\ \A i \in Positions(f) : files[f].lines[i].id \in Nat
      /\ \A m \in Loggers : CallId(m) \in Nat
  <2>1. ASSUME NEW f \in 1 .. MaxFiles PROVE TailId(f) \in Nat
    <3>1. files[f].tail \in Seq(Line)
      BY Zenon DEF IInv, TypeOK, File
    <3>2. files[f].tail # <<>> => files[f].tail[1] \in Line
      BY <3>1
    <3> QED BY <3>2 DEF TailId, Line
  <2>2. ASSUME NEW f \in 1 .. MaxFiles, NEW i \in Positions(f) PROVE files[f].lines[i].id \in Nat
    <3>1. files[f].lines \in Seq(Line)
      BY Zenon DEF IInv, TypeOK, File
    <3>2. files[f].lines[i] \in Line
      BY <3>1 DEF Positions
    <3> QED BY <3>2 DEF Line
  <2>3. ASSUME NEW m \in Loggers PROVE CallId(m) \in Nat
    BY DEF CallId, IInv, TypeOK, Call
  <2> QED BY <2>1, <2>2, <2>3
<1>7. OnePlace'
  BY <1>1, <1>3, <1>4, <1>5, <1>6, SMTT(30) DEF IdInv, OnePlace
<1>8. GivenOut'
  BY <1>1, <1>3, <1>4, <1>5, <1>6 DEF GivenOut
<1>9. AckedThere'
  BY <1>1, <1>4, AckedStays
<1> QED BY <1>7, <1>8, <1>9 DEF IdInv

AllOf(file) == file.lines \o file.tail

\* The newline of a tail that parses turns it into a line.
LEMMA Terminates ==
    ASSUME NEW file \in File, FileOK(file), NEW all, all = AllOf(file)
    PROVE  /\ \A i \in 1 .. Len(file.lines) : i \in 1 .. Len(all) /\ all[i] = file.lines[i]
           /\ \A i \in 1 .. Len(all) :
                 \/ i \in 1 .. Len(file.lines) /\ all[i] = file.lines[i]
                 \/ i = Len(file.lines) + 1 /\ file.tail # <<>> /\ all[i] = file.tail[1]
<1>0. file.lines \in Seq(Line) /\ file.tail \in Seq(Line)
  BY DEF File
<1>1. CASE file.tail = <<>>
  <2>1. all = file.lines
    BY <1>0, <1>1 DEF AllOf
  <2> QED BY <2>1
<1>2. CASE file.tail # <<>>
  <2>1. file.tail = <<file.tail[1]>> /\ file.tail[1] \in Line
    <3>1. 1 \in 1 .. Len(file.tail)
      BY <1>0, <1>2
    <3>2. file.tail[1] \in Line
      BY <1>0, <3>1
    <3> QED BY <1>2, <3>2 DEF FileOK, TailOK
  <2>2. PICK x \in Line : x = file.tail[1] /\ all = Append(file.lines, x)
    BY <1>0, <2>1, AppendIsConcat, Zenon DEF AllOf
  <2>3. PICK n : n = Len(file.lines)
    BY Zenon
  <2>4. /\ n \in Nat /\ Len(Append(file.lines, x)) = n + 1 /\ Append(file.lines, x)[n + 1] = x
        /\ \A i \in 1 .. n : Append(file.lines, x)[i] = file.lines[i]
    BY <1>0, <2>3
  <2>5. /\ n \in Nat /\ Len(all) = n + 1 /\ all[n + 1] = file.tail[1]
        /\ \A i \in 1 .. n : all[i] = file.lines[i]
    BY ONLY <2>2, <2>4
  <2>6. \A i \in 1 .. n + 1 : i \in 1 .. n \/ i = n + 1
    BY <2>5
  <2>7. \A i \in 1 .. n : i \in 1 .. n + 1
    BY <2>5
  <2> QED BY ONLY <1>2, <2>3, <2>5, <2>6, <2>7
<1> QED BY <1>1, <1>2, SMTT(30)

LEMMA ReadIds == ASSUME IInv, IInv', IdInv, NEW l \in Loggers, read_last_hash(l) PROVE IdInv'
<1>0. PICK fd \in 1 .. MaxFiles : fd = calls[l].fd
  BY Zenon DEF read_last_hash, IInv, TypeOK
<1>1. PICK file, all :
        /\ fd \in 1 .. MaxFiles /\ fd = calls[l].fd /\ file = files[fd] /\ file \in File /\ FileOK(file)
        /\ all = AllOf(file)
  <2>1. calls[l].fd \in 1 .. MaxFiles /\ files[calls[l].fd] \in File /\ FileOK(files[calls[l].fd])
    BY Zenon DEF read_last_hash, IInv, TypeOK
  <2> QED BY <1>0, <2>1
<1>2. /\ TypeOK /\ calls[l].at = "locked" /\ calls[l] \in Call
      /\ next' = next /\ acked' = acked
  BY Zenon DEF read_last_hash, IInv, TypeOK
<1>3. CASE files' = [files EXCEPT ![fd].tail = <<>>] /\ UNCHANGED calls
  <2>1. /\ \A f \in 1 .. MaxFiles : f # fd => files'[f] = files[f]
        /\ files'[fd] = [file EXCEPT !.tail = <<>>]
    BY <1>1, <1>2, <1>3 DEF TypeOK
  <2>2. files'[fd].lines = files[fd].lines /\ files'[fd].tail = <<>>
    BY <1>1, <2>1 DEF File
  <2>3. TailId(fd)' = 0 /\ CallId(l)' = CallId(l) /\ Positions(fd)' = Positions(fd)
    BY <1>3, <2>2 DEF TailId, CallId, Positions
  <2>4. OnePlace' /\ GivenOut'
    <3>1. PICK y : y = 0 /\ y \in {0, TailId(fd), CallId(l)}
      OBVIOUS
    <3> QED BY <1>2, <1>3, <2>1, <2>2, <2>3, <3>1, MoveIds, SMTT(30)
  <2>5. \A f \in 1 .. MaxFiles : Positions(f)' = Positions(f) /\ files'[f].lines = files[f].lines
    BY <2>1, <2>2, <2>3, Zenon DEF Positions
  <2>6. AckedThere'
    BY <1>2, <2>5, AckedStays
  <2> QED BY <2>4, <2>6 DEF IdInv
<1>4. CASE /\ files' = [files EXCEPT ![fd] = Terminated(file)]
           /\ calls' = [calls EXCEPT ![l].at = "tip",
                                     ![l].prev = IF AllOf(file) = <<>> THEN GENESIS_HASH
                                                 ELSE Tip(AllOf(file)[Len(AllOf(file))])]
  <2>1. /\ \A f \in 1 .. MaxFiles : f # fd => files'[f] = files[f]
        /\ files'[fd] = Terminated(file)
    BY <1>1, <1>2, <1>4 DEF TypeOK
  <2>2. files'[fd].lines = all /\ files'[fd].tail = <<>>
    <3>1. files'[fd] = [lines |-> AllOf(file), tail |-> <<>>]
      BY <2>1 DEF Terminated, AllOf
    <3>2. files'[fd] = [lines |-> all, tail |-> <<>>]
      BY ONLY <1>1, <3>1
    <3> QED BY ONLY <3>2
  <2>3. /\ \A m \in Loggers : m # l => calls'[m] = calls[m]
        /\ calls'[l].at = "tip" /\ calls'[l].id = calls[l].id
    BY <1>2, <1>4 DEF TypeOK, Call
  <2>4. TailId(fd)' = 0 /\ CallId(l)' = CallId(l)
    BY <1>2, <2>2, <2>3 DEF TailId, CallId
  <2>5. Positions(fd) = 1 .. Len(file.lines) /\ Positions(fd)' = 1 .. Len(all)
    BY <1>1, <2>2 DEF Positions
  <2>6. /\ \A i \in Positions(fd) : i \in Positions(fd)' /\ all[i] = file.lines[i]
        /\ \A i \in Positions(fd)' :
              \/ i \in Positions(fd) /\ all[i] = file.lines[i]
              \/ i = Len(file.lines) + 1 /\ file.tail # <<>> /\ all[i] = file.tail[1]
    <3>1. /\ \A i \in 1 .. Len(file.lines) : i \in 1 .. Len(all) /\ all[i] = file.lines[i]
          /\ \A i \in 1 .. Len(all) :
                \/ i \in 1 .. Len(file.lines) /\ all[i] = file.lines[i]
                \/ i = Len(file.lines) + 1 /\ file.tail # <<>> /\ all[i] = file.tail[1]
      <4>1. file \in File /\ FileOK(file) /\ all = AllOf(file)
        BY ONLY <1>1
      <4> QED BY ONLY <4>1, Terminates, SMTT(30)
    <3> QED BY ONLY <2>5, <3>1
  <2>7. PICK y : y = TailId(fd)
    OBVIOUS
  <2>8. \A i \in Positions(fd)' :
           \/ i \in Positions(fd) /\ files'[fd].lines[i] = files[fd].lines[i]
           \/ i = Len(files[fd].lines) + 1 /\ files'[fd].lines[i].id = y
    BY ONLY <1>1, <2>2, <2>6, <2>7, ZenonT(60) DEF TailId
  <2>9. OnePlace' /\ GivenOut'
    <3>1. y \in {0, TailId(fd), CallId(l)} /\ (y # 0 => y # CallId(l))
      BY <2>7, Zenon DEF IdInv, OnePlace
    <3> QED BY ONLY IInv, IInv', IdInv, <1>2, <2>1, <2>3, <2>4, <2>8, <3>1, MoveIds, ZenonT(60)
  <2>10. \A f \in 1 .. MaxFiles : \A i \in Positions(f) :
           i \in Positions(f)' /\ files'[f].lines[i] = files[f].lines[i]
    <3> TAKE f \in 1 .. MaxFiles
    <3>1. CASE f = fd
      BY ONLY <1>1, <2>2, <2>6, <3>1, Zenon
    <3>2. CASE f # fd
      BY <2>1, <3>2 DEF Positions
    <3> QED BY <3>1, <3>2, SMTT(30)
  <2>11. AckedThere'
    BY <1>2, <2>10, AckedStays
  <2> QED BY <2>9, <2>11 DEF IdInv
<1> QED BY <1>1, <1>3, <1>4, Zenon DEF read_last_hash, AllOf

LEMMA WriteIds ==
    ASSUME IInv, IInv', IdInv, NEW l \in Loggers, NEW extent \in Extents, write_all(l, extent)
    PROVE  IdInv'
<1>1. PICK fd, file, id, x :
        /\ fd \in 1 .. MaxFiles /\ fd = calls[l].fd
        /\ file = files[fd] /\ file \in File /\ file.tail = <<>>
        /\ id = calls[l].id /\ id \in Nat \ {0} /\ CallId(l) = id
        /\ x = Entry(id, calls[l].prev) /\ x \in Line /\ x.id = id
        /\ files' = [files EXCEPT ![fd] = Appended(file, x, extent)]
  <2>1. calls[l].fd \in 1 .. MaxFiles /\ files[calls[l].fd] \in File /\ files[calls[l].fd].tail = <<>>
    BY Zenon DEF write_all, IInv, TypeOK, Ready
  <2>2. calls[l].id \in Nat \ {0} /\ CallId(l) = calls[l].id /\ calls[l].prev \in Seq(Nat)
    BY Zenon DEF write_all, IInv, TypeOK, Call, CallId
  <2>3. Entry(calls[l].id, calls[l].prev) \in Line /\ Entry(calls[l].id, calls[l].prev).id = calls[l].id
    BY <2>2, LineTypes, Zenon DEF Entry
  <2>4. files' = [files EXCEPT ![calls[l].fd] =
                    Appended(files[calls[l].fd], Entry(calls[l].id, calls[l].prev), extent)]
    BY <2>1, Zenon DEF write_all, IInv, TypeOK
  <2> QED BY <2>1, <2>2, <2>3, <2>4, Zenon
<1>2. /\ \A f \in 1 .. MaxFiles : f # fd => files'[f] = files[f]
      /\ files'[fd] = Appended(file, x, extent)
      /\ \A m \in Loggers : m # l => calls'[m] = calls[m]
      /\ calls'[l] = Idle /\ next' = next
      /\ acked' = IF extent = "all" THEN acked \union {id} ELSE acked
  BY <1>1, ZenonT(60) DEF write_all, IInv, TypeOK
<1>3. CallId(l)' = 0 /\ TailId(fd) = 0
  BY <1>1, <1>2, SMTT(30) DEF CallId, Idle, TailId
<1>4. CASE extent # "all"
  <2>1. files'[fd].lines = files[fd].lines /\ TailId(fd)' \in {0, id}
    <3>1. CASE extent = "none"
      BY <1>1, <1>2, <3>1, SMTT(30) DEF Appended, TailId
    <3>2. CASE extent = "torn"
      <4>1. files'[fd] = [file EXCEPT !.tail = <<Broken>>]
        BY <1>2, <3>2 DEF Appended
      <4>2. files'[fd].lines = file.lines /\ files'[fd].tail = <<Broken>>
        BY <1>1, <4>1, SMTT(30) DEF File
      <4>3. <<Broken>>[1] = Broken /\ <<Broken>> # <<>> /\ Broken.id = 0
        BY DEF Broken
      <4> QED BY <1>1, <4>2, <4>3, Zenon DEF TailId
    <3>3. CASE extent = "whole"
      <4>1. files'[fd] = [file EXCEPT !.tail = <<x>>]
        BY <1>1, <1>2, <3>3 DEF Appended
      <4>2. files'[fd].lines = file.lines /\ files'[fd].tail = <<x>>
        BY <1>1, <4>1, SMTT(30) DEF File
      <4>3. <<x>>[1] = x /\ <<x>> # <<>>
        OBVIOUS
      <4> QED BY <1>1, <4>2, <4>3, Zenon DEF TailId
    <3> QED BY <1>4, <3>1, <3>2, <3>3, SMTT(30) DEF Extents
  <2>2. Positions(fd)' = Positions(fd)
    BY <2>1 DEF Positions
  <2>3. OnePlace' /\ GivenOut'
    <3>1. PICK y : y = 0 /\ y \in {0, TailId(fd), CallId(l)}
      OBVIOUS
    <3>2. TailId(fd)' \in {0, TailId(fd), CallId(l)} /\ (TailId(fd)' # 0 => TailId(fd)' # CallId(l)')
      BY <1>1, <1>3, <2>1, SMTT(30)
    <3>3. \A i \in Positions(fd)' :
             \/ i \in Positions(fd) /\ files'[fd].lines[i] = files[fd].lines[i]
             \/ i = Len(files[fd].lines) + 1 /\ files'[fd].lines[i].id = y
      BY <2>1, <2>2, SMTT(30)
    <3>4. CallId(l)' \in {0, CallId(l)} /\ (y # 0 => y # TailId(fd)' /\ y # CallId(l)')
      BY <1>3, <3>1
    <3> QED BY ONLY IInv, IInv', IdInv, <1>1, <1>2, <3>1, <3>2, <3>3, <3>4, MoveIds, ZenonT(60)
  <2>4. \A f \in 1 .. MaxFiles : Positions(f)' = Positions(f) /\ files'[f].lines = files[f].lines
    BY <1>2, <2>1, <2>2, Zenon DEF Positions
  <2>5. AckedThere'
    BY <1>2, <1>4, <2>4, AckedStays, Zenon
  <2> QED BY <2>3, <2>5 DEF IdInv
<1>5. CASE extent = "all"
  <2>1. files'[fd] = [lines |-> Append(file.lines, x), tail |-> <<>>]
    BY <1>1, <1>2, <1>5, SMTT(30) DEF Appended
  <2>2. files'[fd].lines = Append(file.lines, x) /\ files'[fd].tail = <<>>
    BY ONLY <2>1
  <2>3. PICK n : n = Len(file.lines)
    BY Zenon
  <2>4. /\ n \in Nat /\ Len(Append(file.lines, x)) = n + 1 /\ Append(file.lines, x)[n + 1] = x
        /\ \A i \in 1 .. n : Append(file.lines, x)[i] = file.lines[i]
    <3>1. file.lines \in Seq(Line)
      BY <1>1, SMTT(30) DEF File
    <3>2. x \in Line
      BY <1>1, SMTT(30)
    <3> QED BY ONLY <2>3, <3>1, <3>2
  <2>5. /\ n \in Nat /\ Positions(fd) = 1 .. n /\ Positions(fd)' = 1 .. n + 1
        /\ files'[fd].lines[n + 1] = x
        /\ \A i \in 1 .. n : files'[fd].lines[i] = files[fd].lines[i]
    BY ONLY <1>1, <2>2, <2>3, <2>4, ZenonT(60) DEF Positions
  <2>6. \A i \in 1 .. n + 1 : i \in 1 .. n \/ i = n + 1
    BY <2>5
  <2>7. \A i \in Positions(fd)' :
           \/ i \in Positions(fd) /\ files'[fd].lines[i] = files[fd].lines[i]
           \/ i = Len(files[fd].lines) + 1 /\ files'[fd].lines[i].id = id
    BY ONLY <1>1, <2>3, <2>5, <2>6, Zenon
  <2>8. TailId(fd)' = 0
    BY <2>2 DEF TailId
  <2>9. OnePlace' /\ GivenOut'
    <3>1. id \in {0, TailId(fd), CallId(l)} /\ id # 0
      BY <1>1, SMTT(30)
    <3>2. /\ TailId(fd)' \in {0, TailId(fd), CallId(l)} /\ CallId(l)' \in {0, CallId(l)}
          /\ id # 0 => id # TailId(fd)' /\ id # CallId(l)'
          /\ TailId(fd)' # 0 => TailId(fd)' # CallId(l)'
      BY <1>3, <2>8, <3>1
    <3> QED BY ONLY IInv, IInv', IdInv, <1>1, <1>2, <2>7, <3>1, <3>2, MoveIds, ZenonT(60)
  <2>10. \A f \in 1 .. MaxFiles : \A i \in Positions(f) :
           i \in Positions(f)' /\ files'[f].lines[i] = files[f].lines[i]
    <3> TAKE f \in 1 .. MaxFiles
    <3>1. CASE f = fd
      BY <2>5, <3>1
    <3>2. CASE f # fd
      BY <1>2, <3>2, SMTT(30) DEF Positions
    <3> QED BY <3>1, <3>2
  <2>11. n + 1 \in Positions(fd)' /\ files'[fd].lines[n + 1].id = id
    BY <1>1, <2>5, SMTT(30)
  <2>12. AckedThere'
    <3> SUFFICES ASSUME NEW a \in acked'
                 PROVE  a # 0 /\ \E f \in 1 .. MaxFiles : \E i \in Positions(f)' : files'[f].lines[i].id = a
      BY DEF AckedThere
    <3>1. CASE a = id
      BY <1>1, <2>11, <3>1, Zenon
    <3>2. CASE a # id
      <4>1. a \in acked
        BY <1>2, <1>5, <3>2
      <4> QED BY <2>10, <4>1, SMTT(30) DEF IdInv, AckedThere
    <3> QED BY <3>1, <3>2, SMTT(30)
  <2> QED BY <2>9, <2>12 DEF IdInv
<1> QED BY <1>4, <1>5

LEMMA InitIds == Init => IdInv
<1> SUFFICES ASSUME Init PROVE IdInv
  OBVIOUS
<1>1. /\ \A f \in 1 .. MaxFiles : \/ files[f].lines = <<>>
                                  \/ f = 1 /\ files[f].lines = <<Legacy>>
      /\ \A f \in 1 .. MaxFiles : files[f].tail = <<>>
      /\ \A l \in Loggers : calls[l].at = "idle"
      /\ next = 1 /\ acked = {}
  BY DEF Init, NoFile, Idle
<1>2. <<Legacy>>[1].id = 0 /\ Len(<<Legacy>>) = 1 /\ Len(<<>>) = 0
  BY DEF Legacy
<1>3. \A f \in 1 .. MaxFiles : \A i \in Positions(f) : files[f].lines[i].id = 0
  BY <1>1, <1>2 DEF Positions
<1>4. /\ \A f \in 1 .. MaxFiles : TailId(f) = 0
      /\ \A l \in Loggers : CallId(l) = 0
  BY <1>1 DEF TailId, CallId
<1>5. GivenOut /\ AckedThere
  BY <1>1, <1>3, <1>4 DEF GivenOut, AckedThere
<1> QED BY <1>3, <1>4, <1>5, Zenon DEF IdInv, OnePlace

LEMMA StepIds == IInv /\ IInv' /\ IdInv /\ [Next]_vars => IdInv'
<1> SUFFICES ASSUME IInv, IInv', IdInv, [Next]_vars PROVE IdInv'
  OBVIOUS
<1>1. ASSUME NEW l \in Loggers, Lock(l) PROVE IdInv'
  <2>1. /\ UNCHANGED <<files, next, acked>> /\ calls[l].at = "open"
        /\ calls'[l] = [calls[l] EXCEPT !.at = "locked"]
        /\ \A m \in Loggers : m # l => calls'[m] = calls[m]
    BY <1>1 DEF Lock, IInv, TypeOK
  <2>2. CallId(l)' = CallId(l)
    BY <2>1 DEF CallId, IInv, TypeOK, Call
  <2> QED BY <2>1, <2>2, CallIds
<1>2. ASSUME NEW l \in Loggers, Stop(l) PROVE IdInv'
  <2>1. /\ UNCHANGED <<files, next, acked>> /\ calls'[l] = Idle
        /\ \A m \in Loggers : m # l => calls'[m] = calls[m]
    BY <1>2 DEF Stop, IInv, TypeOK
  <2>2. CallId(l)' = 0
    BY <2>1, SMTT(30) DEF CallId, Idle
  <2> QED BY <2>1, <2>2, CallIds
<1>3. CASE Rotate \/ UNCHANGED vars
  <2>1. UNCHANGED <<files, next, calls, acked>>
    BY <1>3 DEF Rotate, vars
  <2>2. /\ \A f \in 1 .. MaxFiles : TailId(f)' = TailId(f) /\ Positions(f)' = Positions(f)
        /\ \A m \in Loggers : CallId(m)' = CallId(m)
    BY <2>1 DEF TailId, Positions, CallId
  <2>3. OnePlace'
    BY <2>1, <2>2 DEF IdInv, OnePlace
  <2>4. GivenOut'
    BY <2>1, <2>2, Zenon DEF IdInv, GivenOut
  <2>5. AckedThere'
    BY <2>1, <2>2, AckedStays, Zenon
  <2> QED BY <2>3, <2>4, <2>5, Zenon DEF IdInv
<1> QED BY <1>1, <1>2, <1>3, OpenIds, ReadIds, WriteIds DEF Next

\* An entry whose log() met no error is a line of one file, and of no other
\* place: what was acknowledged cannot be lost or doubled.
LEMMA AckedIsKept == IInv /\ IdInv => AckedKept
<1> SUFFICES ASSUME IInv, IdInv, NEW id \in acked
             PROVE  \E f \in 1 .. MaxFiles :
                      \E i \in DOMAIN files[f].lines :
                        /\ files[f].lines[i].id = id
                        /\ \A g \in 1 .. MaxFiles : \A j \in DOMAIN files[g].lines :
                               files[g].lines[j].id = id => f = g /\ i = j
  BY DEF AckedKept
<1>1. \A f \in 1 .. MaxFiles : DOMAIN files[f].lines = Positions(f)
  <2>1. \A f \in 1 .. MaxFiles : files[f].lines \in Seq(Line)
    BY DEF IInv, TypeOK, File
  <2> QED BY <2>1 DEF Positions
<1>2. PICK f \in 1 .. MaxFiles : \E i \in Positions(f) : id # 0 /\ files[f].lines[i].id = id
  BY DEF IdInv, AckedThere
<1>3. PICK i \in Positions(f) : id # 0 /\ files[f].lines[i].id = id
  BY <1>2
<1>4. \A g \in 1 .. MaxFiles : \A j \in Positions(g) : files[g].lines[j].id = id => f = g /\ i = j
  BY <1>3, SMTT(30) DEF IdInv, OnePlace
<1> QED BY <1>1, <1>3, <1>4

\* Through torn writes, loggers racing for the lock, readers that take none and
\* rotations, what GET /audit-log shows verifies, every file starts at the
\* genesis hash, and an entry whose log() succeeded is there exactly once.
THEOREM AuditStaysIntact == Spec => []AuditIntact
<1>1. Init => IInv /\ IdInv
  BY InitInv, InitIds
<1>2. (IInv /\ IdInv) /\ [Next]_vars => (IInv /\ IdInv)'
  BY StepInv, StepIds
<1>3. IInv /\ IdInv => AuditIntact
  BY ChainIsSound, AckedIsKept DEF AuditIntact
<1> QED BY <1>1, <1>2, <1>3, PTL DEF Spec

-----------------------------------------------------------------------------
(* The registry of nodes: the inductive invariant *)

(* A readable file holds every revocation that succeeded, and a process holds
   every one that failed there.  Without a file either nothing was revoked yet
   or every process has seen the file that is gone; a process that has not seen
   a file knows no node, and a file that is no file binds none. *)
RegistryInv ==
  /\ RegistryTypeOK /\ damage \in Nat
  /\ registry.is = "good" => banned \subseteq registry.revoked
  /\ \A p \in Procs : distrust[p] \subseteq mem[p].unsaved
  /\ registry.is = "absent" => IF damage = 0 THEN banned = {} ELSE \A p \in Procs : mem[p].existed
  /\ \A p \in Procs : ~mem[p].existed => mem[p].nodes = NoNodes
  /\ registry.is # "good" => registry.nodes = NoNodes

(* What reading the file yields, field by field. *)
LEMMA Refreshed ==
  ASSUME RegistryInv, NEW m \in Memory
  PROVE  /\ refresh(m) \in Memory
         /\ refresh(m).unsaved = m.unsaved
         /\ m.existed => refresh(m).existed
         /\ ~refresh(m).existed => refresh(m).nodes = m.nodes
         /\ ~refresh(m).poisoned =>
              \/ /\ registry.is = "good"
                 /\ refresh(m).nodes = registry.nodes
                 /\ refresh(m).revoked = registry.revoked \union m.unsaved
              \/ registry.is = "absent" /\ ~m.existed /\ refresh(m) = m
<1>1. CASE m.poisoned \/ (registry.is = "absent" /\ ~m.existed)
  BY <1>1 DEF refresh, Memory
<1>2. CASE ~(m.poisoned \/ (registry.is = "absent" /\ ~m.existed)) /\ registry.is # "good"
  <2>1. refresh(m) = [m EXCEPT !.poisoned = TRUE]
    BY <1>2 DEF refresh
  <2>2. QED
    BY <2>1, Zenon DEF Memory
<1>3. CASE ~(m.poisoned \/ (registry.is = "absent" /\ ~m.existed)) /\ registry.is = "good"
  <2>1. refresh(m) = [m EXCEPT !.nodes = registry.nodes, !.revoked = registry.revoked \union m.unsaved,
                               !.existed = TRUE]
    BY <1>3 DEF refresh
  <2>2. registry.nodes \in Bindings /\ registry.revoked \in SUBSET NodeIds
    BY DEF RegistryInv, RegistryTypeOK, RegistryFile
  <2>3. QED
    BY <1>3, <2>1, <2>2, ZenonT(60) DEF Memory
<1>4. QED
  BY <1>1, <1>2, <1>3, Zenon

(* The invariant is what the property needs: a session is trusted only under a
   readable file, and that file or the process knows the revocation. *)
LEMMA InvDistrusts == RegistryInv => RevokedDistrusted
<1> SUFFICES ASSUME RegistryInv, NEW p \in Procs, NEW n \in NodeIds, NEW k \in Keys, Trusts(p, n, k)
             PROVE  n \notin banned \union distrust[p]
  BY DEF RevokedDistrusted
<1>1. mem[p] \in Memory
  BY DEF RegistryInv, RegistryTypeOK
<1>2. /\ ~refresh(mem[p]).poisoned /\ refresh(mem[p]).nodes[n] = {k}
      /\ n \notin refresh(mem[p]).revoked
  BY DEF Trusts, is_authorized
<1>3. CASE registry.is = "good" /\ refresh(mem[p]).revoked = registry.revoked \union mem[p].unsaved
  BY <1>2, <1>3, Zenon DEF RegistryInv, RegistryTypeOK
<1>4. CASE ~mem[p].existed /\ refresh(mem[p]) = mem[p]
  BY <1>2, <1>4, ZenonT(60) DEF RegistryInv, RegistryTypeOK, NoNodes
<1>5. QED
  BY <1>1, <1>2, <1>3, <1>4, Refreshed, Zenon

(* A process writes only what it has just read, changed by its operation: what
   it has read is either the good file or nothing at all. *)
LEMMA MayPersist ==
  ASSUME RegistryInv, NEW m \in Memory, NEW p \in Procs, m = refresh(mem[p]), ~m.poisoned
  PROVE  banned \subseteq m.revoked /\ (registry.is = "absent" => damage = 0)
<1>1. mem[p] \in Memory
  BY DEF RegistryInv, RegistryTypeOK
<1>2. \/ registry.is = "good" /\ m.revoked = registry.revoked \union mem[p].unsaved
      \/ registry.is = "absent" /\ ~mem[p].existed
  BY <1>1, Refreshed
<1>3. QED
  BY <1>2 DEF RegistryInv, RegistryTypeOK

LEMMA RegistryInitHolds == RegistryInit => RegistryInv
<1> SUFFICES ASSUME RegistryInit PROVE RegistryInv
  OBVIOUS
<1>1. Fresh \in Memory /\ ~Fresh.existed /\ Fresh.nodes = NoNodes
  BY Zenon DEF Fresh, Memory, Bindings, NoNodes
<1>2. [is |-> "absent", nodes |-> NoNodes, revoked |-> {}] \in RegistryFile
  BY DEF RegistryFile, Bindings, NoNodes
<1>3. mem \in [Procs -> Memory] /\ \A p \in Procs : mem[p] = Fresh
  BY <1>1 DEF RegistryInit
<1>4. registry \in RegistryFile /\ registry.is = "absent"
  BY <1>2 DEF RegistryInit
<1>5. QED
  BY <1>1, <1>3, <1>4 DEF RegistryInit, RegistryInv, RegistryTypeOK

(* A process changes its own memory, and the file at most to one that holds
   the revocations. *)
LEMMA ProcessStep ==
  ASSUME RegistryInv, NEW p \in Procs, NEW m \in Memory,
         mem' = [mem EXCEPT ![p] = m], damage' = damage,
         session' \in [Procs -> SUBSET (NodeIds \X Keys)],
         banned' \in SUBSET NodeIds, distrust' \in [Procs -> SUBSET NodeIds],
         distrust'[p] \subseteq m.unsaved,
         \A q \in Procs \ {p} : distrust'[q] = distrust[q],
         \/ registry' = registry /\ banned' = banned
         \/ registry' \in RegistryFile /\ registry'.is = "good" /\ banned' \subseteq registry'.revoked,
         damage # 0 /\ mem[p].existed => m.existed,
         ~m.existed => m.nodes = NoNodes
  PROVE  RegistryInv'
<1>1. \A q \in Procs : mem'[q] = IF q = p THEN m ELSE mem[q]
  BY Zenon DEF RegistryInv, RegistryTypeOK
<1>2. registry' \in RegistryFile /\ mem' \in [Procs -> Memory] /\ damage' \in Nat
  BY Zenon DEF RegistryInv, RegistryTypeOK
<1>3. registry'.is = "good" => banned' \subseteq registry'.revoked
  BY Zenon DEF RegistryInv, RegistryTypeOK
<1>4. \A q \in Procs : distrust'[q] \subseteq mem'[q].unsaved
  BY <1>1, Zenon DEF RegistryInv, RegistryTypeOK
<1>5. registry'.is = "absent" =>
        IF damage' = 0 THEN banned' = {} ELSE \A q \in Procs : mem'[q].existed
  BY <1>1, Zenon DEF RegistryInv, RegistryTypeOK
<1>6. \A q \in Procs : ~mem'[q].existed => mem'[q].nodes = NoNodes
  BY <1>1, Zenon DEF RegistryInv, RegistryTypeOK
<1>7. QED
  BY <1>2, <1>3, <1>4, <1>5, <1>6, Zenon DEF RegistryInv, RegistryTypeOK, NoNodes

LEMMA LoadHolds ==
  ASSUME RegistryInv, NEW p \in Procs, damage = 0, Load(p)
  PROVE  RegistryInv'
<1>1. Fresh \in Memory /\ Fresh.nodes = NoNodes
  BY Zenon DEF Fresh, Memory, Bindings, NoNodes
<1>2. refresh(Fresh) \in Memory /\ (~refresh(Fresh).existed => refresh(Fresh).nodes = NoNodes)
  BY <1>1, Refreshed
<1>3. /\ mem' = [mem EXCEPT ![p] = refresh(Fresh)] /\ damage' = damage
      /\ registry' = registry /\ banned' = banned /\ banned' \in SUBSET NodeIds
  BY Zenon DEF Load, RegistryInv, RegistryTypeOK
<1>4. /\ session' \in [Procs -> SUBSET (NodeIds \X Keys)]
      /\ distrust' \in [Procs -> SUBSET NodeIds] /\ distrust'[p] \subseteq refresh(Fresh).unsaved
      /\ \A q \in Procs \ {p} : distrust'[q] = distrust[q]
  BY Zenon DEF Load, RegistryInv, RegistryTypeOK
<1>5. QED
  BY <1>2, <1>3, <1>4, ProcessStep, Zenon

LEMMA HealthHolds ==
  ASSUME RegistryInv, NEW p \in Procs, check_health(p)
  PROVE  RegistryInv'
<1>1. mem[p] \in Memory
  BY DEF RegistryInv, RegistryTypeOK
<1>2. /\ refresh(mem[p]) \in Memory /\ refresh(mem[p]).unsaved = mem[p].unsaved
      /\ mem[p].existed => refresh(mem[p]).existed
      /\ ~refresh(mem[p]).existed => refresh(mem[p]).nodes = mem[p].nodes
  BY <1>1, Refreshed
<1>3. ~refresh(mem[p]).existed => refresh(mem[p]).nodes = NoNodes
  BY <1>2, Zenon DEF RegistryInv, RegistryTypeOK
<1>4. /\ mem' = [mem EXCEPT ![p] = refresh(mem[p])] /\ damage' = damage
      /\ registry' = registry /\ banned' = banned /\ distrust' = distrust
      /\ session' \in [Procs -> SUBSET (NodeIds \X Keys)]
  BY DEF check_health, RegistryInv, RegistryTypeOK
<1>5. /\ banned' \in SUBSET NodeIds /\ distrust' \in [Procs -> SUBSET NodeIds]
      /\ distrust'[p] \subseteq refresh(mem[p]).unsaved
  BY <1>2, <1>4, Zenon DEF RegistryInv, RegistryTypeOK
<1>6. QED
  BY <1>2, <1>3, <1>4, <1>5, ProcessStep, Zenon

(* The memory an operation starts from, whether or not the lock was taken. *)
LEMMA Basis ==
  ASSUME RegistryInv, NEW p \in Procs, NEW fault,
         NEW m, m = IF fault = "lock" THEN mem[p] ELSE refresh(mem[p])
  PROVE  /\ m \in Memory /\ m.unsaved = mem[p].unsaved
         /\ mem[p].existed => m.existed
         /\ ~m.existed => m.nodes = NoNodes
<1>1. mem[p] \in Memory
  BY DEF RegistryInv, RegistryTypeOK
<1>2. /\ refresh(mem[p]) \in Memory /\ refresh(mem[p]).unsaved = mem[p].unsaved
      /\ mem[p].existed => refresh(mem[p]).existed
      /\ ~refresh(mem[p]).existed => refresh(mem[p]).nodes = mem[p].nodes
  BY <1>1, Refreshed
<1>3. QED
  BY <1>1, <1>2, Zenon DEF RegistryInv, RegistryTypeOK

LEMMA AuthenticateHolds ==
  ASSUME RegistryInv, NEW p \in Procs, NEW n \in NodeIds, NEW k \in Keys, NEW fault \in Faults,
         authenticate(p, n, k, fault)
  PROVE  RegistryInv'
<1> DEFINE m == IF fault = "lock" THEN mem[p] ELSE refresh(mem[p])
           open == fault # "lock" /\ ~m.poisoned /\ n \notin m.revoked
           bind == open /\ m.nodes[n] = {} /\ p \in AutoAdd /\ fault # "write"
           bound == [m EXCEPT !.nodes[n] = {k}, !.existed = TRUE]
<1>1. /\ mem' = [mem EXCEPT ![p] = IF bind THEN bound ELSE m]
      /\ IF bind THEN persist(bound) ELSE UNCHANGED registry
      /\ session' \in [Procs -> SUBSET (NodeIds \X Keys)]
      /\ damage' = damage /\ banned' = banned /\ distrust' = distrust
  BY DEF authenticate, RegistryInv, RegistryTypeOK
<1>2. /\ m \in Memory /\ m.unsaved = mem[p].unsaved
      /\ mem[p].existed => m.existed
      /\ ~m.existed => m.nodes = NoNodes
  BY Basis
<1>3. /\ bound \in Memory /\ bound.unsaved = m.unsaved /\ bound.existed
      /\ bound.revoked = m.revoked
  BY <1>2, ZenonT(60) DEF Memory, Bindings
<1>4. CASE ~bind
  BY <1>1, <1>2, <1>4, ProcessStep, Zenon DEF RegistryInv, RegistryTypeOK
<1>5. CASE bind
  <2>1. banned \subseteq m.revoked
    BY <1>2, <1>5, MayPersist, Zenon
  <2>2. registry' = [is |-> "good", nodes |-> bound.nodes, revoked |-> bound.revoked]
    BY <1>1, <1>5 DEF persist
  <2>3. registry' \in RegistryFile /\ registry'.is = "good" /\ banned' \subseteq registry'.revoked
    BY <1>1, <1>3, <2>1, <2>2, Zenon DEF RegistryFile, Memory
  <2> HIDE DEF bound, m
  <2>4. mem' = [mem EXCEPT ![p] = bound]
    BY <1>1, <1>5, Zenon
  <2>5. /\ banned' \in SUBSET NodeIds /\ distrust' \in [Procs -> SUBSET NodeIds]
        /\ distrust'[p] \subseteq bound.unsaved
    BY <1>1, <1>2, <1>3, Zenon DEF RegistryInv, RegistryTypeOK
  <2>6. QED
    BY <1>1, <1>3, <2>3, <2>4, <2>5, ProcessStep, Zenon
<1>6. QED
  BY <1>4, <1>5, Zenon

LEMMA RevokeHolds ==
  ASSUME RegistryInv, NEW p \in Procs, NEW n \in NodeIds, NEW fault \in Faults,
         try_revoke(p, n, fault)
  PROVE  RegistryInv'
<1> DEFINE m == IF fault = "lock" THEN mem[p] ELSE refresh(mem[p])
           out == [m EXCEPT !.nodes[n] = {}, !.revoked = @ \union {n}]
           saved == [out EXCEPT !.existed = TRUE, !.unsaved = @ \ {n}]
           kept == [out EXCEPT !.unsaved = @ \union {n}]
           done == fault = "none" /\ ~m.poisoned
<1>1. /\ IF done
         THEN /\ persist(out) /\ mem' = [mem EXCEPT ![p] = saved]
              /\ banned' = banned \union {n} /\ distrust' = [distrust EXCEPT ![p] = @ \ {n}]
         ELSE /\ registry' = registry /\ mem' = [mem EXCEPT ![p] = kept]
              /\ banned' = banned /\ distrust' = [distrust EXCEPT ![p] = @ \union {n}]
      /\ session' = session /\ damage' = damage
  BY DEF try_revoke
<1>2. /\ m \in Memory /\ m.unsaved = mem[p].unsaved
      /\ mem[p].existed => m.existed
      /\ ~m.existed => m.nodes = NoNodes
  BY Basis
<1>3. /\ out \in Memory /\ out.revoked = m.revoked \union {n} /\ out.unsaved = m.unsaved
      /\ out.existed = m.existed /\ (m.nodes = NoNodes => out.nodes = NoNodes)
  BY <1>2, Zenon DEF Memory, Bindings, NoNodes
<1>4. /\ saved \in Memory /\ saved.unsaved = m.unsaved \ {n} /\ saved.existed
      /\ kept \in Memory /\ kept.unsaved = m.unsaved \union {n}
      /\ kept.existed = m.existed /\ kept.nodes = out.nodes
  <2> HIDE DEF out, m
  <2> QED BY <1>3, Zenon DEF Memory
<1>5. distrust[p] \subseteq m.unsaved /\ distrust[p] \subseteq NodeIds
  BY <1>2, Zenon DEF RegistryInv, RegistryTypeOK
<1>6. CASE done
  <2>1. banned \subseteq m.revoked
    BY <1>2, <1>6, MayPersist, Zenon
  <2>2. registry' = [is |-> "good", nodes |-> out.nodes, revoked |-> out.revoked]
    BY <1>1, <1>6 DEF persist
  <2>3. registry' \in RegistryFile /\ registry'.is = "good" /\ banned' \subseteq registry'.revoked
    BY <1>1, <1>3, <1>6, <2>1, <2>2, Zenon DEF RegistryFile, Memory
  <2> HIDE DEF out, m, saved, kept
  <2>4. mem' = [mem EXCEPT ![p] = saved] /\ damage' = damage
    BY <1>1, <1>6, Zenon
  <2>5. banned' \in SUBSET NodeIds /\ session' \in [Procs -> SUBSET (NodeIds \X Keys)]
    BY <1>1, <1>6, Zenon DEF RegistryInv, RegistryTypeOK
  <2>6. /\ distrust' \in [Procs -> SUBSET NodeIds] /\ distrust'[p] = distrust[p] \ {n}
        /\ \A q \in Procs \ {p} : distrust'[q] = distrust[q]
    BY <1>1, <1>6 DEF RegistryInv, RegistryTypeOK
  <2>7. distrust'[p] \subseteq saved.unsaved
    BY <1>4, <1>5, <2>6, Zenon
  <2>8. QED
    BY <1>4, <2>3, <2>4, <2>5, <2>6, <2>7, ProcessStep, Zenon
<1>7. CASE ~done
  <2> HIDE DEF out, m, saved, kept
  <2>1. /\ mem' = [mem EXCEPT ![p] = kept] /\ damage' = damage
        /\ registry' = registry /\ banned' = banned
    BY <1>1, <1>7, Zenon
  <2>2. banned' \in SUBSET NodeIds /\ session' \in [Procs -> SUBSET (NodeIds \X Keys)]
    BY <1>1, <2>1, Zenon DEF RegistryInv, RegistryTypeOK
  <2>3. /\ distrust' \in [Procs -> SUBSET NodeIds] /\ distrust'[p] = distrust[p] \union {n}
        /\ \A q \in Procs \ {p} : distrust'[q] = distrust[q]
    BY <1>1, <1>7 DEF RegistryInv, RegistryTypeOK
  <2>4. distrust'[p] \subseteq kept.unsaved
    BY <1>4, <1>5, <2>3, Zenon
  <2>5. (damage # 0 /\ mem[p].existed => kept.existed) /\ (~kept.existed => kept.nodes = NoNodes)
    BY <1>2, <1>3, <1>4, Zenon
  <2>6. QED
    BY <1>4, <2>1, <2>2, <2>3, <2>4, <2>5, ProcessStep, Zenon
<1>8. QED
  BY <1>6, <1>7

LEMMA UnrevokeHolds ==
  ASSUME RegistryInv, NEW p \in Procs, NEW n \in NodeIds, NEW fault \in Faults,
         try_unrevoke(p, n, fault)
  PROVE  RegistryInv'
<1> DEFINE m == IF fault = "lock" THEN mem[p] ELSE refresh(mem[p])
           out == [m EXCEPT !.revoked = @ \ {n}]
           saved == [out EXCEPT !.existed = TRUE, !.unsaved = @ \ {n}]
           done == fault = "none" /\ ~m.poisoned /\ n \in m.revoked
<1>1. /\ IF done
         THEN /\ persist(out) /\ mem' = [mem EXCEPT ![p] = saved]
              /\ banned' = banned \ {n} /\ distrust' = [distrust EXCEPT ![p] = @ \ {n}]
         ELSE /\ registry' = registry /\ mem' = [mem EXCEPT ![p] = m]
              /\ banned' = banned /\ distrust' = distrust
      /\ session' = session /\ damage' = damage
  BY DEF try_unrevoke
<1>2. /\ m \in Memory /\ m.unsaved = mem[p].unsaved
      /\ mem[p].existed => m.existed
      /\ ~m.existed => m.nodes = NoNodes
  BY Basis
<1>3. /\ out \in Memory /\ out.revoked = m.revoked \ {n} /\ out.unsaved = m.unsaved
      /\ saved \in Memory /\ saved.unsaved = m.unsaved \ {n} /\ saved.existed
  BY <1>2, ZenonT(60) DEF Memory
<1>4. distrust[p] \subseteq m.unsaved /\ distrust[p] \subseteq NodeIds
  BY <1>2 DEF RegistryInv, RegistryTypeOK
<1>5. CASE done
  <2>1. banned \subseteq m.revoked
    BY <1>2, <1>5, MayPersist, Zenon
  <2>2. registry' = [is |-> "good", nodes |-> out.nodes, revoked |-> out.revoked]
    BY <1>1, <1>5 DEF persist
  <2>3. registry' \in RegistryFile /\ registry'.is = "good" /\ banned' \subseteq registry'.revoked
    BY <1>1, <1>3, <1>5, <2>1, <2>2 DEF RegistryFile, Memory
  <2> HIDE DEF out, m, saved
  <2>4. mem' = [mem EXCEPT ![p] = saved] /\ damage' = damage
    BY <1>1, <1>5, Zenon
  <2>5. banned' \in SUBSET NodeIds /\ session' \in [Procs -> SUBSET (NodeIds \X Keys)]
    BY <1>1, <1>5, Zenon DEF RegistryInv, RegistryTypeOK
  <2>6. /\ distrust' \in [Procs -> SUBSET NodeIds] /\ distrust'[p] = distrust[p] \ {n}
        /\ \A q \in Procs \ {p} : distrust'[q] = distrust[q]
    BY <1>1, <1>5 DEF RegistryInv, RegistryTypeOK
  <2>7. distrust'[p] \subseteq saved.unsaved
    BY <1>3, <1>4, <2>6, Zenon
  <2>8. QED
    BY <1>3, <2>3, <2>4, <2>5, <2>6, <2>7, ProcessStep, Zenon
<1>6. CASE ~done
  <2> HIDE DEF m
  <2>1. /\ mem' = [mem EXCEPT ![p] = m] /\ damage' = damage
        /\ registry' = registry /\ banned' = banned /\ distrust' = distrust
    BY <1>1, <1>6, Zenon
  <2>2. /\ banned' \in SUBSET NodeIds /\ session' \in [Procs -> SUBSET (NodeIds \X Keys)]
        /\ distrust' \in [Procs -> SUBSET NodeIds]
    BY <1>1, <2>1, Zenon DEF RegistryInv, RegistryTypeOK
  <2>3. QED
    BY <1>2, <1>4, <2>1, <2>2, ProcessStep, Zenon
<1>7. QED
  BY <1>5, <1>6, Zenon

LEMMA InterfereHolds ==
  ASSUME RegistryInv, NEW as \in {"absent", "bad"}, Interfere(as)
  PROVE  RegistryInv'
<1>1. /\ registry' = [is |-> as, nodes |-> NoNodes, revoked |-> {}] /\ damage' = damage + 1
      /\ \A p \in Procs : mem[p].existed
      /\ mem' = mem /\ session' = session /\ banned' = banned /\ distrust' = distrust
  BY Zenon DEF Interfere
<1>2. registry' \in RegistryFile /\ registry'.is = as /\ registry'.nodes = NoNodes
  BY <1>1, Zenon DEF RegistryFile, Bindings, NoNodes
<1>3. registry'.is # "good" /\ damage' \in Nat /\ damage' # 0
  <2>1. damage \in Nat
    BY DEF RegistryInv, RegistryTypeOK
  <2>2. damage' \in Nat /\ damage' # 0
    BY <1>1, <2>1
  <2>3. as # "good"
    BY Zenon
  <2>4. QED
    BY <1>2, <2>2, <2>3, Zenon
<1>4. /\ \A p \in Procs : distrust'[p] \subseteq mem'[p].unsaved
      /\ \A p \in Procs : mem'[p].existed
      /\ \A p \in Procs : ~mem'[p].existed => mem'[p].nodes = NoNodes
  BY <1>1, Zenon DEF RegistryInv, RegistryTypeOK
<1>5. /\ mem' \in [Procs -> Memory] /\ session' \in [Procs -> SUBSET (NodeIds \X Keys)]
      /\ banned' \in SUBSET NodeIds /\ distrust' \in [Procs -> SUBSET NodeIds]
  BY <1>1, Zenon DEF RegistryInv, RegistryTypeOK
<1>6. QED
  BY <1>2, <1>3, <1>4, <1>5, Zenon DEF RegistryInv, RegistryTypeOK, NoNodes

LEMMA RegistryNextHolds == RegistryInv /\ [RegistryNext]_registryVars => RegistryInv'
<1> SUFFICES ASSUME RegistryInv, [RegistryNext]_registryVars PROVE RegistryInv'
  OBVIOUS
<1>1. CASE UNCHANGED registryVars
  BY <1>1, Zenon DEF registryVars, RegistryInv, RegistryTypeOK, NoNodes
<1>2. CASE \E p \in Procs : (damage = 0 /\ Load(p)) \/ check_health(p)
  BY <1>2, LoadHolds, HealthHolds
<1>3. CASE \E p \in Procs, n \in NodeIds, fault \in Faults, k \in Keys : authenticate(p, n, k, fault)
  BY <1>3, AuthenticateHolds
<1>4. CASE \E p \in Procs, n \in NodeIds, fault \in Faults : try_revoke(p, n, fault)
  BY <1>4, RevokeHolds
<1>5. CASE \E p \in Procs, n \in NodeIds, fault \in Faults : try_unrevoke(p, n, fault)
  BY <1>5, UnrevokeHolds
<1>6. CASE \E as \in {"absent", "bad"} : Interfere(as)
  BY <1>6, InterfereHolds, Zenon
<1>7. QED
  BY <1>1, <1>2, <1>3, <1>4, <1>5, <1>6 DEF RegistryNext

-----------------------------------------------------------------------------
(* What a step may not do *)

(* What a process writes is what it has just read, so that only the binding it
   changes can differ from the one on disk. *)
LEMMA Read ==
  ASSUME RegistryInv, NEW p \in Procs, ~refresh(mem[p]).poisoned
  PROVE  refresh(mem[p]).nodes = registry.nodes
<1>1. mem[p] \in Memory
  BY DEF RegistryInv, RegistryTypeOK
<1>2. \/ refresh(mem[p]).nodes = registry.nodes
      \/ registry.is = "absent" /\ ~mem[p].existed /\ refresh(mem[p]) = mem[p]
  BY <1>1, Refreshed
<1>3. QED
  BY <1>2, Zenon DEF RegistryInv

(* authenticate binds an identity that has no key, try_revoke drops the binding of
   the identity it revokes, and every other write keeps the bindings. *)
LEMMA StepKeepsBindings ==
  RegistryInv /\ [RegistryNext]_registryVars => [KeepsBindings]_registryVars
<1> SUFFICES ASSUME RegistryInv, RegistryNext PROVE KeepsBindings
  OBVIOUS
<1>1. ASSUME NEW p \in Procs, NEW n \in NodeIds, NEW k \in Keys, NEW fault \in Faults,
             authenticate(p, n, k, fault)
      PROVE  KeepsBindings
  <2> DEFINE m == refresh(mem[p])
             bound == [m EXCEPT !.nodes[n] = {k}, !.existed = TRUE]
  <2>1. CASE registry' = registry
    BY <2>1 DEF KeepsBindings
  <2>2. CASE persist(bound) /\ ~m.poisoned /\ m.nodes[n] = {}
    <3>1. m.nodes = registry.nodes /\ registry.nodes \in Bindings /\ m \in Memory
      BY <2>2, Read, Refreshed DEF RegistryInv, RegistryTypeOK, RegistryFile
    <3>2. registry'.nodes = [registry.nodes EXCEPT ![n] = {k}]
      <4>1. bound.nodes = [m.nodes EXCEPT ![n] = {k}]
        BY <3>1 DEF Memory
      <4> HIDE DEF bound
      <4>2. registry'.nodes = bound.nodes
        BY <2>2 DEF persist
      <4>3. QED
        BY <3>1, <4>1, <4>2
    <3>3. QED
      BY <2>2, <3>1, <3>2 DEF KeepsBindings, Bindings
  <2>3. QED
    BY <1>1, <2>1, <2>2 DEF authenticate
<1>2. ASSUME NEW p \in Procs, NEW n \in NodeIds, NEW fault \in Faults, try_revoke(p, n, fault)
      PROVE  KeepsBindings
  <2> DEFINE m == refresh(mem[p])
             out == [m EXCEPT !.nodes[n] = {}, !.revoked = @ \union {n}]
  <2>1. CASE registry' = registry
    BY <2>1 DEF KeepsBindings
  <2>2. CASE persist(out) /\ ~m.poisoned
    <3>1. m.nodes = registry.nodes /\ registry.nodes \in Bindings /\ m \in Memory
      BY <2>2, Read, Refreshed DEF RegistryInv, RegistryTypeOK, RegistryFile
    <3>2. /\ registry'.nodes = [registry.nodes EXCEPT ![n] = {}]
          /\ n \in registry'.revoked
      <4>1. out.nodes = [m.nodes EXCEPT ![n] = {}] /\ n \in out.revoked
        BY <3>1 DEF Memory
      <4> HIDE DEF out
      <4>2. registry'.nodes = out.nodes /\ registry'.revoked = out.revoked
        BY <2>2 DEF persist
      <4>3. QED
        BY <3>1, <4>1, <4>2
    <3>3. QED
      BY <3>1, <3>2 DEF KeepsBindings, Bindings
  <2>3. QED
    BY <1>2, <2>1, <2>2, Zenon DEF try_revoke
<1>3. ASSUME NEW p \in Procs, NEW n \in NodeIds, NEW fault \in Faults, try_unrevoke(p, n, fault)
      PROVE  KeepsBindings
  <2> DEFINE m == refresh(mem[p])
             out == [m EXCEPT !.revoked = @ \ {n}]
  <2>1. CASE registry' = registry
    BY <2>1 DEF KeepsBindings
  <2>2. CASE persist(out) /\ ~m.poisoned
    <3>1. m.nodes = registry.nodes /\ m \in Memory
      BY <2>2, Read, Refreshed DEF RegistryInv, RegistryTypeOK
    <3>2. registry'.nodes = registry.nodes
      <4>1. out.nodes = m.nodes
        BY <3>1 DEF Memory
      <4> HIDE DEF out
      <4>2. registry'.nodes = out.nodes
        BY <2>2 DEF persist
      <4>3. QED
        BY <3>1, <4>1, <4>2
    <3>3. QED
      BY <3>2 DEF KeepsBindings
  <2>3. QED
    BY <1>3, <2>1, <2>2 DEF try_unrevoke
<1>4. ASSUME NEW as \in {"absent", "bad"}, Interfere(as)
      PROVE  KeepsBindings
  BY <1>4 DEF Interfere, KeepsBindings
<1>5. ASSUME NEW p \in Procs, Load(p) \/ check_health(p)
      PROVE  KeepsBindings
  BY <1>5 DEF Load, check_health, KeepsBindings
<1>6. QED
  BY <1>1, <1>2, <1>3, <1>4, <1>5 DEF RegistryNext

(* Only authenticate adds to the verified identities, and it finds the registry
   closed when the file it once saw is no longer readable. *)
LEMMA StepTrustsNobodyNew ==
  RegistryInv /\ [RegistryNext]_registryVars => [TrustsNobodyNew]_registryVars
<1> SUFFICES ASSUME RegistryInv, RegistryNext, NEW q \in Procs,
                    mem[q].existed, registry.is # "good"
             PROVE  session'[q] \subseteq session[q]
  BY Zenon DEF TrustsNobodyNew
<1>1. mem[q] \in Memory /\ session \in [Procs -> SUBSET (NodeIds \X Keys)]
  BY DEF RegistryInv, RegistryTypeOK
<1>2. refresh(mem[q]).poisoned
  BY <1>1, Refreshed, Zenon
<1>3. ASSUME NEW p \in Procs, NEW n \in NodeIds, NEW k \in Keys, NEW fault \in Faults,
             authenticate(p, n, k, fault)
      PROVE  session'[q] \subseteq session[q]
  <2>1. CASE p = q
    BY <1>2, <1>3, <2>1, SMTT(30) DEF authenticate
  <2>2. CASE p # q
    BY <1>1, <1>3, <2>2, SMTT(30) DEF authenticate
  <2>3. QED
    BY <2>1, <2>2
<1>4. ASSUME NEW p \in Procs, Load(p)
      PROVE  session'[q] \subseteq session[q]
  BY <1>1, <1>4 DEF Load
<1>5. ASSUME NEW p \in Procs, NEW n \in NodeIds, NEW fault \in Faults,
             try_revoke(p, n, fault) \/ try_unrevoke(p, n, fault)
      PROVE  session'[q] \subseteq session[q]
  <2>1. session' = session
    BY <1>5 DEF try_revoke, try_unrevoke
  <2>2. QED
    BY <2>1
<1>6. ASSUME (\E p \in Procs : check_health(p)) \/ (\E as \in {"absent", "bad"} : Interfere(as))
      PROVE  session'[q] \subseteq session[q]
  BY <1>6 DEF check_health, Interfere
<1>7. QED
  BY <1>3, <1>4, <1>5, <1>6, Zenon DEF RegistryNext

(* The registry keeps the trust it was given and gives none by mistake: a revoked
   node is distrusted, by every process once the revocation is on disk and by the
   process that could not write it; a bound identity keeps its key until it is
   revoked; and a file that was damaged or removed makes nobody trusted.  All of it
   through every operation, failed lock or write, restart and damage to the file
   (refresh, authenticate, try_revoke, try_unrevoke). *)
THEOREM TrustIsKept == RegistrySpec => []RegistryTypeOK /\ TrustKept
<1>1. RegistryInv => RegistryTypeOK
  BY Zenon DEF RegistryInv
<1>2. QED
  BY RegistryInitHolds, RegistryNextHolds, InvDistrusts, StepKeepsBindings, StepTrustsNobodyNew, <1>1, PTL
     DEF RegistrySpec, TrustKept, BindingKept, NoTrustFromNothing
=============================================================================
