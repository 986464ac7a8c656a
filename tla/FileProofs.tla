----------------------------- MODULE FileProofs -----------------------------
(***************************************************************************)
(* The client file of one node (ClientDb) behaves as one database          *)
(* (SerialDb), whatever processes share it, for any number of processes    *)
(* and clients.                                                            *)
(*                                                                         *)
(* And what the files of its settings come back to: a change that is not   *)
(* confirmed is rolled back to what was there before it, for every set of  *)
(* files, contents and requests.                                           *)
(***************************************************************************)
EXTENDS ClientDb, PendingConfig, TLAPS

(* A record that is not there has no fields; the others have a time stamp  *)
(* that is not in the future.                                              *)
WellFormed(r) ==
  /\ r.st = "none" => r = NoRecord
  /\ r.st # "none" => r.at > 0
  /\ r.at <= fileClock

(* What a process has in memory is no newer than the file: an absorb takes *)
(* the file's copy, or finds a tombstone that it reaps.                    *)
Behind(m, d) ==
  \/ m.st = "none"
  \/ d.st = "none" /\ Expired(m, fileClock, TTL)
  \/ d.st # "none" /\ (TakeDisk(m, d) \/ Canonical(m) = Canonical(d))

(* The process p has the lock and has not written yet *)
Working(p) == txn # NoTxn /\ txn.step = "write" /\ Host[txn.by] = p

(* What is about to be written is one mutation of what the file holds, and *)
(* the snapshot to go back to is none at all.                              *)
Prepared(m) ==
  /\ \A i \in Ids :
       /\ Serial!Mutated(disk[i], m[i]) \/ Serial!Carried(disk[i], m[i])
       /\ m[i].st # "none" => m[i].bytes >= disk[i].bytes
       /\ Serial!Carried(disk[i], txn.rollback[i]) /\ WellFormed(txn.rollback[i])
       /\ txn.rollback[i].st # "none" => m[i].st # "none"
  /\ \A i, j \in Ids :
       i = j \/ Serial!Carried(disk[i], m[i]) \/ Serial!Carried(disk[j], m[j])

(* Once a tombstone is due to be reaped somewhere, no copy is live *)
Lapsed(i) ==
  \/ Expired(disk[i], fileClock, TTL)
  \/ \E p \in Procs : Expired(mem[p][i], fileClock, TTL)
Alive(i) == disk[i].st = "live" \/ \E p \in Procs : mem[p][i].st = "live"

(* A client that is about to be added is in no other memory *)
Unheard(p, i) == \A q \in Procs \ {p} : mem[q][i].st = "none"

FileInv ==
  /\ \A i \in Ids : WellFormed(disk[i]) /\ \A p \in Procs : WellFormed(mem[p][i])
  /\ \A i \in Ids \ used : disk[i].st = "none" /\ \A p \in Procs : mem[p][i].st = "none"
  /\ \A i \in Ids : Lapsed(i) => ~Alive(i)
  /\ \A p \in Procs : IF Working(p) THEN Prepared(mem[p])
                      ELSE \A i \in Ids : Behind(mem[p][i], disk[i])
  /\ \A p \in Procs, i \in Ids :
       Working(p) /\ disk[i].st = "none" /\ mem[p][i].st # "none" => Unheard(p, i)

DbInv == DbTypeOK /\ FileInv

LEMMA MaxOfTwo ==
  ASSUME NEW a \in Nat, NEW b \in Nat
  PROVE  Max({a, b}) \in {a, b} /\ Max({a, b}) >= a /\ Max({a, b}) >= b
<1>1. \E x \in {a, b} : \A y \in {a, b} : x >= y
  <2>1. CASE a >= b
    BY <2>1
  <2>2. CASE b >= a
    BY <2>2
  <2>3. QED
    BY <2>1, <2>2
<1>2. Max({a, b}) \in {a, b} /\ \A y \in {a, b} : Max({a, b}) >= y
  BY <1>1 DEF Max
<1>3. QED
  BY <1>2

LEMMA RecordFacts ==
  /\ NoRecord \in FileRecord /\ NoRecord.st = "none" /\ NoRecord.at = 0
  /\ NoRecord.val = 0 /\ NoRecord.bytes = 0
  /\ \A r \in FileRecord :
       /\ r.st \in {"none", "live", "dead"} /\ r.at \in Nat /\ r.bytes \in Nat
       /\ r.at \in 0..MaxClock /\ r.bytes \in 0..MaxBytes
BY DbAssumption DEF NoRecord, FileRecord, States

LEMMA LockFacts ==
  /\ \A w \in Writers : Host[w] \in Procs /\ NoTxn.by # w
  /\ \A t \in Transaction : t # NoTxn /\ t.by \in Writers /\ t.rollback \in [Ids -> FileRecord]
                            /\ t.step \in {"write", "finish"} /\ t.admin \in BOOLEAN
BY DbAssumption DEF NoTxn, Transaction

-----------------------------------------------------------------------------
(* What absorb_disk_locked makes of one record *)
Kept(r) == IF Expired(r, fileClock, TTL) THEN NoRecord ELSE r
Absorbed(m, d) == Kept(AbsorbOne(m, d))

(* The copy r can stand for the file's copy d: nothing that converges is   *)
(* different, unless d was due to be reaped.                               *)
StandsFor(r, d) ==
  /\ r \in FileRecord /\ WellFormed(r)
  /\ ~Expired(r, fileClock, TTL)
  /\ Serial!Carried(d, r)
  /\ r.st # "none" => r.bytes >= d.bytes /\ Canonical(r) = Canonical(d)

LEMMA KeptStands ==
  ASSUME DbTypeOK, NEW r \in FileRecord, NEW d \in FileRecord, WellFormed(r), WellFormed(d),
         Canonical(r) = Canonical(d), r.bytes >= d.bytes
  PROVE  StandsFor(Kept(r), d)
<1>1. fileClock \in Nat /\ TTL \in Nat
  BY DbAssumption DEF DbTypeOK
<1>2. r.st = d.st /\ r.at = d.at
  BY DEF Canonical
<1>3. CASE Expired(r, fileClock, TTL)
  <2>1. Kept(r) = NoRecord /\ Expired(d, fileClock, TTL)
    BY <1>2, <1>3 DEF Kept, Expired
  <2>2. ~Expired(NoRecord, fileClock, TTL) /\ WellFormed(NoRecord)
    BY <1>1, RecordFacts DEF Expired, WellFormed
  <2>3. QED
    BY <2>1, <2>2, RecordFacts DEF StandsFor, Serial!Carried, Serial!Gone, Serial!Expired, Expired
<1>4. CASE ~Expired(r, fileClock, TTL)
  BY <1>4 DEF Kept, StandsFor, Serial!Carried, Serial!Canonical, Canonical
<1>5. QED
  BY <1>3, <1>4

LEMMA AbsorbStands ==
  ASSUME DbTypeOK, NEW m \in FileRecord, NEW d \in FileRecord, WellFormed(m), WellFormed(d),
         Behind(m, d)
  PROVE  /\ StandsFor(Absorbed(m, d), d)
         /\ Absorbed(m, d).st # "none" => Absorbed(m, d).bytes >= m.bytes
<1>1. fileClock \in Nat /\ TTL \in Nat
  BY DbAssumption DEF DbTypeOK
<1>2. CASE d.st = "none" /\ m.st = "none"
  <2>1. m = NoRecord /\ d = NoRecord /\ AbsorbOne(m, d) = NoRecord
    BY <1>2 DEF WellFormed, AbsorbOne
  <2>2. Kept(NoRecord) = NoRecord
    BY DEF Kept
  <2>3. QED
    BY <2>1, <2>2, KeptStands, RecordFacts DEF Absorbed
<1>3. CASE d.st = "none" /\ m.st # "none"
  <2>1. AbsorbOne(m, d) = m /\ Expired(m, fileClock, TTL) /\ d = NoRecord
    BY <1>3 DEF WellFormed, AbsorbOne, Behind
  <2>2. Absorbed(m, d) = NoRecord
    BY <2>1 DEF Absorbed, Kept
  <2>3. StandsFor(Kept(NoRecord), NoRecord) /\ Kept(NoRecord) = NoRecord
    BY <2>1, KeptStands, RecordFacts DEF Kept
  <2>4. QED
    BY <2>1, <2>2, <2>3, RecordFacts
<1>4. CASE d.st # "none" /\ m.st = "none"
  <2>1. AbsorbOne(m, d) = d /\ m.bytes = 0
    BY <1>4, RecordFacts DEF WellFormed, AbsorbOne
  <2>2. Absorbed(m, d) = Kept(d) /\ StandsFor(Kept(d), d)
    BY <2>1, KeptStands, RecordFacts DEF Absorbed
  <2>3. QED
    BY <2>1, <2>2, RecordFacts DEF StandsFor
<1>5. CASE d.st # "none" /\ m.st # "none"
  <2> DEFINE top == Max({m.bytes, d.bytes})
             a == [(IF TakeDisk(m, d) THEN d ELSE m) EXCEPT !.bytes = top]
  <2>1. top \in {m.bytes, d.bytes} /\ top >= m.bytes /\ top >= d.bytes
    BY MaxOfTwo, RecordFacts
  <2>2. AbsorbOne(m, d) = a
    BY <1>5 DEF AbsorbOne
  <2>3. TakeDisk(m, d) \/ Canonical(m) = Canonical(d)
    BY <1>5 DEF Behind
  <2> HIDE DEF top
  <2>4. /\ a \in FileRecord /\ a.bytes = top
        /\ a.st = d.st /\ a.at = d.at /\ a.val = d.val
    <3>1. CASE TakeDisk(m, d)
      BY <2>1, <3>1 DEF FileRecord
    <3>2. CASE ~TakeDisk(m, d)
      <4>1. m.st = d.st /\ m.at = d.at /\ m.val = d.val
        BY <2>3, <3>2 DEF Canonical
      <4>2. QED
        BY <2>1, <3>2, <4>1 DEF FileRecord
    <3>3. QED
      BY <3>1, <3>2
  <2> HIDE DEF a
  <2>5. WellFormed(a) /\ Canonical(a) = Canonical(d)
    BY <1>5, <2>4 DEF WellFormed, Canonical
  <2>6. StandsFor(Kept(a), d)
    BY <2>1, <2>4, <2>5, KeptStands
  <2>7. Kept(a).st # "none" => Kept(a).bytes >= m.bytes
    BY <2>1, <2>4, RecordFacts DEF Kept
  <2>8. QED
    BY <2>2, <2>6, <2>7 DEF Absorbed
<1>6. QED
  BY <1>2, <1>3, <1>4, <1>5

(* What the absorbed copy of a whole database holds *)
LEMMA AbsorbAt ==
  ASSUME NEW m, NEW d, NEW i \in Ids
  PROVE  Absorb(m, d)[i] = Absorbed(m[i], d[i])
BY DEF Absorb, ReapAll, Absorbed, Kept

LEMMA AbsorbAll ==
  ASSUME DbInv, NEW p \in Procs, ~Working(p)
  PROVE  /\ Absorb(mem[p], disk) \in [Ids -> FileRecord]
         /\ \A i \in Ids :
              /\ StandsFor(Absorb(mem[p], disk)[i], disk[i])
              /\ Absorb(mem[p], disk)[i].st # "none" =>
                   Absorb(mem[p], disk)[i].bytes >= mem[p][i].bytes
<1>1. mem[p] \in [Ids -> FileRecord] /\ disk \in [Ids -> FileRecord]
  BY DEF DbInv, DbTypeOK
<1>2. ASSUME NEW i \in Ids
      PROVE  /\ StandsFor(Absorb(mem[p], disk)[i], disk[i])
             /\ Absorb(mem[p], disk)[i].st # "none" =>
                  Absorb(mem[p], disk)[i].bytes >= mem[p][i].bytes
  <2>1. WellFormed(mem[p][i]) /\ WellFormed(disk[i]) /\ Behind(mem[p][i], disk[i])
    BY DEF DbInv, FileInv
  <2>2. mem[p][i] \in FileRecord /\ disk[i] \in FileRecord /\ DbTypeOK
    BY <1>1 DEF DbInv
  <2>3. QED
    BY <2>1, <2>2, AbsorbStands, AbsorbAt
<1>3. \A i \in Ids : Absorb(mem[p], disk)[i] \in FileRecord
  BY <1>2, Zenon DEF StandsFor
<1>4. Absorb(mem[p], disk) = [i \in Ids |-> Absorb(mem[p], disk)[i]]
  BY DEF Absorb, ReapAll
<1>5. QED
  BY <1>2, <1>3, <1>4

-----------------------------------------------------------------------------
(* One process' memory changes *)

(* The process p can have r as its new copy of client i *)
Fits(p, r, i) ==
  /\ WellFormed(r)
  /\ r.st # "none" => i \in used'
  /\ Expired(r, fileClock, TTL) => Lapsed(i)
  /\ r.st = "live" => Alive(i) \/ i \notin used
  /\ disk[i].st = "none" /\ r.st # "none" =>
       Unheard(p, i) \/ (mem[p][i].st # "none" /\ (Working(p)' <=> Working(p)))

LEMMA MemoryStep ==
  ASSUME DbInv, NEW p \in Procs, NEW nm \in [Ids -> FileRecord],
         mem' = [mem EXCEPT ![p] = nm], disk' = disk, fileClock' = fileClock,
         used \subseteq used',
         \A i \in Ids : Fits(p, nm[i], i),
         \A q \in Procs \ {p} : (Working(q)' <=> Working(q)) /\ (Working(q) => txn' = txn),
         IF Working(p)' THEN Prepared(mem[p])' ELSE \A i \in Ids : Behind(nm[i], disk[i])
  PROVE  FileInv'
<1>1. mem'[p] = nm /\ \A q \in Procs \ {p} : mem'[q] = mem[q]
  BY DEF DbInv, DbTypeOK
<1>2. \A i \in Ids : WellFormed(disk[i])' /\ \A q \in Procs : WellFormed(mem[q][i])'
  BY <1>1 DEF DbInv, FileInv, WellFormed, Fits
<1>3. \A i \in Ids \ used' :
         disk'[i].st = "none" /\ \A q \in Procs : mem'[q][i].st = "none"
  BY <1>1 DEF DbInv, FileInv, Fits
<1>4. ASSUME NEW i \in Ids, Lapsed(i)'
      PROVE  ~Alive(i)'
  <2>1. Lapsed(i)
    BY <1>1, <1>4 DEF Lapsed, Fits
  <2>2. ~Alive(i) /\ i \in used
    BY <2>1, ZenonT(60) DEF DbInv, FileInv, Lapsed, Expired
  <2>3. QED
    BY <1>1, <2>2, Zenon DEF Alive, Fits
<1>5. ASSUME NEW q \in Procs
      PROVE  IF Working(q)' THEN Prepared(mem[q])'
             ELSE \A i \in Ids : Behind(mem[q][i], disk[i])'
  <2>1. CASE q = p
    BY <1>1, <2>1, Zenon DEF Behind
  <2>2. CASE q # p /\ Working(q)
    <3>1. Prepared(mem[q]) /\ txn' = txn /\ Working(q)' /\ mem'[q] = mem[q]
      BY <1>1, <2>2, Zenon DEF DbInv, FileInv
    <3>2. Prepared(mem[q])'
      BY <3>1, ZenonT(60) DEF Prepared, Serial!Mutated, Serial!Carried, WellFormed
    <3>3. QED
      BY <3>1, <3>2
  <2>3. CASE q # p /\ ~Working(q)
    <3>1. ~Working(q)' /\ mem'[q] = mem[q] /\ \A i \in Ids : Behind(mem[q][i], disk[i])
      BY <1>1, <2>3, Zenon DEF DbInv, FileInv
    <3>2. QED
      BY <3>1, Zenon DEF Behind
  <2>4. QED
    BY <2>1, <2>2, <2>3
<1>6. ASSUME NEW q \in Procs, NEW i \in Ids, Working(q)', disk'[i].st = "none",
             mem'[q][i].st # "none"
      PROVE  Unheard(q, i)'
  <2>1. CASE q = p
    <3>1. Unheard(p, i)
      BY <1>1, <1>6, <2>1, ZenonT(60) DEF DbInv, FileInv, Fits
    <3>2. QED
      BY <1>1, <2>1, <3>1 DEF Unheard
  <2>2. CASE q # p
    <3>1. Unheard(q, i) /\ mem[q][i].st # "none"
      BY <1>1, <1>6, <2>2, Zenon DEF DbInv, FileInv
    <3>2. nm[i].st = "none"
      BY <1>6, <2>2, <3>1, Zenon DEF Unheard, Fits
    <3>3. QED
      BY <1>1, <2>2, <3>1, <3>2 DEF Unheard
  <2>3. QED
    BY <2>1, <2>2
<1>7. QED
  BY <1>2, <1>3, <1>4, <1>5, <1>6, Zenon DEF FileInv, Behind

(* A copy that stands for the file's makes nothing newly due or alive *)
LEMMA StandingIsHarmless ==
  ASSUME DbInv, NEW i \in Ids, NEW r, StandsFor(r, disk[i])
  PROVE  /\ WellFormed(r) /\ (r.st # "none" => i \in used)
         /\ Expired(r, fileClock, TTL) => Lapsed(i)
         /\ r.st = "live" => Alive(i)
         /\ Behind(r, disk[i])
         /\ disk[i].st = "none" => r.st = "none"
<1>1. r.st # "none" => r.st = disk[i].st /\ Canonical(r) = Canonical(disk[i])
  BY DEF StandsFor, Canonical
<1>2. WellFormed(r) /\ ~Expired(r, fileClock, TTL)
  BY DEF StandsFor
<1>3. r.st # "none" => i \in used
  BY <1>1, Zenon DEF DbInv, FileInv
<1>4. QED
  BY <1>1, <1>2, <1>3, Zenon DEF Alive, Behind

Edited(a, t, v) == [a EXCEPT !.at = t, !.val = v]
Moved(a, x, t) == [a EXCEPT !.st = x, !.at = t]

LEMMA EditedRecord ==
  ASSUME NEW a \in FileRecord, NEW x \in States, NEW t \in 0..MaxClock,
         NEW v \in Vals \union {0}
  PROVE  /\ Edited(a, t, v) \in FileRecord /\ Moved(a, x, t) \in FileRecord
         /\ Edited(a, t, v).st = a.st /\ Moved(a, x, t).st = x
         /\ Edited(a, t, v).at = t /\ Moved(a, x, t).at = t
         /\ Edited(a, t, v).bytes = a.bytes /\ Moved(a, x, t).bytes = a.bytes
<1> DEFINE A == 0..MaxClock
           V == Vals \union {0}
           B == 0..MaxBytes
<1>1. FileRecord = [st : States, at : A, val : V, bytes : B]
  BY DEF FileRecord
<1>2. t \in A /\ v \in V
  OBVIOUS
<1> HIDE DEF A, V, B
<1>3. QED
  BY <1>1, <1>2, Zenon DEF Edited, Moved

(* What a mutation makes of a record that stands for the file's *)
LEMMA MutationMakes ==
  ASSUME DbInv, ~Pool, NEW w \in Writers, NEW i \in Ids, NEW a, StandsFor(a, disk[i]),
         NEW r \in Mutations(w, a, i)
  PROVE  /\ r \in FileRecord /\ WellFormed(r) /\ r.st # "none" /\ r.at = fileClock
         /\ Serial!Mutated(disk[i], r)
         /\ a.st # "none" => r.bytes = a.bytes
         /\ a.st = "none" => i \notin used /\ r.bytes = 0
         /\ r.st = "live" => a.st = "live" \/ i \notin used
<1>1. /\ fileClock \in 1..MaxClock /\ fileClock \in Nat /\ fileClock > 0
      /\ a \in FileRecord /\ disk[i] \in FileRecord /\ disk[i].at <= fileClock
  BY DbAssumption DEF DbInv, DbTypeOK, FileInv, WellFormed, StandsFor
<1>2. ASSUME NEW s \in FileRecord, s.at = fileClock, s.st # "none",
             disk[i].st = "dead" => s.st = "dead"
      PROVE  WellFormed(s) /\ Serial!Mutated(disk[i], s)
  BY <1>1, <1>2, RecordFacts DEF WellFormed, Serial!Mutated, Serial!Gone
<1>3. a.st # "none" => a.st = disk[i].st
  BY Zenon DEF StandsFor, Canonical
<1>4. CASE r \in insert_client(a, i)
  <2>1. /\ a.st = "none" /\ i \notin used
        /\ r = [NoRecord EXCEPT !.st = "live", !.at = fileClock]
    BY <1>4 DEF insert_client
  <2>2. r \in FileRecord /\ r.st = "live" /\ r.at = fileClock /\ r.bytes = 0
    <3>1. "live" \in States /\ 0 \in Vals \union {0} /\ fileClock \in 0..MaxClock
      BY <1>1 DEF States
    <3>2. r = Moved(NoRecord, "live", fileClock)
      BY <2>1 DEF Moved
    <3>3. QED
      BY RecordFacts, <3>1, <3>2, EditedRecord
  <2>3. disk[i].st = "none"
    BY <2>1 DEF DbInv, FileInv
  <2>4. QED
    BY <1>2, <2>1, <2>2, <2>3, Zenon
<1>5. CASE r \in update_client(a) \union bind_device(a)
  <2>1. PICK v \in Vals : a.st # "none" /\ r = [a EXCEPT !.at = fileClock, !.val = v]
    BY <1>5, Zenon DEF update_client, bind_device
  <2>2. r \in FileRecord /\ r.st = a.st /\ r.at = fileClock /\ r.bytes = a.bytes
    <3>1. "live" \in States /\ v \in Vals \union {0} /\ fileClock \in 0..MaxClock
      BY <1>1 DEF States
    <3>2. r = Edited(a, fileClock, v)
      BY <2>1 DEF Edited
    <3>3. QED
      BY <1>1, <3>1, <3>2, EditedRecord
  <2>3. QED
    BY <1>2, <1>3, <2>1, <2>2, RecordFacts, <1>1, Zenon
<1>6. CASE r \in remove_client(a)
  <2>1. a.st = "live" /\ r = [a EXCEPT !.st = "dead", !.at = fileClock]
    BY <1>6 DEF remove_client
  <2>2. r \in FileRecord /\ r.st = "dead" /\ r.at = fileClock /\ r.bytes = a.bytes
    <3>1. "dead" \in States /\ 0 \in Vals \union {0} /\ fileClock \in 0..MaxClock
      BY <1>1 DEF States
    <3>2. r = Moved(a, "dead", fileClock)
      BY <2>1 DEF Moved
    <3>3. QED
      BY <1>1, <3>1, <3>2, EditedRecord
  <2>3. QED
    BY <1>2, <2>1, <2>2, Zenon
<1>7. QED
  BY <1>4, <1>5, <1>6, Zenon DEF Mutations

-----------------------------------------------------------------------------
(* The steps that change the file or a memory *)

(* Traffic counters do not run backwards in this step *)
Growing ==
  \A i \in Ids :
    /\ disk'[i].st # "none" => disk'[i].bytes >= disk[i].bytes
    /\ mem'[Daemon][i].st # "none" =>
         \/ mem'[Daemon][i].bytes >= mem[Daemon][i].bytes
         \/ mem'[Daemon] = ReapAll(disk)

LEMMA GrowingMemory ==
  ASSUME DbTypeOK, NEW p \in Procs, NEW nm, mem' = [mem EXCEPT ![p] = nm], disk' = disk,
         \A i \in Ids : nm[i].st # "none" => nm[i].bytes >= mem[p][i].bytes
  PROVE  Growing
<1>1. mem'[p] = nm /\ \A q \in Procs \ {p} : mem'[q] = mem[q]
  BY DEF DbTypeOK
<1>2. \A i \in Ids : mem[Daemon][i].bytes \in Nat /\ disk[i].bytes \in Nat
  BY DbAssumption, RecordFacts DEF DbTypeOK
<1>3. QED
  BY <1>1, <1>2, DbAssumption DEF Growing

LEMMA AbsorbStep ==
  ASSUME DbInv, NEW p \in Procs, txn = NoTxn, mem' = [mem EXCEPT ![p] = Absorb(mem[p], disk)],
         disk' = disk, fileClock' = fileClock, used' = used,
         \/ txn' = NoTxn
         \/ /\ txn' \in Transaction
            /\ Host[txn'.by] = p /\ txn'.rollback = Absorb(mem[p], disk)
  PROVE  mem' \in [Procs -> [Ids -> FileRecord]] /\ FileInv' /\ Growing
<1>0. PICK base : base = Absorb(mem[p], disk)
  OBVIOUS
<1>1. \A q \in Procs : ~Working(q)
  BY DEF Working
<1>2. /\ base \in [Ids -> FileRecord]
      /\ \A i \in Ids : /\ StandsFor(base[i], disk[i])
                        /\ base[i].st # "none" => base[i].bytes >= mem[p][i].bytes
  BY <1>0, <1>1, AbsorbAll, ZenonT(60)
<1>3. mem' = [mem EXCEPT ![p] = base]
  BY <1>0
<1>4. txn' # NoTxn => Host[txn'.by] = p /\ txn'.rollback = base
  BY <1>0
<1>5. mem \in [Procs -> [Ids -> FileRecord]] /\ DbTypeOK
  BY Zenon DEF DbInv, DbTypeOK
<1>6. mem' \in [Procs -> [Ids -> FileRecord]] /\ mem'[p] = base
  BY <1>2, <1>3, <1>5, ZenonT(60)
<1>7. Growing
  BY <1>2, <1>3, <1>5, GrowingMemory, Zenon
<1>8. \A i \in Ids : Fits(p, base[i], i) /\ Behind(base[i], disk[i])
  BY <1>2, StandingIsHarmless, Zenon DEF Fits
<1>9. \A q \in Procs \ {p} : ~Working(q)'
  BY <1>4 DEF Working
<1>10. Working(p)' => Prepared(mem[p])'
  <2>1. SUFFICES ASSUME Working(p)'
                 PROVE  Prepared(mem[p])'
    OBVIOUS
  <2>2. txn'.rollback = base
    BY <1>4, <2>1 DEF Working
  <2>3. \A i \in Ids : /\ Serial!Carried(disk[i], base[i])' /\ WellFormed(base[i])'
                       /\ base[i].st # "none" => base[i].bytes >= disk[i].bytes
    BY <1>2, Zenon DEF StandsFor, Serial!Carried, WellFormed
  <2>4. QED
    BY <1>6, <2>2, <2>3, Zenon DEF Prepared, Serial!Carried, WellFormed
<1>11. FileInv'
  <2>1. \A q \in Procs \ {p} : (Working(q)' <=> Working(q)) /\ (Working(q) => txn' = txn)
    BY <1>1, <1>9, SMTT(30)
  <2>2. IF Working(p)' THEN Prepared(mem[p])' ELSE \A i \in Ids : Behind(base[i], disk[i])
    BY <1>8, <1>10, Zenon
  <2>3. QED
    BY <1>2, <1>3, <1>8, <2>1, <2>2, MemoryStep, Zenon
<1>12. QED
  BY <1>6, <1>7, <1>11

LEMMA MutateStep ==
  ASSUME DbInv, ~Pool, NEW w \in Writers, NEW p \in Procs, Host[w] = p, txn = NoTxn,
         NEW i \in Ids, NEW base, base = Absorb(mem[p], disk),
         NEW r \in Mutations(w, base[i], i), NEW nm, nm = [base EXCEPT ![i] = r],
         mem' = [mem EXCEPT ![p] = nm], disk' = disk, fileClock' = fileClock,
         used' = used \union {i},
         txn' \in Transaction, txn'.by = w, txn'.step = "write", txn'.rollback = base
  PROVE  mem' \in [Procs -> [Ids -> FileRecord]] /\ FileInv' /\ Growing
<1>1. \A q \in Procs : ~Working(q)
  BY Zenon DEF Working
<1>2. /\ base \in [Ids -> FileRecord]
      /\ \A j \in Ids : /\ StandsFor(base[j], disk[j])
                        /\ base[j].st # "none" => base[j].bytes >= mem[p][j].bytes
  BY <1>1, AbsorbAll, Zenon
<1>3. /\ r \in FileRecord /\ WellFormed(r) /\ r.st # "none" /\ r.at = fileClock
      /\ Serial!Mutated(disk[i], r)
      /\ base[i].st # "none" => r.bytes = base[i].bytes
      /\ base[i].st = "none" => i \notin used /\ r.bytes = 0
      /\ r.st = "live" => base[i].st = "live" \/ i \notin used
  BY <1>2, MutationMakes, SMTT(30)
<1>4. Host[txn'.by] = p
  BY Zenon
<1>5. mem \in [Procs -> [Ids -> FileRecord]] /\ disk \in [Ids -> FileRecord] /\ DbTypeOK
  BY Zenon DEF DbInv, DbTypeOK
<1>6. /\ nm \in [Ids -> FileRecord] /\ nm[i] = r
      /\ \A j \in Ids \ {i} : nm[j] = base[j]
  BY <1>2, <1>3, Zenon
<1>7. mem' \in [Procs -> [Ids -> FileRecord]] /\ mem'[p] = nm
  BY <1>5, <1>6, Zenon
<1>8. i \notin used => disk[i] = NoRecord /\ mem[p][i] = NoRecord
  BY Zenon DEF DbInv, FileInv, WellFormed
<1>9. r.bytes >= disk[i].bytes /\ r.bytes >= mem[p][i].bytes
  <2>1. CASE base[i].st = "none"
    BY <1>3, <1>8, <2>1, RecordFacts, SMTT(30)
  <2>2. CASE base[i].st # "none"
    BY <1>2, <1>3, <2>2, Zenon DEF StandsFor
  <2>3. QED
    BY <2>1, <2>2, Zenon
<1>10. Growing
  <2>1. \A j \in Ids : nm[j].st # "none" => nm[j].bytes >= mem[p][j].bytes
    BY <1>2, <1>6, <1>9, Zenon
  <2>2. QED
    BY <1>5, <2>1, GrowingMemory, Zenon
<1>11. ~Expired(r, fileClock, TTL) /\ (r.st = "live" => Alive(i) \/ i \notin used)
  <2>1. fileClock \in Nat /\ TTL \in Nat
    BY <1>5, DbAssumption DEF DbTypeOK
  <2>2. base[i].st = "live" => Alive(i)
    BY <1>2, StandingIsHarmless, Zenon
  <2>3. QED
    BY <1>3, <2>1, <2>2, SMTT(30) DEF Expired
<1>12. ASSUME NEW j \in Ids
       PROVE  Fits(p, nm[j], j)
  <2>1. CASE j = i
    <3>1. disk[i].st = "none" => i \notin used
      BY <1>2, <1>3, StandingIsHarmless, Zenon
    <3>2. disk[i].st = "none" => Unheard(p, i)
      BY <3>1, Zenon DEF DbInv, FileInv, Unheard
    <3>3. QED
      BY <1>3, <1>6, <1>11, <2>1, <3>2, Zenon DEF Fits
  <2>2. CASE j # i
    BY <1>2, <1>6, <2>2, StandingIsHarmless, Zenon DEF Fits
  <2>3. QED
    BY <2>1, <2>2, Zenon
<1>13. \A q \in Procs \ {p} : ~Working(q)'
  BY <1>4, Zenon DEF Working
<1>14. Prepared(mem[p])'
  <2>1. \A j \in Ids : /\ Serial!Carried(disk[j], base[j])' /\ WellFormed(base[j])'
                       /\ base[j].st # "none" => base[j].bytes >= disk[j].bytes
    BY <1>2, Zenon DEF StandsFor, Serial!Carried, WellFormed
  <2>2. Serial!Mutated(disk[i], r)'
    BY <1>3, Zenon DEF Serial!Mutated
  <2>3. \A j \in Ids :
          /\ Serial!Mutated(disk[j], nm[j])' \/ Serial!Carried(disk[j], nm[j])'
          /\ nm[j].st # "none" => nm[j].bytes >= disk[j].bytes
          /\ base[j].st # "none" => nm[j].st # "none"
    BY <1>3, <1>6, <1>9, <2>1, <2>2, Zenon
  <2>4. \A j, k \in Ids :
          j = k \/ Serial!Carried(disk[j], nm[j])' \/ Serial!Carried(disk[k], nm[k])'
    BY <1>6, <2>1, Zenon
  <2>5. QED
    BY <1>4, <1>7, <2>1, <2>3, <2>4, ZenonT(60) DEF Prepared, Serial!Carried, Serial!Mutated, WellFormed
<1>15. FileInv'
  <2>1. Working(p)'
    BY <1>4, LockFacts, Zenon DEF Working
  <2>2. \A q \in Procs \ {p} : (Working(q)' <=> Working(q)) /\ (Working(q) => txn' = txn)
    BY <1>1, <1>13, Zenon
  <2>3. IF Working(p)' THEN Prepared(mem[p])' ELSE \A j \in Ids : Behind(nm[j], disk[j])
    BY <1>14, <2>1, Zenon
  <2>4. used \subseteq used' /\ nm \in [Ids -> FileRecord]
    BY <1>6, Zenon
  <2>5. QED
    BY <1>12, <2>2, <2>3, <2>4, MemoryStep, Zenon
<1>16. QED
  BY <1>7, <1>10, <1>15

(* A memory that is behind the file stays behind when the file is written *)
LEMMA BehindAfter ==
  ASSUME DbTypeOK, NEW m \in FileRecord, NEW d \in FileRecord, NEW e \in FileRecord,
         WellFormed(m), WellFormed(d), WellFormed(e), Behind(m, d),
         Serial!Mutated(d, e) \/ Serial!Carried(d, e),
         Expired(d, fileClock, TTL) => m.st # "live",
         d.st = "none" /\ e.st # "none" => m.st = "none"
  PROVE  Behind(m, e)
<1>1. /\ fileClock \in Nat /\ TTL \in Nat
      /\ m.at \in Nat /\ d.at \in Nat /\ e.at \in Nat
      /\ m.st \in {"none", "live", "dead"} /\ d.st \in {"none", "live", "dead"}
      /\ e.st \in {"none", "live", "dead"}
  BY DbAssumption, RecordFacts DEF DbTypeOK
<1>2. SUFFICES ASSUME m.st # "none"
               PROVE  Behind(m, e)
  BY DEF Behind
<1>3. CASE d.st = "none"
  BY <1>2, <1>3 DEF Behind
<1>4. CASE d.st # "none" /\ Serial!Mutated(d, e)
  <2>1. e.st # "none" /\ (d.st = "dead" => e.st = "dead") /\ e.at >= d.at
    BY <1>4 DEF Serial!Mutated, Serial!Gone
  <2>2. TakeDisk(m, d) \/ Canonical(m) = Canonical(d)
    BY <1>2, <1>4 DEF Behind
  <2>3. TakeDisk(m, e) \/ Canonical(m) = Canonical(e)
    BY <1>1, <1>2, <1>4, <2>1, <2>2 DEF TakeDisk, Canonical
  <2>4. QED
    BY <2>1, <2>3 DEF Behind
<1>5. CASE d.st # "none" /\ Serial!Carried(d, e)
  <2>1. CASE Canonical(e) = Canonical(d)
    BY <1>2, <1>5, <2>1 DEF Behind, TakeDisk, Canonical
  <2>2. CASE e.st = "none" /\ Expired(d, fileClock, TTL)
    <3>1. m.st = "dead" /\ m.at > 0 /\ m.at <= d.at
      BY <1>1, <1>2, <1>5, <2>2, SMTT(30) DEF Behind, TakeDisk, Canonical, WellFormed
    <3>2. Expired(m, fileClock, TTL)
      BY <1>1, <2>2, <3>1 DEF Expired
    <3>3. QED
      BY <2>2, <3>2 DEF Behind
  <2>3. QED
    BY <1>5, <2>1, <2>2
       DEF Serial!Carried, Serial!Gone, Serial!Canonical, Serial!Expired, Canonical, Expired
<1>6. QED
  BY <1>3, <1>4, <1>5

LEMMA WriteFacts ==
  ASSUME DbInv, NEW w \in Writers, txn.by = w, txn.step = "write"
  PROVE  /\ Host[w] \in Procs /\ txn \in Transaction
         /\ Working(Host[w]) /\ Prepared(mem[Host[w]])
         /\ \A q \in Procs \ {Host[w]} : ~Working(q)
<1>1. Host[w] \in Procs /\ txn # NoTxn
  BY LockFacts
<1>2. Working(Host[w]) /\ \A q \in Procs \ {Host[w]} : ~Working(q)
  BY <1>1 DEF Working
<1>3. txn \in Transaction
  BY <1>1 DEF DbInv, DbTypeOK
<1>4. Prepared(mem[Host[w]])
  BY <1>1, <1>2, Zenon DEF DbInv, FileInv
<1>5. QED
  BY <1>1, <1>2, <1>3, <1>4, Zenon

LEMMA WriteKeeps ==
  ASSUME DbInv, NEW w \in Writers, WriteSnapshot(w)
  PROVE  FileInv' /\ Growing /\ disk' \in [Ids -> FileRecord] /\ [Serial!Next]_<<disk, fileClock>>
<1>1. PICK p \in Procs : p = Host[w]
  BY LockFacts
<1>2. /\ disk' = mem[p] /\ mem' = mem /\ fileClock' = fileClock /\ used' = used
      /\ txn.by = w /\ txn.step = "write" /\ txn' = [txn EXCEPT !.step = "finish"]
  BY <1>1 DEF WriteSnapshot
<1>3. txn \in Transaction /\ Prepared(mem[p]) /\ Working(p) /\ \A q \in Procs \ {p} : ~Working(q)
  BY <1>1, <1>2, WriteFacts
<1>4. \A q \in Procs : ~Working(q)'
  <2>1. txn'.step = "finish"
    BY <1>2, <1>3 DEF Transaction
  <2>2. QED
    BY <2>1 DEF Working
<1>5. DbTypeOK /\ disk \in [Ids -> FileRecord] /\ mem \in [Procs -> [Ids -> FileRecord]]
  BY DEF DbInv, DbTypeOK
<1>6. Growing
  <2>1. \A i \in Ids : mem[p][i].st # "none" => mem[p][i].bytes >= disk[i].bytes
    BY <1>3, Zenon DEF Prepared
  <2>2. \A i \in Ids : mem[Daemon][i].bytes \in Nat
    BY <1>5, DbAssumption, RecordFacts
  <2>3. QED
    BY <1>2, <2>1, <2>2 DEF Growing
<1>7. \A i \in Ids : WellFormed(disk[i])' /\ \A q \in Procs : WellFormed(mem[q][i])'
  BY <1>2 DEF DbInv, FileInv, WellFormed
<1>8. \A i \in Ids \ used' :
         disk'[i].st = "none" /\ \A q \in Procs : mem'[q][i].st = "none"
  BY <1>2 DEF DbInv, FileInv
<1>9. \A i \in Ids : Lapsed(i)' => ~Alive(i)'
  BY <1>2 DEF DbInv, FileInv, Lapsed, Alive
<1>10. ASSUME NEW q \in Procs, NEW i \in Ids
       PROVE  Behind(mem[q][i], mem[p][i])
  <2>1. CASE q = p
    BY <2>1, Zenon DEF Behind
  <2>2. CASE q # p
    <3>1. /\ mem[q][i] \in FileRecord /\ mem[p][i] \in FileRecord /\ disk[i] \in FileRecord
          /\ WellFormed(mem[q][i]) /\ WellFormed(mem[p][i]) /\ WellFormed(disk[i])
      BY <1>5, Zenon DEF DbInv, FileInv
    <3>2. Behind(mem[q][i], disk[i])
      BY <1>3, <2>2, Zenon DEF DbInv, FileInv
    <3>3. Serial!Mutated(disk[i], mem[p][i]) \/ Serial!Carried(disk[i], mem[p][i])
      BY <1>3, Zenon DEF Prepared
    <3>4. Expired(disk[i], fileClock, TTL) => mem[q][i].st # "live"
      BY Zenon DEF DbInv, FileInv, Lapsed, Alive
    <3>5. disk[i].st = "none" /\ mem[p][i].st # "none" => mem[q][i].st = "none"
      BY <1>3, <2>2, Zenon DEF DbInv, FileInv, Unheard
    <3>6. QED
      BY <1>5, <3>1, <3>2, <3>3, <3>4, <3>5, BehindAfter, ZenonT(60)
  <2>3. QED
    BY <2>1, <2>2
<1>11. \A q \in Procs, i \in Ids : Behind(mem[q][i], disk[i])'
  BY <1>2, <1>10 DEF Behind
<1>12. FileInv'
  BY <1>4, <1>7, <1>8, <1>9, <1>11, Zenon DEF FileInv
<1>13. ASSUME disk' # disk
       PROVE  Serial!Mutate
  <2>1. PICK k \in Ids : TRUE
    BY <1>2, <1>5, <1>13
  <2>2. \E i \in Ids : \A j \in Ids \ {i} : Serial!Carried(disk[j], mem[p][j])
    BY <1>3, <2>1, Zenon DEF Prepared
  <2>3. QED
    BY <1>2, <1>3, <2>2 DEF Prepared, Serial!Mutate
<1>14. QED
  BY <1>2, <1>5, <1>6, <1>12, <1>13 DEF Serial!Next

(* A rollback gives the memory a copy of the snapshot with other counters *)
Restored(c, b) ==
  IF b.st # "none" /\ c.st # "none" THEN [b EXCEPT !.bytes = Max({@, c.bytes})] ELSE b

LEMMA RestoredRecord ==
  ASSUME NEW c \in FileRecord, NEW b \in FileRecord
  PROVE  /\ Restored(c, b) \in FileRecord
         /\ Restored(c, b).st = b.st /\ Restored(c, b).at = b.at
         /\ Canonical(Restored(c, b)) = Canonical(b)
         /\ b.st = "none" => Restored(c, b) = b
         /\ b.st # "none" /\ c.st # "none" => Restored(c, b).bytes >= c.bytes
<1>1. /\ Max({b.bytes, c.bytes}) \in {b.bytes, c.bytes}
      /\ Max({b.bytes, c.bytes}) >= c.bytes
  BY MaxOfTwo, RecordFacts
<1>2. PICK top : top = Max({b.bytes, c.bytes})
  OBVIOUS
<1>3. /\ [b EXCEPT !.bytes = top] \in FileRecord /\ [b EXCEPT !.bytes = top].st = b.st
      /\ [b EXCEPT !.bytes = top].at = b.at /\ [b EXCEPT !.bytes = top].val = b.val
      /\ [b EXCEPT !.bytes = top].bytes = top
  BY <1>1, <1>2 DEF FileRecord
<1>4. QED
  BY <1>1, <1>2, <1>3 DEF Canonical, Restored

LEMMA FailKeeps ==
  ASSUME DbInv, NEW w \in Writers, WriteFails(w)
  PROVE  mem' \in [Procs -> [Ids -> FileRecord]] /\ FileInv' /\ Growing
<1>1. PICK p \in Procs : p = Host[w]
  BY LockFacts
<1>2. PICK nm : nm = RestorePreservingTraffic(mem[p], txn.rollback)
  OBVIOUS
<1>3. /\ mem' = [mem EXCEPT ![p] = nm] /\ disk' = disk /\ fileClock' = fileClock /\ used' = used
      /\ txn.by = w /\ txn.step = "write" /\ txn' = NoTxn
  BY <1>1, <1>2, Zenon DEF WriteFails
<1>4. txn \in Transaction /\ Prepared(mem[p]) /\ \A q \in Procs \ {p} : ~Working(q)
  BY <1>1, <1>3, WriteFacts, Zenon
<1>5. /\ DbTypeOK /\ disk \in [Ids -> FileRecord] /\ mem \in [Procs -> [Ids -> FileRecord]]
      /\ txn.rollback \in [Ids -> FileRecord]
  BY <1>4, LockFacts, Zenon DEF DbInv, DbTypeOK
<1>6. ASSUME NEW i \in Ids
      PROVE  /\ nm[i] \in FileRecord /\ Fits(p, nm[i], i) /\ Behind(nm[i], disk[i])
             /\ nm[i].st # "none" => nm[i].bytes >= mem[p][i].bytes
  <2>1. PICK b \in FileRecord : b = txn.rollback[i]
    BY <1>5
  <2>2. /\ WellFormed(b) /\ Serial!Carried(disk[i], b) /\ (b.st # "none" => mem[p][i].st # "none")
    BY <1>4, <2>1, Zenon DEF Prepared
  <2>3. nm[i] = Restored(mem[p][i], b)
    BY <1>2, <2>1 DEF RestorePreservingTraffic, Restored
  <2>4. /\ nm[i] \in FileRecord /\ nm[i].st = b.st /\ nm[i].at = b.at
        /\ Canonical(nm[i]) = Canonical(b) /\ (b.st = "none" => nm[i] = b)
        /\ b.st # "none" /\ mem[p][i].st # "none" => nm[i].bytes >= mem[p][i].bytes
    BY <1>5, <2>3, RestoredRecord, SMTT(30)
  <2>5. b.st # "none" => Canonical(b) = Canonical(disk[i]) /\ b.st = disk[i].st /\ b.at = disk[i].at
    BY <2>2, Zenon DEF Serial!Carried, Serial!Gone, Serial!Canonical, Canonical
  <2>6. WellFormed(nm[i])
    BY <2>2, <2>4, Zenon DEF WellFormed
  <2>7. Behind(nm[i], disk[i])
    BY <2>4, <2>5, Zenon DEF Behind
  <2>8. b.st # "none" => i \in used
    BY <2>5, Zenon DEF DbInv, FileInv
  <2>9. Expired(nm[i], fileClock, TTL) => Lapsed(i)
    BY <2>4, <2>5, Zenon DEF Expired, Lapsed
  <2>10. nm[i].st = "live" => Alive(i)
    BY <2>4, <2>5, Zenon DEF Alive
  <2>11. Fits(p, nm[i], i)
    BY <1>3, <2>4, <2>5, <2>6, <2>8, <2>9, <2>10, Zenon DEF Fits
  <2>12. QED
    BY <2>2, <2>4, <2>7, <2>11, Zenon
<1>7. nm \in [Ids -> FileRecord]
  <2>1. nm = [i \in Ids |-> nm[i]]
    BY <1>2 DEF RestorePreservingTraffic
  <2>2. QED
    BY <1>6, <2>1
<1>8. Growing
  BY <1>3, <1>5, <1>6, GrowingMemory, Zenon
<1>9. FileInv'
  <2>1. \A q \in Procs : ~Working(q)'
    BY <1>3, SMTT(30) DEF Working
  <2>2. \A q \in Procs \ {p} : (Working(q)' <=> Working(q)) /\ (Working(q) => txn' = txn)
    BY <1>4, <2>1
  <2>3. IF Working(p)' THEN Prepared(mem[p])' ELSE \A i \in Ids : Behind(nm[i], disk[i])
    BY <1>6, <2>1, Zenon
  <2>4. QED
    BY <1>3, <1>6, <1>7, <2>2, <2>3, MemoryStep, Zenon
<1>10. QED
  BY <1>3, <1>5, <1>7, <1>8, <1>9, Zenon

LEMMA TrafficKeeps ==
  ASSUME DbInv, NEW i \in Ids, RecordTraffic(i)
  PROVE  mem' \in [Procs -> [Ids -> FileRecord]] /\ FileInv' /\ Growing
<1>1. PICK p \in Procs : p = Daemon
  BY DbAssumption
<1>2. PICK m \in [Ids -> FileRecord] : m = mem[p]
  BY DEF DbInv, DbTypeOK
<1>3. PICK nm : nm = [m EXCEPT ![i].bytes = @ + 1]
  BY Zenon
<1>4. /\ mem' = [mem EXCEPT ![p] = nm] /\ disk' = disk /\ fileClock' = fileClock /\ used' = used
      /\ txn' = txn /\ m[i].st # "none" /\ m[i].bytes < MaxBytes
  BY <1>1, <1>2, <1>3 DEF RecordTraffic
<1>5. DbTypeOK /\ mem \in [Procs -> [Ids -> FileRecord]] /\ disk \in [Ids -> FileRecord]
  BY DEF DbInv, DbTypeOK
<1>6. /\ nm \in [Ids -> FileRecord] /\ \A j \in Ids \ {i} : nm[j] = m[j]
      /\ nm[i].st = m[i].st /\ nm[i].at = m[i].at /\ nm[i].val = m[i].val
      /\ nm[i].bytes = m[i].bytes + 1
  <2>1. m[i] \in FileRecord /\ m[i].bytes + 1 \in 0..MaxBytes
    BY <1>4, DbAssumption, RecordFacts
  <2>2. PICK b \in 0..MaxBytes : b = m[i].bytes + 1
    BY <2>1
  <2>3. nm = [m EXCEPT ![i] = [m[i] EXCEPT !.bytes = b]]
    BY <1>3, <2>2
  <2>4. /\ [m[i] EXCEPT !.bytes = b] \in FileRecord /\ [m[i] EXCEPT !.bytes = b].bytes = b
        /\ [m[i] EXCEPT !.bytes = b].st = m[i].st /\ [m[i] EXCEPT !.bytes = b].at = m[i].at
        /\ [m[i] EXCEPT !.bytes = b].val = m[i].val
    BY <2>1 DEF FileRecord
  <2>5. QED
    BY <2>2, <2>3, <2>4
<1>7. \A j \in Ids : /\ nm[j].st = m[j].st /\ nm[j].at = m[j].at /\ nm[j].val = m[j].val
                     /\ nm[j].bytes >= m[j].bytes /\ (nm[j].st = "none" => nm[j] = m[j])
  <2>1. \A j \in Ids : m[j].bytes \in Nat
    BY RecordFacts
  <2>2. QED
    BY <1>4, <1>6, <2>1
<1>8. Growing
  BY <1>2, <1>4, <1>5, <1>7, GrowingMemory, Zenon
<1>9. \A q \in Procs : Working(q)' <=> Working(q)
  BY <1>4, SMTT(30) DEF Working
<1>10. ASSUME NEW j \in Ids
       PROVE  Fits(p, nm[j], j)
  <2>1. WellFormed(m[j]) /\ (m[j].st # "none" => j \in used)
    BY <1>2, Zenon DEF DbInv, FileInv
  <2>2. WellFormed(nm[j])
    BY <1>7, <2>1, Zenon DEF WellFormed
  <2>3. Expired(nm[j], fileClock, TTL) => Lapsed(j)
    BY <1>2, <1>7, Zenon DEF Expired, Lapsed
  <2>4. nm[j].st = "live" => Alive(j)
    BY <1>2, <1>7, SMTT(30) DEF Alive
  <2>5. QED
    BY <1>2, <1>4, <1>7, <1>9, <2>1, <2>2, <2>3, <2>4, Zenon DEF Fits
<1>11. ASSUME Working(p)
       PROVE  Prepared(mem[p])'
  <2>1. Prepared(m)
    BY <1>2, <1>11, Zenon DEF DbInv, FileInv
  <2>2. ASSUME NEW j \in Ids, Serial!Carried(disk[j], m[j])
        PROVE  Serial!Carried(disk[j], nm[j])
    <3>1. disk[j].bytes \in Nat /\ m[j].bytes \in Nat /\ nm[j].bytes \in Nat
      BY <1>5, <1>6, RecordFacts
    <3>2. QED
      BY <1>7, <2>2, <3>1, SMTT(30) DEF Serial!Carried, Serial!Gone, Serial!Canonical
  <2>3. ASSUME NEW j \in Ids, Serial!Mutated(disk[j], m[j])
        PROVE  Serial!Mutated(disk[j], nm[j])
    BY <1>7, <2>3, Zenon DEF Serial!Mutated, Serial!Gone
  <2>4. ASSUME NEW j \in Ids, nm[j].st # "none"
        PROVE  nm[j].bytes >= disk[j].bytes
    <3>1. disk[j].bytes \in Nat /\ m[j].bytes \in Nat /\ nm[j].bytes \in Nat
      BY <1>5, <1>6, RecordFacts
    <3>2. QED
      BY <1>7, <2>1, <2>4, <3>1, SMTT(30) DEF Prepared
  <2>5. Prepared(nm)
    BY <1>7, <2>1, <2>2, <2>3, <2>4, Zenon DEF Prepared
  <2>6. mem'[p] = nm
    BY <1>4, <1>5
  <2>7. QED
    BY <1>4, <2>5, <2>6, ZenonT(60) DEF Prepared, Serial!Carried, Serial!Mutated, WellFormed
<1>12. ASSUME ~Working(p), NEW j \in Ids
       PROVE  Behind(nm[j], disk[j])
  <2>1. Behind(m[j], disk[j])
    BY <1>2, <1>12, Zenon DEF DbInv, FileInv
  <2>2. QED
    BY <1>7, <2>1, Zenon DEF Behind, TakeDisk, Canonical, Expired
<1>13. FileInv'
  BY <1>4, <1>6, <1>9, <1>10, <1>11, <1>12, MemoryStep, Zenon
<1>14. QED
  BY <1>4, <1>5, <1>6, <1>8, <1>13

LEMMA CrashKeeps ==
  ASSUME DbInv, NEW p \in Procs, CrashAndLoad(p)
  PROVE  mem' \in [Procs -> [Ids -> FileRecord]] /\ FileInv' /\ Growing
<1>1. PICK nm : nm = ReapAll(disk)
  OBVIOUS
<1>2. /\ mem' = [mem EXCEPT ![p] = nm] /\ disk' = disk /\ fileClock' = fileClock /\ used' = used
      /\ txn' = IF txn # NoTxn /\ Host[txn.by] = p THEN NoTxn ELSE txn
  BY <1>1, Zenon DEF CrashAndLoad
<1>3. DbTypeOK /\ mem \in [Procs -> [Ids -> FileRecord]] /\ disk \in [Ids -> FileRecord]
  BY DEF DbInv, DbTypeOK
<1>4. ASSUME NEW i \in Ids
      PROVE  nm[i] \in FileRecord /\ Fits(p, nm[i], i) /\ Behind(nm[i], disk[i])
  <2>1. disk[i] \in FileRecord /\ WellFormed(disk[i])
    BY <1>3 DEF DbInv, FileInv
  <2>2. nm[i] = Kept(disk[i])
    BY <1>1 DEF ReapAll, Kept
  <2>3. StandsFor(nm[i], disk[i])
    BY <1>3, <2>1, <2>2, KeptStands, RecordFacts
  <2>4. QED
    BY <1>2, <2>3, StandingIsHarmless, Zenon DEF Fits, StandsFor
<1>5. nm \in [Ids -> FileRecord]
  <2>1. nm = [i \in Ids |-> nm[i]]
    BY <1>1 DEF ReapAll
  <2>2. QED
    BY <1>4, <2>1
<1>6. mem' \in [Procs -> [Ids -> FileRecord]] /\ mem'[p] = nm
      /\ \A q \in Procs \ {p} : mem'[q] = mem[q]
  BY <1>2, <1>3, <1>5, Zenon
<1>7. Growing
  <2>1. \A i \in Ids : mem[Daemon][i].bytes \in Nat /\ disk[i].bytes \in Nat
    BY <1>3, DbAssumption, RecordFacts
  <2>2. QED
    BY <1>1, <1>2, <1>6, <2>1, DbAssumption, SMTT(30) DEF Growing
<1>8. ~Working(p)' /\ \A q \in Procs \ {p} : /\ Working(q)' <=> Working(q)
                                             /\ Working(q) => txn' = txn
  BY <1>2, Zenon DEF Working
<1>9. FileInv'
  BY <1>2, <1>4, <1>5, <1>8, MemoryStep, Zenon
<1>10. QED
  BY <1>6, <1>7, <1>9, Zenon

LEMMA ClockKeeps ==
  ASSUME DbInv, FileTick
  PROVE  FileInv' /\ fileClock' \in 1..MaxClock /\ Serial!Next
<1>1. /\ fileClock < MaxClock /\ fileClock' = fileClock + 1 /\ disk' = disk /\ mem' = mem
      /\ used' = used /\ txn' = txn
  BY Zenon DEF FileTick
<1>2. fileClock \in Nat /\ fileClock' \in Nat /\ fileClock' \in 1..MaxClock /\ TTL \in Nat
  BY <1>1, DbAssumption, SMTT(30) DEF DbInv, DbTypeOK
<1>3. DbTypeOK /\ mem \in [Procs -> [Ids -> FileRecord]] /\ disk \in [Ids -> FileRecord]
  BY Zenon DEF DbInv, DbTypeOK
<1>4. ASSUME NEW r \in FileRecord
      PROVE  /\ WellFormed(r) => WellFormed(r)'
             /\ Expired(r, fileClock, TTL) => Expired(r, fileClock, TTL)'
  BY <1>1, <1>2, RecordFacts DEF WellFormed, Expired
<1>5. ASSUME NEW r \in FileRecord, NEW d \in FileRecord
      PROVE  /\ Behind(r, d) => Behind(r, d)'
             /\ Serial!Carried(d, r) => Serial!Carried(d, r)'
             /\ Serial!Mutated(d, r) => Serial!Mutated(d, r)'
  <2>1. Behind(r, d) => Behind(r, d)'
    BY <1>4 DEF Behind
  <2>2. Serial!Carried(d, r) => Serial!Carried(d, r)'
    BY <1>4 DEF Serial!Carried, Serial!Expired, Expired
  <2>3. Serial!Mutated(d, r) => Serial!Mutated(d, r)'
    BY <1>1, <1>2, RecordFacts, SMTT(30) DEF Serial!Mutated
  <2>4. QED
    BY <2>1, <2>2, <2>3
<1>6. \A i \in Ids : WellFormed(disk[i])' /\ \A p \in Procs : WellFormed(mem[p][i])'
  <2>1. \A i \in Ids : WellFormed(disk[i]) /\ \A p \in Procs : WellFormed(mem[p][i])
    BY Zenon DEF DbInv, FileInv
  <2>2. QED
    BY <1>1, <1>2, <1>3, <2>1, RecordFacts, SMTT(30) DEF WellFormed
<1>7. \A i \in Ids : Lapsed(i)' => ~Alive(i)'
  BY <1>1, Zenon DEF FileTick, Lapsed, Alive
<1>8. ASSUME NEW p \in Procs
      PROVE  IF Working(p)' THEN Prepared(mem[p])'
             ELSE \A i \in Ids : Behind(mem[p][i], disk[i])'
  <2>1. CASE Working(p)
    <3>1. Prepared(mem[p]) /\ txn \in Transaction
      BY <2>1, Zenon DEF DbInv, FileInv, DbTypeOK, Working
    <3>2. PICK m \in [Ids -> FileRecord], d \in [Ids -> FileRecord], b \in [Ids -> FileRecord] :
            m = mem[p] /\ d = disk /\ b = txn.rollback
      BY <1>3, <3>1, LockFacts, Zenon
    <3>3. \A i \in Ids :
            /\ Serial!Mutated(d[i], m[i])' \/ Serial!Carried(d[i], m[i])'
            /\ Serial!Carried(d[i], b[i])' /\ WellFormed(b[i])'
      BY <1>4, <1>5, <3>1, <3>2, Zenon DEF Prepared
    <3>4. \A i, j \in Ids :
            i = j \/ Serial!Carried(d[i], m[i])' \/ Serial!Carried(d[j], m[j])'
      BY <1>5, <3>1, <3>2, Zenon DEF Prepared
    <3>5. \A i \in Ids : /\ m[i].st # "none" => m[i].bytes >= d[i].bytes
                         /\ b[i].st # "none" => m[i].st # "none"
      BY <3>1, <3>2, Zenon DEF Prepared
    <3>6. disk' = d /\ mem'[p] = m /\ txn'.rollback = b
      BY <1>1, <3>2, Zenon
    <3>7. Prepared(mem[p])'
      BY <3>3, <3>4, <3>5, <3>6, ZenonT(60) DEF Prepared, Serial!Carried, Serial!Mutated, WellFormed
    <3>8. Working(p)'
      BY <1>1, <2>1, Zenon DEF Working
    <3>9. QED
      BY <3>7, <3>8, Zenon
  <2>2. CASE ~Working(p)
    <3>1. ~Working(p)'
      BY <1>1, <2>2, Zenon DEF Working
    <3>2. ASSUME NEW i \in Ids
          PROVE  Behind(mem[p][i], disk[i])'
      <4>1. PICK r \in FileRecord, d \in FileRecord : r = mem[p][i] /\ d = disk[i]
        BY <1>3
      <4>2. Behind(r, d)'
        BY <1>5, <2>2, <4>1, Zenon DEF DbInv, FileInv
      <4>3. QED
        BY <1>1, <4>1, <4>2, Zenon DEF Behind
    <3>3. QED
      BY <3>1, <3>2, Zenon
  <2>3. QED
    BY <2>1, <2>2, Zenon
<1>9. \A p \in Procs, i \in Ids :
         Working(p)' /\ disk'[i].st = "none" /\ mem'[p][i].st # "none" => Unheard(p, i)'
  BY <1>1, Zenon DEF DbInv, FileInv, Working, Unheard
<1>10. \A i \in Ids \ used' :
         disk'[i].st = "none" /\ \A p \in Procs : mem'[p][i].st = "none"
  BY <1>1, Zenon DEF DbInv, FileInv
<1>11. FileInv'
  BY <1>6, <1>7, <1>8, <1>9, <1>10, Zenon DEF FileInv
<1>12. Serial!Next
  BY <1>1 DEF Serial!Next, Serial!Tick
<1>13. QED
  BY <1>2, <1>11, <1>12

(* A step that leaves files, memories, clock and issued ids alone, and the *)
(* lock too unless it was about to be released                             *)
LEMMA QuietKeeps ==
  ASSUME DbInv, disk' = disk, mem' = mem, fileClock' = fileClock, used' = used,
         txn' = txn \/ (txn' = NoTxn /\ txn.step = "finish")
  PROVE  FileInv' /\ Growing
<1>1. \A p \in Procs : (Working(p)' <=> Working(p)) /\ (Working(p) => txn' = txn)
  BY Zenon DEF Working
<1>2. Growing
  BY DbAssumption, RecordFacts, SMTT(30) DEF Growing, DbInv, DbTypeOK
<1>3. ASSUME NEW p \in Procs
      PROVE  IF Working(p)' THEN Prepared(mem[p])'
             ELSE \A i \in Ids : Behind(mem[p][i], disk[i])'
  <2>1. CASE Working(p)
    <3>1. Prepared(mem[p]) /\ txn' = txn /\ Working(p)'
      BY <1>1, <2>1, Zenon DEF DbInv, FileInv
    <3>2. QED
      BY <3>1, ZenonT(60) DEF Prepared, Serial!Mutated, Serial!Carried, WellFormed
  <2>2. CASE ~Working(p)
    BY <1>1, <2>2, Zenon DEF DbInv, FileInv, Behind
  <2>3. QED
    BY <2>1, <2>2, Zenon
<1>4. \A i \in Ids : WellFormed(disk[i])' /\ \A p \in Procs : WellFormed(mem[p][i])'
  BY Zenon DEF DbInv, FileInv, WellFormed
<1>5. \A i \in Ids : Lapsed(i)' => ~Alive(i)'
  BY Zenon DEF DbInv, FileInv, Lapsed, Alive
<1>6. \A p \in Procs, i \in Ids :
         Working(p)' /\ disk'[i].st = "none" /\ mem'[p][i].st # "none" => Unheard(p, i)'
  BY <1>1, Zenon DEF DbInv, FileInv, Unheard
<1>7. \A i \in Ids \ used' :
         disk'[i].st = "none" /\ \A p \in Procs : mem'[p][i].st = "none"
  BY Zenon DEF DbInv, FileInv
<1>8. QED
  BY <1>2, <1>3, <1>4, <1>5, <1>6, <1>7, Zenon DEF FileInv

-----------------------------------------------------------------------------
(* Every step *)

LEMMA FileStart == DbInit => DbInv /\ Serial!Init
<1> SUFFICES ASSUME DbInit
             PROVE  DbInv /\ Serial!Init
  OBVIOUS
<1>1. DbTypeOK
  BY DbAssumption, RecordFacts, SMTT(30) DEF DbInit, DbTypeOK, Poll, NoPoll, Empty
<1>2. FileInv
  <2>1. \A i \in Ids : disk[i] = NoRecord /\ \A p \in Procs : mem[p][i] = NoRecord
    BY Zenon DEF DbInit
  <2>2. WellFormed(NoRecord) /\ Behind(NoRecord, NoRecord) /\ NoRecord.st = "none"
    BY RecordFacts DEF DbInit, WellFormed, Behind
  <2>3. \A p \in Procs : ~Working(p)
    BY Zenon DEF DbInit, Working
  <2>4. \A i \in Ids : ~Alive(i)
    BY <2>1, <2>2, Zenon DEF Alive
  <2>5. QED
    BY <2>1, <2>2, <2>3, <2>4, Zenon DEF FileInv
<1>3. Serial!Init
  BY RecordFacts DEF DbInit, Serial!Init, Serial!Gone
<1>4. QED
  BY <1>1, <1>2, <1>3 DEF DbInv

(* The rest of the state in a step that changes a memory *)
Elsewhere ==
  UNCHANGED <<fileClock, disk, mtime, last, poll, lookup, cache>>

(* What every step keeps and does *)
FileStep ==
  /\ DbTypeOK' /\ FileInv' /\ Growing
  /\ [Serial!Next]_<<disk, fileClock>>

LEMMA NewTransaction ==
  ASSUME NEW w \in Writers, NEW b \in [Ids -> FileRecord], NEW x \in BOOLEAN
  PROVE  LET t == [by |-> w, step |-> "write", rollback |-> b, admin |-> x]
         IN  t \in Transaction /\ t.by = w /\ t.step = "write" /\ t.rollback = b
BY Zenon DEF Transaction

LEMMA BeginSteps ==
  ASSUME DbInv, ~Pool, NEW w \in Writers, NEW i \in Ids, BeginMutation(w, i)
  PROVE  FileStep
<1>1. PICK p \in Procs : p = Host[w]
  BY LockFacts, Zenon
<1>2. PICK base : base = Absorb(mem[p], disk)
  OBVIOUS
<1>3. txn = NoTxn /\ Elsewhere
  BY Zenon DEF BeginMutation, Elsewhere
<1>4. base \in [Ids -> FileRecord]
  BY <1>2, <1>3, AbsorbAll, Zenon DEF Working
<1>5. CASE \E r \in Mutations(w, base[i], i) :
             /\ mem' = [mem EXCEPT ![p] = [base EXCEPT ![i] = r]]
             /\ txn' = [by |-> w, step |-> "write", rollback |-> base, admin |-> TRUE]
             /\ used' = used \union {i} /\ toClear' = toClear
  <2>1. PICK r \in Mutations(w, base[i], i) :
             /\ mem' = [mem EXCEPT ![p] = [base EXCEPT ![i] = r]]
             /\ txn' = [by |-> w, step |-> "write", rollback |-> base, admin |-> TRUE]
             /\ used' = used \union {i} /\ toClear' = toClear
    BY <1>5, Zenon
  <2>2. txn' \in Transaction /\ txn'.by = w /\ txn'.step = "write" /\ txn'.rollback = base
    BY <1>4, <2>1, NewTransaction, Zenon
  <2>3. mem' \in [Procs -> [Ids -> FileRecord]] /\ FileInv' /\ Growing
    BY <1>1, <1>2, <1>3, <2>1, <2>2, MutateStep, Zenon DEF Elsewhere
  <2>4. DbTypeOK'
    BY <1>3, <2>1, <2>2, <2>3, Zenon DEF DbInv, DbTypeOK, Elsewhere
  <2>5. QED
    BY <1>3, <2>3, <2>4 DEF FileStep, Elsewhere
<1>6. CASE /\ mem' = [mem EXCEPT ![p] = base] /\ txn' = txn /\ used' = used
           /\ MayClear(w)
  <2>1. mem' \in [Procs -> [Ids -> FileRecord]] /\ FileInv' /\ Growing
    BY <1>2, <1>3, <1>6, AbsorbStep, Zenon DEF Elsewhere
  <2>2. DbTypeOK'
    BY <1>3, <1>6, <2>1, ZenonT(60) DEF DbInv, DbTypeOK, Elsewhere, MayClear
  <2>3. QED
    BY <1>3, <2>1, <2>2 DEF FileStep, Elsewhere
<1>7. QED
  BY <1>1, <1>2, <1>5, <1>6, Zenon DEF BeginMutation

LEMMA FlushSteps ==
  ASSUME DbInv, NEW w \in Writers, BeginFlush(w)
  PROVE  FileStep
<1>1. PICK p \in Procs : p = Host[w]
  BY LockFacts
<1>2. PICK base : base = Absorb(mem[p], disk)
  OBVIOUS
<1>3. /\ txn = NoTxn /\ Elsewhere /\ used' = used /\ toClear' = toClear
      /\ mem' = [mem EXCEPT ![p] = base]
      /\ txn' = [by |-> w, step |-> "write", rollback |-> base, admin |-> FALSE]
  BY <1>1, <1>2, Zenon DEF BeginFlush, Elsewhere
<1>4. base \in [Ids -> FileRecord]
  BY <1>2, <1>3, AbsorbAll, Zenon DEF Working
<1>5. txn' \in Transaction /\ Host[txn'.by] = p /\ txn'.rollback = base
  BY <1>1, <1>3, <1>4, NewTransaction, Zenon
<1>6. mem' \in [Procs -> [Ids -> FileRecord]] /\ FileInv' /\ Growing
  BY <1>2, <1>3, <1>5, AbsorbStep, Zenon DEF Elsewhere
<1>7. DbTypeOK'
  BY <1>3, <1>5, <1>6, Zenon DEF DbInv, DbTypeOK, Elsewhere
<1>8. QED
  BY <1>3, <1>6, <1>7, Zenon DEF FileStep, Elsewhere

LEMMA ProceedSteps ==
  ASSUME DbInv, NEW w \in Writers, Proceeds(w)
  PROVE  FileStep
<1>1. CASE WriteSnapshot(w)
  <2>1. FileInv' /\ Growing /\ disk' \in [Ids -> FileRecord] /\ [Serial!Next]_<<disk, fileClock>>
    BY <1>1, WriteKeeps
  <2>2. txn' \in Transaction
    BY <1>1, WriteFacts DEF WriteSnapshot, Transaction
  <2>3. mtime' \in 0..MaxMtime
    <3>1. mtime \in 0..MaxMtime /\ MaxMtime \in Nat
      BY DbAssumption, Zenon DEF DbInv, DbTypeOK
    <3>2. mtime' \in {mtime, mtime + 1} /\ (mtime' = mtime \/ mtime' <= MaxMtime)
      BY <1>1 DEF WriteSnapshot
    <3>3. QED
      BY <3>1, <3>2
  <2>4. DbTypeOK'
    BY <1>1, <2>1, <2>2, <2>3 DEF DbInv, DbTypeOK, WriteSnapshot
  <2>5. QED
    BY <2>1, <2>4 DEF FileStep
<1>2. CASE WriteFails(w)
  <2>1. mem' \in [Procs -> [Ids -> FileRecord]] /\ FileInv' /\ Growing
    BY <1>2, FailKeeps
  <2>2. toClear' \subseteq Writers
    BY <1>2, Zenon DEF WriteFails, MayClear, DbInv, DbTypeOK
  <2>3. DbTypeOK' /\ disk' = disk /\ fileClock' = fileClock
    BY <1>2, <2>1, <2>2, Zenon DEF WriteFails, DbInv, DbTypeOK
  <2>4. QED
    BY <2>1, <2>3 DEF FileStep
<1>3. CASE FinishMutation(w)
  <2>1. FileInv' /\ Growing
    BY <1>3, QuietKeeps, Zenon DEF FinishMutation
  <2>2. DbTypeOK' /\ disk' = disk /\ fileClock' = fileClock
    BY <1>3, Zenon DEF FinishMutation, DbInv, DbTypeOK
  <2>3. QED
    BY <2>1, <2>2 DEF FileStep
<1>4. CASE ClearAfterMutation(w)
  <2>1. FileInv' /\ Growing
    BY <1>4, QuietKeeps DEF ClearAfterMutation
  <2>2. DbTypeOK' /\ disk' = disk /\ fileClock' = fileClock
    BY <1>4, Zenon DEF ClearAfterMutation, DbInv, DbTypeOK, Empty
  <2>3. QED
    BY <2>1, <2>2 DEF FileStep
<1>5. QED
  BY <1>1, <1>2, <1>3, <1>4 DEF Proceeds

LEMMA PollFacts ==
  /\ NoPoll \in Poll /\ [at |-> "clear"] \in Poll
  /\ \A v \in 0..MaxMtime, x \in BOOLEAN :
       /\ [at |-> "absorb", seen |-> v] \in Poll
       /\ [at |-> "remember", seen |-> v, changed |-> x] \in Poll
  /\ \A q \in Poll :
       /\ q.at \in {"absorb", "remember"} => q.seen \in 0..MaxMtime
       /\ q.at = "remember" => q.changed \in BOOLEAN
<1> DEFINE M == 0..MaxMtime
<1>1. Poll = [at : {"absorb"}, seen : M]
          \union [at : {"remember"}, seen : M, changed : BOOLEAN]
          \union {NoPoll, [at |-> "clear"]}
  BY SMTT(30) DEF Poll
<1> HIDE DEF M
<1>2. QED
  BY <1>1, SMTT(30) DEF NoPoll, M

LEMMA PollSteps ==
  ASSUME DbInv, PollStat \/ PollAbsorb \/ PollRemember \/ PollClear
  PROVE  FileStep
<1>1. poll \in Poll /\ mtime \in 0..MaxMtime /\ Daemon \in Procs
  BY DbAssumption DEF DbInv, DbTypeOK
<1>2. CASE PollStat
  <2>1. FileInv' /\ Growing
    BY <1>2, QuietKeeps, Zenon DEF PollStat
  <2>2. poll' \in Poll
    BY <1>1, <1>2, PollFacts, Zenon DEF PollStat
  <2>3. DbTypeOK' /\ disk' = disk /\ fileClock' = fileClock
    BY <1>2, <2>2, Zenon DEF PollStat, DbInv, DbTypeOK
  <2>4. QED
    BY <2>1, <2>3 DEF FileStep
<1>3. CASE PollAbsorb
  <2>1. mem' \in [Procs -> [Ids -> FileRecord]] /\ FileInv' /\ Growing
    BY <1>1, <1>3, AbsorbStep, Zenon DEF PollAbsorb
  <2>2. poll' \in Poll
    <3>1. poll.seen \in 0..MaxMtime
      BY <1>1, <1>3, PollFacts, Zenon DEF PollAbsorb
    <3>2. PICK x \in BOOLEAN : poll' = [at |-> "remember", seen |-> poll.seen, changed |-> x]
      BY <1>3, Zenon DEF PollAbsorb, SameConfig
    <3>3. QED
      BY <3>1, <3>2, PollFacts, Zenon
  <2>3. DbTypeOK' /\ disk' = disk /\ fileClock' = fileClock
    BY <1>3, <2>1, <2>2, Zenon DEF PollAbsorb, DbInv, DbTypeOK
  <2>4. QED
    BY <2>1, <2>3 DEF FileStep
<1>4. CASE PollRemember
  <2>1. FileInv' /\ Growing
    BY <1>4, QuietKeeps, Zenon DEF PollRemember
  <2>2. poll' \in Poll /\ poll.seen \in 0..MaxMtime
    BY <1>1, <1>4, PollFacts, Zenon DEF PollRemember
  <2>3. DbTypeOK' /\ disk' = disk /\ fileClock' = fileClock
    BY <1>4, <2>2, Zenon DEF PollRemember, DbInv, DbTypeOK
  <2>4. QED
    BY <2>1, <2>3 DEF FileStep
<1>5. CASE PollClear
  <2>1. FileInv' /\ Growing
    BY <1>5, QuietKeeps, SMTT(30) DEF PollClear
  <2>2. DbTypeOK' /\ disk' = disk /\ fileClock' = fileClock
    BY <1>5, PollFacts, Zenon DEF PollClear, DbInv, DbTypeOK, Empty
  <2>3. QED
    BY <2>1, <2>2 DEF FileStep
<1>6. QED
  BY <1>2, <1>3, <1>4, <1>5

LEMMA ResolveSteps ==
  ASSUME DbInv, (\E i \in Ids : ResolveRead(i)) \/ ResolveInsert
  PROVE  FileStep
<1>1. CASE \E i \in Ids : ResolveRead(i)
  <2>1. PICK i \in Ids : ResolveRead(i)
    BY <1>1
  <2>2. FileInv' /\ Growing
    BY <2>1, QuietKeeps, Zenon DEF ResolveRead
  <2>3. mem[Daemon][i].val \in Vals \union {0}
    BY DbAssumption, SMTT(30) DEF DbInv, DbTypeOK, FileRecord
  <2>4. lookup' \in [id : Ids, val : Vals \union {0}]
    BY <2>1, <2>3, Zenon DEF ResolveRead
  <2>5. DbTypeOK' /\ disk' = disk /\ fileClock' = fileClock
    BY <2>1, <2>4, Zenon DEF ResolveRead, DbInv, DbTypeOK
  <2>6. QED
    BY <2>2, <2>5 DEF FileStep
<1>2. CASE ResolveInsert
  <2>1. FileInv' /\ Growing
    BY <1>2, QuietKeeps, Zenon DEF ResolveInsert
  <2>2. lookup.id \in Ids /\ lookup.val \in Vals \union {0}
    BY <1>2, Zenon DEF ResolveInsert, DbInv, DbTypeOK
  <2>3. DbTypeOK' /\ disk' = disk /\ fileClock' = fileClock
    BY <1>2, <2>2, Zenon DEF ResolveInsert, DbInv, DbTypeOK
  <2>4. QED
    BY <2>1, <2>3 DEF FileStep
<1>3. QED
  BY <1>1, <1>2

LEMMA OtherSteps ==
  ASSUME DbInv, \/ FileTick \/ (\E i \in Ids : RecordTraffic(i))
                \/ (\E p \in Procs : CrashAndLoad(p)) \/ UNCHANGED dbVars
  PROVE  FileStep
<1>1. CASE FileTick
  <2>1. FileInv' /\ fileClock' \in 1..MaxClock /\ Serial!Next
    BY <1>1, ClockKeeps
  <2>2. Growing
    BY <1>1, DbAssumption, RecordFacts, SMTT(30) DEF Growing, FileTick, DbInv, DbTypeOK
  <2>3. DbTypeOK'
    BY <1>1, <2>1, Zenon DEF FileTick, DbInv, DbTypeOK
  <2>4. QED
    BY <2>1, <2>2, <2>3 DEF FileStep
<1>2. CASE \E i \in Ids : RecordTraffic(i)
  <2>1. PICK i \in Ids : RecordTraffic(i)
    BY <1>2
  <2>2. mem' \in [Procs -> [Ids -> FileRecord]] /\ FileInv' /\ Growing
    BY <2>1, TrafficKeeps
  <2>3. DbTypeOK' /\ disk' = disk /\ fileClock' = fileClock
    BY <2>1, <2>2 DEF RecordTraffic, DbInv, DbTypeOK
  <2>4. QED
    BY <2>2, <2>3 DEF FileStep
<1>3. CASE \E p \in Procs : CrashAndLoad(p)
  <2>1. PICK p \in Procs : CrashAndLoad(p)
    BY <1>3
  <2>2. mem' \in [Procs -> [Ids -> FileRecord]] /\ FileInv' /\ Growing
    BY <2>1, CrashKeeps
  <2>3. /\ last' \in [Procs -> 0..MaxMtime] /\ toClear' \subseteq Writers
        /\ poll' \in Poll /\ (lookup' = NoLookup \/ lookup' \in [id : Ids, val : Vals \union {0}])
        /\ cache' \in [Ids -> SUBSET (Vals \union {0})]
    BY <2>1, PollFacts, Zenon DEF CrashAndLoad, DbInv, DbTypeOK, Empty
  <2>4. DbTypeOK' /\ disk' = disk /\ fileClock' = fileClock
    BY <2>1, <2>2, <2>3, Zenon DEF CrashAndLoad, DbInv, DbTypeOK
  <2>5. QED
    BY <2>2, <2>4 DEF FileStep
<1>4. CASE UNCHANGED dbVars
  <2>1. FileInv' /\ Growing
    BY <1>4, QuietKeeps, Zenon DEF dbVars
  <2>2. QED
    BY <1>4, <2>1, Zenon DEF FileStep, dbVars, DbInv, DbTypeOK
<1>5. QED
  BY <1>1, <1>2, <1>3, <1>4

LEMMA FileSteps == DbInv /\ ~Pool /\ [DbNext]_dbVars => FileStep
BY BeginSteps, FlushSteps, ProceedSteps, PollSteps, ResolveSteps, OtherSteps DEF DbNext

(* A copy that is behind the file shows an entry of the file, or a removed one. *)
LEMMA BehindShows ==
  ASSUME NEW m, NEW d, m.at \in Nat, d.at \in Nat, m.st # "none", Behind(m, d)
  PROVE  \/ d.st # "none" /\ m.at <= d.at
         \/ m.st = "dead"
BY DEF Behind, TakeDisk, Canonical, Expired

LEMMA NoGhost == DbInv => NoGhostMutation
<1> SUFFICES ASSUME DbInv, NEW p \in Procs, NEW i \in Ids, txn = NoTxn \/ Host[txn.by] # p,
                    mem[p][i].st # "none"
             PROVE  \/ disk[i].st # "none" /\ mem[p][i].at <= disk[i].at
                    \/ mem[p][i].st = "dead"
  BY Zenon DEF NoGhostMutation
<1>1. Behind(mem[p][i], disk[i])
  BY Zenon DEF DbInv, FileInv, Working
<1>2. mem[p][i].at \in Nat /\ disk[i].at \in Nat
  BY RecordFacts, ZenonT(60) DEF DbInv, DbTypeOK
<1>3. QED
  BY <1>1, <1>2, BehindShows, Zenon

(* The client file of a node that is in no pool behaves as one database    *)
(* changed by one mutation at a time (SerialDb), whatever processes share  *)
(* it, at whatever step they crash, whichever writes fail and however old  *)
(* the copy in a memory is; outside a transaction no memory is ahead of    *)
(* the file, and traffic counters do not run backwards (with_mutation,     *)
(* absorb_disk_locked, restore_preserving_traffic).                        *)
THEOREM FileIsSerial ==
  ASSUME ~Pool
  PROVE  DbSpec => FileSerial
<1>1. DbInv /\ [DbNext]_dbVars => DbInv'
  BY FileSteps DEF FileStep, DbInv
<1>2. DbSpec => []DbInv
  BY <1>1, FileStart, PTL DEF DbSpec
<1>3. DbInv => DbTypeOK /\ NoGhostMutation
  BY NoGhost DEF DbInv
<1>4. DbInv /\ [DbNext]_dbVars =>
        [\A i \in Ids :
           /\ disk'[i].st # "none" => disk'[i].bytes >= disk[i].bytes
           /\ mem'[Daemon][i].st # "none" =>
                \/ mem'[Daemon][i].bytes >= mem[Daemon][i].bytes
                \/ mem'[Daemon] = ReapAll(disk)]_dbVars
  BY FileSteps, Zenon DEF FileStep, Growing
<1>5. DbInv /\ [DbNext]_dbVars => [Serial!Next]_<<disk, fileClock>>
  BY FileSteps DEF FileStep
<1>6. DbSpec => CountersOnlyGrow
  BY <1>2, <1>4, PTL DEF DbSpec, CountersOnlyGrow
<1>7. DbSpec => SerialSpec
  BY <1>2, <1>5, FileStart, PTL DEF DbSpec, SerialSpec, Serial!Spec
<1>8. QED
  BY <1>2, <1>3, <1>6, <1>7, PTL DEF FileSerial

-----------------------------------------------------------------------------
(* Settings with rollback *)

(* The files are functions on the paths and every entry is about a path; the
   rest of the state does not matter to the rollback. *)
FilesOK ==
  /\ file \in [Paths -> Content] /\ committed \in [Paths -> Content]
  /\ \A e \in pending : e.path \in Paths

RollbackInv == FilesOK /\ RollbackRestores

stays == <<file, pending, committed>>

LEMMA ConfigInitHolds == ConfigInit => RollbackInv
BY Zenon DEF ConfigInit, RollbackInv, FilesOK, RollbackRestores, Content, has_pending_for_path

(* A step that leaves the files and the entries alone keeps the invariant. *)
LEMMA StutterHolds == RollbackInv /\ UNCHANGED stays => RollbackInv'
BY ZenonT(60) DEF RollbackInv, FilesOK, RollbackRestores, Content, has_pending_for_path, stays

(* begin_locked carries the prior content of a replaced entry over: the new
   entry is the only one of its file and leads back to what was confirmed. *)
LEMMA ApplyHolds ==
  ASSUME NEW p \in Paths, NEW v \in Values, RollbackInv, apply_heavy(p, v)
  PROVE  RollbackInv'
<1> DEFINE same == {q \in pending : q.path = p}
           old == IF same = {} THEN file[p] ELSE (CHOOSE q \in same : TRUE).prior
           new == [token |-> tokens + 1, path |-> p, prior |-> old, expires |-> now + Timeout]
<1>1. /\ file' = [file EXCEPT ![p] = v] /\ committed' = committed
      /\ pending' = (pending \ same) \union {new}
  BY DEF apply_heavy, begin_locked
<1>2. old = committed[p]
  <2>1. CASE same = {}
    BY <2>1, Zenon DEF RollbackInv, RollbackRestores, has_pending_for_path
  <2>2. CASE same # {}
    <3>1. (CHOOSE q \in same : TRUE) \in same
      BY <2>2
    <3>2. QED
      BY <2>2, <3>1, Zenon DEF RollbackInv, RollbackRestores
  <2>3. QED
    BY <2>1, <2>2, Zenon
<1>3. new.path = p /\ new.prior = old
  BY Zenon
<1> HIDE DEF old, new
<1>4. FilesOK'
  BY <1>1, <1>3, Zenon DEF RollbackInv, FilesOK, Content
<1>5. \A e \in pending' : e.prior = committed'[e.path]
  BY <1>1, <1>2, <1>3, Zenon DEF RollbackInv, RollbackRestores
<1>6. \A e, f \in pending' : e.path = f.path => e = f
  BY <1>1, <1>3, ZenonT(60) DEF RollbackInv, RollbackRestores
<1>7. \A q \in Paths : file'[q] # committed'[q] => \E e \in pending' : e.path = q
  <2> SUFFICES ASSUME NEW q \in Paths, file'[q] # committed'[q]
               PROVE  \E e \in pending' : e.path = q
    BY Zenon
  <2>1. CASE q = p
    BY <2>1, <1>1, <1>3
  <2>2. CASE q # p
    BY <2>2, <1>1 DEF RollbackInv, FilesOK, RollbackRestores, has_pending_for_path
  <2>3. QED
    BY <2>1, <2>2, ZenonT(60)
<1>8. QED
  BY <1>4, <1>5, <1>6, <1>7, Zenon DEF RollbackInv, RollbackRestores, has_pending_for_path

(* confirm_and_take makes the content of the entry's file the confirmed one and
   drops that entry only. *)
LEMMA ConfirmHolds ==
  ASSUME NEW t, RollbackInv, confirm_and_take(t)
  PROVE  RollbackInv'
<1> DEFINE C == Confirmable(t)
<1>1. /\ file' = file /\ pending' = pending \ C
      /\ committed' = [p \in Paths |-> IF \E e \in C : e.path = p THEN file[p] ELSE committed[p]]
  BY Zenon DEF confirm_and_take
<1>2. C \subseteq pending
  BY DEF Confirmable
<1> HIDE DEF C
<1>3. FilesOK'
  BY <1>1, <1>2 DEF RollbackInv, FilesOK
<1>4. \A e \in pending' : e.prior = committed'[e.path]
  <2> SUFFICES ASSUME NEW e \in pending' PROVE e.prior = committed'[e.path]
    BY Zenon
  <2>1. e \in pending /\ e \notin C /\ e.path \in Paths
    BY <1>1 DEF RollbackInv, FilesOK
  <2>2. ~ \E f \in C : f.path = e.path
    BY <1>2, <2>1, Zenon DEF RollbackInv, RollbackRestores
  <2>3. QED
    BY <1>1, <2>1, <2>2, Zenon DEF RollbackInv, RollbackRestores
<1>5. \A e, f \in pending' : e.path = f.path => e = f
  BY <1>1, Zenon DEF RollbackInv, RollbackRestores
<1>6. \A q \in Paths : file'[q] # committed'[q] => \E e \in pending' : e.path = q
  <2> SUFFICES ASSUME NEW q \in Paths, file'[q] # committed'[q]
               PROVE  \E e \in pending' : e.path = q
    BY Zenon
  <2>1. (~ \E e \in C : e.path = q) /\ file[q] # committed[q]
    BY <1>1, Zenon
  <2>2. PICK e \in pending : e.path = q
    BY <2>1, Zenon DEF RollbackInv, RollbackRestores, has_pending_for_path
  <2>3. QED
    BY <1>1, <2>1, <2>2, Zenon
<1>7. QED
  BY <1>3, <1>4, <1>5, <1>6, Zenon DEF RollbackInv, RollbackRestores, has_pending_for_path

(* A direct write is only done to a file without an entry. *)
LEMMA DirectHolds ==
  ASSUME NEW p \in Paths, NEW v \in Values, RollbackInv, write_direct_file(p, v)
  PROVE  RollbackInv'
<1>1. /\ file' = [file EXCEPT ![p] = v] /\ committed' = [committed EXCEPT ![p] = v]
      /\ pending' = pending /\ \A e \in pending : e.path # p
  BY DEF write_direct_file, has_pending_for_path
<1>2. QED
  BY <1>1, ZenonT(60) DEF RollbackInv, FilesOK, RollbackRestores, has_pending_for_path, Content

(* rollback_expired writes the prior content of the entries it drops, which is
   the confirmed one; entries that failed stay. *)
LEMMA RollbackHolds ==
  ASSUME NEW failed, RollbackInv, rollback_expired(failed)
  PROVE  RollbackInv'
<1> DEFINE D == Overdue \ failed
<1>1. /\ file' = [p \in Paths |-> IF \E e \in D : e.path = p
                                  THEN (CHOOSE e \in D : e.path = p).prior ELSE file[p]]
      /\ pending' = pending \ D /\ committed' = committed
  BY DEF rollback_expired
<1>2. D \subseteq pending
  BY DEF Overdue
<1> HIDE DEF D
<1>3. ASSUME NEW p \in Paths, \E e \in D : e.path = p
      PROVE  file'[p] = committed[p]
  <2>1. (CHOOSE e \in D : e.path = p) \in D /\ (CHOOSE e \in D : e.path = p).path = p
    BY <1>3
  <2>2. QED
    BY <1>1, <1>2, <1>3, <2>1, ZenonT(60) DEF RollbackInv, RollbackRestores
<1>4. ASSUME NEW p \in Paths, ~ \E e \in D : e.path = p
      PROVE  file'[p] = file[p]
  BY <1>1, <1>4, Zenon
<1>5. \A p \in Paths : file'[p] \in Content
  BY <1>3, <1>4, Zenon DEF RollbackInv, FilesOK
<1>6. FilesOK'
  BY <1>1, <1>5, Zenon DEF RollbackInv, FilesOK
<1>7. \A q \in Paths : file'[q] # committed'[q] => \E e \in pending' : e.path = q
  <2> SUFFICES ASSUME NEW q \in Paths, file'[q] # committed'[q]
               PROVE  \E e \in pending' : e.path = q
    OBVIOUS
  <2>1. ~ \E e \in D : e.path = q
    BY <1>1, <1>3, Zenon
  <2>2. file[q] # committed[q]
    BY <1>1, <1>4, <2>1, ZenonT(60)
  <2>3. PICK e \in pending : e.path = q
    BY <2>2, Zenon DEF RollbackInv, RollbackRestores, has_pending_for_path
  <2>4. QED
    BY <1>1, <2>1, <2>3, Zenon
<1>8. QED
  BY <1>1, <1>6, <1>7, Zenon DEF RollbackInv, RollbackRestores, has_pending_for_path

LEMMA ConfigNextHolds == RollbackInv /\ [ConfigNext]_configVars => RollbackInv'
<1> SUFFICES ASSUME RollbackInv, [ConfigNext]_configVars PROVE RollbackInv'
  OBVIOUS
<1>1. CASE UNCHANGED configVars
  BY <1>1, StutterHolds DEF configVars, stays
<1>2. ASSUME NEW r \in Requests, NEW p \in Paths, NEW v \in Values, RestApply(r, p, v)
      PROVE  RollbackInv'
  BY <1>2, ApplyHolds, Zenon DEF RestApply
<1>3. ASSUME NEW r \in Requests, NEW t \in 1..tokens, RestConfirm(r, t)
      PROVE  RollbackInv'
  BY <1>3, ConfirmHolds DEF RestConfirm
<1>4. ASSUME NEW r \in Requests, TunnelDispatch(r)
      PROVE  RollbackInv'
  <2>1. CASE confirm_and_take(req[r].token)
    BY <2>1, ConfirmHolds
  <2>2. CASE \E p \in Paths, v \in Values : apply_heavy(p, v)
    BY <2>2, ApplyHolds
  <2>3. CASE UNCHANGED <<file, pending, tokens, committed>>
    BY <2>3, StutterHolds DEF stays
  <2>4. QED
    BY <1>4, <2>1, <2>2, <2>3 DEF TunnelDispatch
<1>5. ASSUME NEW r \in Requests,
             \/ \E t \in 0..tokens : TunnelStart(r, t)
             \/ TunnelAfter(r) \/ ReadExit(r) \/ SwapExit(r)
      PROVE  RollbackInv'
  BY <1>5, StutterHolds, Zenon DEF TunnelStart, TunnelAfter, ReadExit, SwapExit, stays
<1>6. ASSUME NEW p \in Paths, NEW v \in Values, write_direct_file(p, v)
      PROVE  RollbackInv'
  BY <1>6, DirectHolds
<1>7. CASE Sweep
  BY <1>7, RollbackHolds, StutterHolds DEF Sweep, SweepRead, SweepSwap, stays
<1>8. CASE ConfigTick
  BY <1>8, StutterHolds DEF ConfigTick, stays
<1>9. CASE Restart
  BY <1>9, Zenon DEF Restart, RollbackInv, FilesOK, RollbackRestores
<1>10. QED
  BY <1>1, <1>2, <1>3, <1>4, <1>5, <1>6, <1>7, <1>8, <1>9, ZenonT(60) DEF ConfigNext, Continue

-----------------------------------------------------------------------------
(* Types *)

LEMMA Tasks ==
  /\ NoTask \in Task
  /\ \A t \in Task, a \in {"idle", "dispatch", "after", "read", "swap"} :
       [t EXCEPT !.at = a] \in Task
  /\ \A t \in Task, v \in Content : [t EXCEPT !.at = "swap", !.val = v] \in Task
<1>1. NoTask \in Task
  BY ConfigAssumption DEF Task, NoTask, Content
<1>2. ASSUME NEW t \in Task, NEW a \in {"idle", "dispatch", "after", "read", "swap"}
      PROVE  [t EXCEPT !.at = a] \in Task
  BY DEF Task
<1>3. ASSUME NEW t \in Task, NEW v \in Content
      PROVE  [t EXCEPT !.at = "swap", !.val = v] \in Task
  BY Zenon DEF Task
<1>4. QED
  BY <1>1, <1>2, <1>3, Zenon

LEMMA InitTyped == ConfigInit => PendingTypeOK
<1> SUFFICES ASSUME ConfigInit PROVE PendingTypeOK
  OBVIOUS
<1>1. file \in [Paths -> Content] /\ committed \in [Paths -> Content]
  BY DEF ConfigInit, Content
<1>2. live \in Content
  BY <1>1, ConfigAssumption, Zenon DEF ConfigInit
<1>3. req \in [Requests -> Task] /\ sweep \in Task
  BY Tasks, Zenon DEF ConfigInit
<1>4. pending = {} /\ tokens \in 0..MaxTokens /\ now \in 0..MaxTime
  BY ConfigAssumption DEF ConfigInit
<1>5. QED
  BY <1>1, <1>2, <1>3, <1>4 DEF PendingTypeOK

LEMMA ApplyTyped ==
  ASSUME NEW p \in Paths, NEW v \in Values, PendingTypeOK, apply_heavy(p, v)
  PROVE  /\ file' \in [Paths -> Content] /\ committed' \in [Paths -> Content]
         /\ pending' \in SUBSET PendingEntry /\ tokens' \in 0..MaxTokens
<1> DEFINE same == {q \in pending : q.path = p}
           old == IF same = {} THEN file[p] ELSE (CHOOSE q \in same : TRUE).prior
           new == [token |-> tokens + 1, path |-> p, prior |-> old, expires |-> now + Timeout]
<1>1. /\ file' = [file EXCEPT ![p] = v] /\ committed' = committed
      /\ pending' = (pending \ same) \union {new}
      /\ tokens' = tokens + 1 /\ tokens < MaxTokens /\ now + Timeout <= MaxTime
  BY DEF apply_heavy, begin_locked
<1>2. old \in Content
  <2>1. CASE same = {}
    BY <2>1, Zenon DEF PendingTypeOK
  <2>2. CASE same # {}
    <3>1. (CHOOSE q \in same : TRUE) \in PendingEntry
      BY <2>2 DEF PendingTypeOK
    <3>2. QED
      BY <2>2, <3>1, Zenon DEF PendingEntry
  <2>3. QED
    BY <2>1, <2>2, Zenon
<1> HIDE DEF old
<1>3. new \in PendingEntry /\ tokens' \in 0..MaxTokens
  BY <1>1, <1>2, ConfigAssumption DEF PendingTypeOK, PendingEntry
<1> HIDE DEF new, same
<1>4. QED
  BY <1>1, <1>3, Zenon DEF PendingTypeOK, Content

LEMMA ConfirmTyped ==
  ASSUME NEW t, PendingTypeOK, confirm_and_take(t)
  PROVE  /\ file' \in [Paths -> Content] /\ committed' \in [Paths -> Content]
         /\ pending' \in SUBSET PendingEntry /\ tokens' \in 0..MaxTokens
BY Zenon DEF confirm_and_take, PendingTypeOK

LEMMA RollbackTyped ==
  ASSUME NEW failed, PendingTypeOK, rollback_expired(failed)
  PROVE  PendingTypeOK'
<1> DEFINE D == Overdue \ failed
<1>1. /\ file' = [p \in Paths |-> IF \E e \in D : e.path = p
                                  THEN (CHOOSE e \in D : e.path = p).prior ELSE file[p]]
      /\ pending' = pending \ D
      /\ sweep' = IF D = {} THEN NoTask ELSE [NoTask EXCEPT !.at = "read"]
      /\ UNCHANGED <<tokens, live, now, req, committed>>
  BY DEF rollback_expired
<1>2. D \subseteq PendingEntry
  BY DEF Overdue, PendingTypeOK
<1> HIDE DEF D
<1>3. ASSUME NEW p \in Paths PROVE file'[p] \in Content
  <2>1. CASE \E e \in D : e.path = p
    <3>1. (CHOOSE e \in D : e.path = p) \in PendingEntry
      BY <1>2, <2>1
    <3>2. QED
      BY <1>1, <2>1, <3>1 DEF PendingEntry
  <2>2. QED
    BY <1>1, <2>1 DEF PendingTypeOK
<1>4. file' \in [Paths -> Content]
  BY <1>1, <1>3
<1>5. QED
  BY <1>1, <1>4, Tasks, Zenon DEF PendingTypeOK

LEMMA NextTyped == PendingTypeOK /\ [ConfigNext]_configVars => PendingTypeOK'
<1> SUFFICES ASSUME PendingTypeOK, [ConfigNext]_configVars PROVE PendingTypeOK'
  OBVIOUS
<1>1. CASE UNCHANGED configVars
  BY <1>1, Zenon DEF configVars, PendingTypeOK
<1>2. ASSUME NEW r \in Requests, NEW p \in Paths, NEW v \in Values, RestApply(r, p, v)
      PROVE  PendingTypeOK'
  BY <1>2, ApplyTyped, Zenon DEF RestApply, PendingTypeOK
<1>3. ASSUME NEW r \in Requests, NEW t \in 1..tokens, RestConfirm(r, t)
      PROVE  PendingTypeOK'
  <2>1. req' \in [Requests -> Task]
    BY <1>3, Tasks, Zenon DEF RestConfirm, PendingTypeOK
  <2>2. QED
    BY <1>3, <2>1, ConfirmTyped DEF RestConfirm, PendingTypeOK
<1>4. ASSUME NEW r \in Requests, TunnelDispatch(r)
      PROVE  PendingTypeOK'
  <2>1. req' \in [Requests -> Task] /\ UNCHANGED <<live, now, sweep>>
    BY <1>4, Tasks, Zenon DEF TunnelDispatch, PendingTypeOK
  <2>2. /\ file' \in [Paths -> Content] /\ committed' \in [Paths -> Content]
        /\ pending' \in SUBSET PendingEntry /\ tokens' \in 0..MaxTokens
    <3>1. CASE confirm_and_take(req[r].token)
      BY <3>1, ConfirmTyped
    <3>2. CASE \E p \in Paths, v \in Values : apply_heavy(p, v)
      BY <3>2, ApplyTyped, Zenon
    <3>3. CASE UNCHANGED <<file, pending, tokens, committed>>
      BY <3>3, Zenon DEF PendingTypeOK
    <3>4. QED
      BY <1>4, <3>1, <3>2, <3>3 DEF TunnelDispatch
  <2>3. QED
    BY <2>1, <2>2, Zenon DEF PendingTypeOK
<1>5. ASSUME NEW r \in Requests, NEW t \in 0..tokens, TunnelStart(r, t)
      PROVE  PendingTypeOK'
  <2>1. [NoTask EXCEPT !.at = "dispatch", !.token = t, !.before = has_pending_for_path(Config)]
          \in Task
    <3>1. t \in 0..MaxTokens
      BY ConfigAssumption DEF PendingTypeOK
    <3>2. has_pending_for_path(Config) \in BOOLEAN
      BY DEF has_pending_for_path
    <3>3. QED
      BY <3>1, <3>2, Zenon DEF NoTask, Task, Content
  <2>2. QED
    BY <1>5, <2>1 DEF TunnelStart, PendingTypeOK
<1>6. ASSUME NEW r \in Requests, TunnelAfter(r) \/ ReadExit(r) \/ SwapExit(r)
      PROVE  PendingTypeOK'
  <2>1. file[Config] \in Content /\ req[r] \in Task /\ req[r].val \in Content
    BY ConfigAssumption, Zenon DEF PendingTypeOK, Task
  <2>2. req' \in [Requests -> Task] /\ live' \in Content
    BY <1>6, <2>1, Tasks, ZenonT(60) DEF TunnelAfter, ReadExit, SwapExit, PendingTypeOK
  <2>3. UNCHANGED <<file, pending, tokens, now, sweep, committed>>
    BY <1>6 DEF TunnelAfter, ReadExit, SwapExit
  <2>4. QED
    BY <2>2, <2>3, Zenon DEF PendingTypeOK
<1>7. ASSUME NEW p \in Paths, NEW v \in Values, write_direct_file(p, v)
      PROVE  PendingTypeOK'
  BY <1>7, Zenon DEF write_direct_file, PendingTypeOK, Content
<1>8. CASE Sweep
  <2>1. CASE \E failed \in SUBSET Overdue : rollback_expired(failed)
    BY <2>1, RollbackTyped
  <2>2. CASE SweepRead
    BY <2>2, Tasks, ConfigAssumption, Zenon DEF SweepRead, PendingTypeOK
  <2>3. CASE SweepSwap
    <3>1. sweep.val \in Content
      BY DEF PendingTypeOK, Task
    <3>2. QED
      BY <2>3, <3>1, Tasks, Zenon DEF SweepSwap, PendingTypeOK
  <2>4. QED
    BY <1>8, <2>1, <2>2, <2>3 DEF Sweep
<1>9. CASE ConfigTick
  BY <1>9, ConfigAssumption DEF ConfigTick, PendingTypeOK
<1>10. CASE Restart
  BY <1>10, Tasks, ConfigAssumption, Zenon DEF Restart, PendingTypeOK
<1>11. QED
  BY <1>1, <1>2, <1>3, <1>4, <1>5, <1>6, <1>7, <1>8, <1>9, <1>10, ZenonT(60) DEF ConfigNext, Continue

(* Whatever requests, confirmations, direct writes, failing rollbacks and
   restarts are interleaved, a rollback leads back to the content confirmed last, and no
   unconfirmed content is without its rollback. *)
THEOREM RollbackAlwaysRestores == ConfigSpec => [](PendingTypeOK /\ RollbackRestores)
<1>1. RollbackInv => RollbackRestores
  BY DEF RollbackInv
<1>2. QED
  BY ConfigInitHolds, ConfigNextHolds, InitTyped, NextTyped, <1>1, PTL DEF ConfigSpec
=============================================================================
