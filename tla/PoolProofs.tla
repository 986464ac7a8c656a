----------------------------- MODULE PoolProofs -----------------------------
(***************************************************************************)
(* What the nodes of a pool agree on. compute_partition_bounds divides the *)
(* subnet: every host offset belongs to exactly one partition, for every   *)
(* subnet and number of partitions, and what two nodes conclude from each  *)
(* other's announcements is exact. A client one node has deleted never     *)
(* comes back to a node that knows it, whatever the nodes exchange.        *)
(*                                                                         *)
(* And how they reach each other: what is registered for an exit is the    *)
(* current session of its dial, whatever requests add and remove exits.    *)
(***************************************************************************)
EXTENDS AddressPlan, PoolSync, ExitDials, TLAPS

-----------------------------------------------------------------------------
(* The partitions *)

(* What integer division gives *)
LEMMA DivFacts ==
  ASSUME NEW max \in Nat, NEW num \in Nat, num >= 1, num <= max
  PROVE  /\ max \div num \in Nat
         /\ (max \div num) * num <= max
         /\ max \div num >= 1
  OBVIOUS

LEMMA MulMono ==
  ASSUME NEW i \in Nat, NEW j \in Nat, NEW p \in Nat, i <= j
  PROVE  i * p <= j * p
  OBVIOUS

LEMMA QuotientAtLeast ==
  ASSUME NEW max \in Nat, NEW num \in Nat, NEW k \in Nat, num >= 1, num * k <= max
  PROVE  k <= max \div num
  OBVIOUS

(* The bounds without their clamps: neither min changes anything *)
LEMMA SliceBounds ==
  ASSUME NEW max \in Nat, NEW num \in Nat, num >= 1, num <= max,
         NEW i \in 0..num - 1
  PROVE  LET p == max \div num
         IN /\ PartitionStart(max, num, i) = 1 + i * p
            /\ PartitionEnd(max, num, i) = IF i + 1 = num THEN max + 1 ELSE 1 + (i + 1) * p
            /\ 1 + i * p <= max
            /\ i + 1 < num => 1 + (i + 1) * p <= max
<1> DEFINE p == max \div num
<1>1. p \in Nat /\ p * num <= max /\ p >= 1
  BY DivFacts
<1>2. PartitionSize(max, num) = p
  BY <1>1 DEF PartitionSize, AtLeast
<1> HIDE DEF p
<1>3. (i + 1) * p = i * p + p /\ i * p \in Nat /\ num * p = p * num
  BY <1>1
<1>4. (i + 1) * p <= num * p
  BY <1>1, MulMono, i + 1 \in Nat, i + 1 <= num
<1>5. 1 + i * p <= max
  BY <1>1, <1>3, <1>4
<1>6. PartitionStart(max, num, i) = 1 + i * p
  BY <1>2, <1>3, <1>5 DEF PartitionStart, AtMost
<1>7. i + 1 < num => 1 + (i + 1) * p <= max
  <2>1. HAVE i + 1 < num
  <2>2. (i + 1 + 1) * p <= num * p /\ (i + 1 + 1) * p = (i + 1) * p + p /\ (i + 1) * p \in Nat
    BY <1>1, <2>1, MulMono, i + 1 + 1 \in Nat, i + 1 + 1 <= num
  <2> QED BY <1>1, <1>3, <2>2
<1>8. PartitionEnd(max, num, i) = IF i + 1 = num THEN max + 1 ELSE 1 + (i + 1) * p
  BY <1>1, <1>2, <1>3, <1>6, <1>7 DEF PartitionEnd, AtMost
<1> QED BY <1>5, <1>6, <1>7, <1>8 DEF p

(* Two nodes with different partition indices share no host offset:
   independent allocations on them cannot collide. *)
THEOREM PartitionsDisjoint ==
  ASSUME NEW max \in Nat, NEW num \in Nat, num >= 1, num <= max,
         NEW i \in 0..num - 1, NEW j \in 0..num - 1, i # j
  PROVE  Slice(max, num, i) \intersect Slice(max, num, j) = {}
<1> DEFINE p == max \div num
<1>1. p \in Nat
  BY DivFacts
<1>2. ASSUME NEW a \in 0..num - 1, NEW b \in 0..num - 1, a < b,
             NEW o, o \in Slice(max, num, a), o \in Slice(max, num, b)
      PROVE  FALSE
  <2>0. a + 1 # num
    BY <1>2
  <2>1. /\ PartitionEnd(max, num, a) = 1 + (a + 1) * p
        /\ PartitionStart(max, num, b) = 1 + b * p
    <3>1. PartitionStart(max, num, b) = 1 + b * p
      BY SliceBounds
    <3>2. PartitionEnd(max, num, a) = IF a + 1 = num THEN max + 1 ELSE 1 + (a + 1) * p
      BY SliceBounds, Zenon
    <3> QED BY <2>0, <3>1, <3>2
  <2> HIDE DEF p
  <2>2. (a + 1) * p <= b * p /\ (a + 1) * p \in Nat /\ b * p \in Nat
    BY <1>1, <1>2, MulMono, a + 1 \in Nat, a + 1 <= b
  <2>3. o \in 1 + b * p .. PartitionEnd(max, num, b) - 1
    BY <1>2, <2>1 DEF Slice
  <2>4. o \in PartitionStart(max, num, a) .. (1 + (a + 1) * p) - 1
    <3>1. o \in PartitionStart(max, num, a) .. PartitionEnd(max, num, a) - 1
      BY <1>2 DEF Slice
    <3> QED BY <2>1, <3>1
  <2> QED BY <2>2, <2>3, <2>4
<1>3. i < j \/ j < i
  OBVIOUS
<1> QED BY <1>2, <1>3

(* No offset is left out: the remainder of the division belongs to the last
   partition. *)
THEOREM PartitionsCover ==
  ASSUME NEW max \in Nat, NEW num \in Nat, num >= 1, num <= max,
         NEW o \in 1..max
  PROVE  \E i \in 0..num - 1 : o \in Slice(max, num, i)
<1> DEFINE p == max \div num
           k == (o - 1) \div p
<1>1. p \in Nat /\ p >= 1
  BY DivFacts
<1> HIDE DEF p
<1>2. k \in Nat /\ k * p <= o - 1 /\ o - 1 < (k + 1) * p
  BY <1>1
<1> HIDE DEF k
<1>3. CASE k < num - 1
  <2>1. k \in 0..num - 1 /\ k + 1 # num
    BY <1>2, <1>3
  <2>2. PartitionStart(max, num, k) = 1 + k * p /\ PartitionEnd(max, num, k) = 1 + (k + 1) * p
    BY <2>1, SliceBounds, Zenon DEF p
  <2>3. k * p \in Nat /\ (k + 1) * p \in Nat
    BY <1>1, <1>2
  <2>4. o \in Slice(max, num, k)
    BY <1>2, <2>2, <2>3 DEF Slice
  <2> QED BY <2>1, <2>4
<1>4. CASE k >= num - 1
  <2>1. num - 1 \in 0..num - 1 /\ num - 1 \in Nat
    OBVIOUS
  <2>2. PartitionStart(max, num, num - 1) = 1 + (num - 1) * p
        /\ PartitionEnd(max, num, num - 1) = max + 1
    <3>1. PartitionStart(max, num, num - 1) = 1 + (num - 1) * p
      BY <2>1, SliceBounds, Zenon DEF p
    <3>2. PartitionEnd(max, num, num - 1)
            = IF num - 1 + 1 = num THEN max + 1 ELSE 1 + (num - 1 + 1) * p
      BY <2>1, SliceBounds DEF p
    <3>3. num - 1 + 1 = num
      OBVIOUS
    <3> QED BY <3>1, <3>2, <3>3
  <2>3. (num - 1) * p <= k * p /\ (num - 1) * p \in Nat /\ k * p \in Nat
    BY <1>1, <1>2, <1>4, <2>1, MulMono
  <2>4. o \in Slice(max, num, num - 1)
    BY <1>2, <2>2, <2>3 DEF Slice
  <2> QED BY <2>1, <2>4
<1> QED BY <1>2, <1>3, <1>4

(* The number of partitions a node chooses by itself suits the subnet: there
   are no more than there are offsets, and where there is more than one, none
   is smaller than MinPartitionSize ("rather than handing out partitions too
   small to be useful"). *)
THEOREM DefaultPartitionsUseful ==
  ASSUME NEW max \in Nat, max >= 2
  PROVE  LET n == default_num_partitions(max)
         IN /\ n \in 1..max
            /\ n >= 2 => PartitionSize(max, n) >= MinPartitionSize
<1> DEFINE size == AtMost(AtLeast(max \div TargetNumPartitions, MinPartitionSize),
                          MaxPartitionSize)
           q == max \div size
           n == default_num_partitions(max)
<1>1. size \in Nat /\ size >= 8
  BY DEF AtMost, AtLeast, TargetNumPartitions, MinPartitionSize, MaxPartitionSize
<1>2. n = AtLeast(q, 1)
  BY DEF default_num_partitions
<1> HIDE DEF size, n
<1>3. CASE max < size
  <2>1. q = 0
    BY <1>1, <1>3
  <2> QED BY <1>2, <2>1 DEF AtLeast, n
<1>4. CASE max >= size
  <2>1. q \in Nat /\ q * size <= max /\ q >= 1
    BY <1>1, <1>4, DivFacts
  <2> HIDE DEF q
  <2>2. n = q
    BY <1>2, <2>1 DEF AtLeast
  <2>3. q <= q * size
    BY <1>1, <2>1
  <2>4. q <= max
    BY <1>1, <2>1, <2>3
  <2>5. size <= max \div q
    BY <1>1, <2>1, <2>4, QuotientAtLeast
  <2>6. max \div q \in Nat
    BY <2>1, <2>4, DivFacts
  <2>7. PartitionSize(max, q) >= 8
    BY <1>1, <2>5, <2>6 DEF PartitionSize, AtLeast
  <2> QED BY <2>1, <2>2, <2>4, <2>7 DEF MinPartitionSize, n
<1> QED BY <1>1, <1>3, <1>4

(* Two partitioned nodes of one subnet report an index conflict exactly when
   their slices overlap, and otherwise report nothing. *)
THEOREM ConflictExact ==
  ASSUME NEW max \in Nat, NEW num \in Nat, num >= 2, num <= max, NEW cidr,
         NEW i \in 0..num - 1, NEW j \in 0..num - 1
  PROVE  check_partition(Announce(max, num, i, cidr), Announce(max, num, j, cidr))
           = IF Slice(max, num, i) \intersect Slice(max, num, j) = {}
             THEN "Ok" ELSE "IndexConflict"
<1>1. ASSUME NEW a \in 0..num - 1
      PROVE  /\ decode_peer_partition(Announce(max, num, a, cidr)) = {a}
             /\ Announce(max, num, a, cidr).cidr = cidr
             /\ PartitionStart(max, num, a) \in Slice(max, num, a)
  <2> DEFINE p == max \div num
  <2>1. p \in Nat /\ p >= 1
    BY DivFacts
  <2>2. /\ PartitionStart(max, num, a) = 1 + a * p
        /\ PartitionEnd(max, num, a) = IF a + 1 = num THEN max + 1 ELSE 1 + (a + 1) * p
        /\ 1 + a * p <= max
    <3>1. num >= 1
      OBVIOUS
    <3> QED BY <3>1, SliceBounds, Zenon
  <2> HIDE DEF p
  <2>3. a * p \in Nat /\ (a + 1) * p = a * p + p
    BY <2>1
  <2>4. /\ PartitionStart(max, num, a) \in Nat
        /\ PartitionEnd(max, num, a) \in Nat
        /\ PartitionStart(max, num, a) < PartitionEnd(max, num, a)
    BY <2>1, <2>2, <2>3
  <2>5. PartitionStart(max, num, a) \in Slice(max, num, a)
    BY <2>4 DEF Slice
  <2>6. AtMost(num, max) = num /\ (a % num) % num = a
    BY DEF AtMost
  <2>7. Announce(max, num, a, cidr)
          = [cidr |-> cidr, index |-> a,
             size |-> PartitionEnd(max, num, a) - PartitionStart(max, num, a), num |-> num]
    <3>1. ~(max < 2 \/ num <= 1)
      OBVIOUS
    <3> QED BY <2>6, <3>1, Zenon DEF Announce
  <2>8. decode_peer_partition(Announce(max, num, a, cidr)) = {a}
    BY <2>4, <2>7 DEF decode_peer_partition
  <2> QED BY <2>5, <2>7, <2>8
<1>2. CASE i = j
  BY <1>1, <1>2 DEF check_partition
<1>3. CASE i # j
  <2>1. Slice(max, num, i) \intersect Slice(max, num, j) = {}
    BY <1>3, PartitionsDisjoint
  <2> QED BY <1>1, <1>3, <2>1 DEF check_partition
<1> QED BY <1>2, <1>3

-----------------------------------------------------------------------------
(* The records *)
Known == {r \in Record : r.st # "none"}

(* A live copy is somewhere; a copy of a tombstone is old enough for some node
   to reap it; some node has already reaped one; some node has had one. *)
LiveCopy(i) == \E r \in Copies(i) : r.st = "live"
OldCopy(i) == \E r \in Copies(i), m \in Nodes : Expired(r, Now(m), TTL)
Reaped(i) == \E n \in Nodes : <<n, i>> \in buried /\ db[n][i].st = "none"
Buried(i) == \E n \in Nodes : <<n, i>> \in buried

(* Once a tombstone can be forgotten there is nothing left to bring back, and
   a tombstone stems from a node that still remembers having had one. *)
Settled(i) ==
  /\ Reaped(i) => ~LiveCopy(i)
  /\ OldCopy(i) => ~LiveCopy(i)
  /\ (\E r \in Copies(i) : r.st = "dead") => Buried(i)

PoolInv == PoolTypeOK /\ RevocationFinal /\ \A i \in Ids : Settled(i)

LEMMA CopyMeans ==
  ASSUME NEW i, NEW r
  PROVE  r \in Copies(i) <=>
           \/ \E n \in Nodes : r = db[n][i]
           \/ \E m \in net : m.type = "sync" /\ \E p \in m.body : p[1] = i /\ p[2] = r
BY DEF Copies, InFlight

LEMMA MissingFacts == Missing \in Record /\ Missing.st = "none"
BY DEF Missing, Record, States

(* A step that makes no copy, and reaps a tombstone only when it is old *)
LEMMA NoNewCopy ==
  ASSUME NEW i \in Ids, Settled(i), clock' = clock, buried \subseteq buried',
         \A r \in Copies(i)' : r \in Copies(i) \/ r = Missing,
         Reaped(i)' => Reaped(i) \/ OldCopy(i)
  PROVE  Settled(i)'
<1>1. LiveCopy(i)' => LiveCopy(i)
  BY MissingFacts DEF LiveCopy
<1>2. OldCopy(i)' => OldCopy(i)
  BY MissingFacts DEF OldCopy, Expired, Now
<1>3. (\E r \in Copies(i)' : r.st = "dead") => Buried(i)'
  BY MissingFacts DEF Settled, Buried
<1> QED BY <1>1, <1>2, <1>3 DEF Settled

(* A step of the network sends on what some node has *)
LEMMA NetStep ==
  ASSUME PoolInv, UNCHANGED <<clock, db, buried>>,
         \A m \in net' : m.type = "sync" =>
            m \in net \/ \E n \in Nodes : \A p \in m.body : p[2] = db[n][p[1]]
  PROVE  RevocationFinal' /\ \A i \in Ids : Settled(i)'
<1>1. RevocationFinal'
  BY DEF PoolInv, RevocationFinal
<1>2. ASSUME NEW i \in Ids PROVE Settled(i)'
  <2>1. \A r \in Copies(i)' : r \in Copies(i)
    <3> SUFFICES ASSUME NEW r \in Copies(i)' PROVE r \in Copies(i)
      OBVIOUS
    <3>1. \/ \E n \in Nodes : r = db[n][i]
          \/ \E m \in net' : m.type = "sync" /\ \E p \in m.body : p[1] = i /\ p[2] = r
      BY DEF Copies, InFlight
    <3> QED BY <3>1, CopyMeans
  <2>2. Reaped(i)' => Reaped(i)
    BY DEF Reaped
  <2> QED BY <2>1, <2>2, NoNewCopy DEF PoolInv
<1> QED BY <1>1, <1>2

-----------------------------------------------------------------------------
LEMMA PoolInit == Init => PoolInv
<1> SUFFICES ASSUME Init PROVE PoolInv
  OBVIOUS
<1>1. PoolTypeOK
  BY MissingFacts, PoolAssumption DEF Init, PoolTypeOK
<1>2. ASSUME NEW i \in Ids, NEW r \in Copies(i) PROVE r = Missing
  BY <1>2, CopyMeans DEF Init
<1>3. RevocationFinal
  BY DEF Init, RevocationFinal
<1>4. \A i \in Ids : Settled(i)
  BY <1>2, MissingFacts DEF Settled, LiveCopy
<1> QED BY <1>1, <1>3, <1>4 DEF PoolInv

(* The clock: Tick waits until an expiry can harm nobody *)
LEMMA TickKeeps == PoolInv /\ Tick => PoolInv'
<1> SUFFICES ASSUME PoolInv, Tick PROVE PoolInv'
  OBVIOUS
<1>1. /\ clock \in Nat /\ clock' = clock + 1 /\ clock < MaxClock
      /\ UNCHANGED <<db, net, edits, lost, buried, stale, warned, differed>>
  BY DEF Tick, PoolInv, PoolTypeOK
<1>2. PoolTypeOK'
  BY <1>1, PoolAssumption DEF PoolInv, PoolTypeOK
<1>3. \A i : Copies(i)' = Copies(i)
  BY <1>1 DEF Copies, InFlight
<1>4. \A n \in Nodes : Now(n)' = Now(n) + 1
  BY <1>1, PoolAssumption DEF Now
<1>5. ASSUME NEW i \in Ids PROVE Settled(i)'
  <2>1. LiveCopy(i)' = LiveCopy(i) /\ Reaped(i)' = Reaped(i) /\ Buried(i)' = Buried(i)
    BY <1>1, <1>3 DEF LiveCopy, Reaped, Buried
  <2>2. OldCopy(i)' => ~LiveCopy(i)
    BY <1>3, <1>4 DEF OldCopy, LiveCopy, Tick
  <2> QED BY <1>3, <2>1, <2>2 DEF PoolInv, Settled
<1>6. RevocationFinal'
  BY <1>1 DEF PoolInv, RevocationFinal
<1> QED BY <1>2, <1>5, <1>6 DEF PoolInv

-----------------------------------------------------------------------------
LEMMA PeerIsEnd ==
  ASSUME NEW s \in Sessions, NEW n
  PROVE  Peer(s, n) \in {s[1], s[2]} /\ s[1] \in Nodes /\ s[2] \in Nodes
BY PoolAssumption DEF Peer

(* What Agreed does keeps its types *)
LEMMA AgreedTypes ==
  ASSUME PoolTypeOK, NEW s \in Sessions, NEW n,
         Agreed(s, n) \/ UNCHANGED <<stale, warned, differed>>
  PROVE  /\ stale' \in [Sessions -> 0..StaleBeacons]
         /\ warned' \in [Sessions -> BOOLEAN] /\ differed' \in [Sessions -> BOOLEAN]
<1>1. 0 \in 0..StaleBeacons
  BY PoolAssumption
<1>2. CASE UNCHANGED <<stale, warned, differed>>
  BY <1>2 DEF PoolTypeOK
<1>3. CASE Agreed(s, n) /\ n = s[1]
  <2>1. InSync(s) \in BOOLEAN
    BY DEF InSync
  <2> QED BY <1>1, <1>3, <2>1, ZenonT(60) DEF Agreed, PoolTypeOK
<1>4. CASE Agreed(s, n) /\ n # s[1]
  BY <1>4 DEF Agreed, PoolTypeOK
<1> QED BY <1>2, <1>3, <1>4

LEMMA BeaconKeeps ==
  ASSUME PoolInv, NEW s \in Sessions, Beacon(s)
  PROVE  PoolInv'
<1> DEFINE new == Msg(s, s[2], "digest", state_digest(db[s[1]]), FALSE)
<1>1. /\ net' = net \union {new} /\ UNCHANGED <<clock, db, edits, lost, buried, differed>>
      /\ stale' = [stale EXCEPT ![s] = IF @ < StaleBeacons THEN @ + 1 ELSE @]
      /\ warned' = [warned EXCEPT ![s] = @ \/ stale[s] >= StaleBeacons]
  BY DEF Beacon
<1>2. new.s = s /\ new.to = s[2] /\ new.type = "digest"
  BY DEF Msg
<1> HIDE DEF new
<1>3. stale' \in [Sessions -> 0..StaleBeacons] /\ warned' \in [Sessions -> BOOLEAN]
  BY <1>1, PoolAssumption DEF PoolInv, PoolTypeOK
<1>4. PoolTypeOK'
  BY <1>1, <1>2, <1>3 DEF PoolInv, PoolTypeOK
<1>5. RevocationFinal' /\ \A i \in Ids : Settled(i)'
  BY <1>1, <1>2, NetStep
<1> QED BY <1>4, <1>5 DEF PoolInv

LEMMA DigestKeeps ==
  ASSUME PoolInv, NEW m \in net, RecvDigest(m)
  PROVE  PoolInv'
<1> DEFINE new == Msg(m.s, Peer(m.s, m.to), "buckets", bucket_digests(db[m.to]), TRUE)
<1>1. /\ net' \subseteq net \union {new} /\ UNCHANGED <<clock, db, edits, lost, buried>>
      /\ Agreed(m.s, m.to) \/ UNCHANGED <<stale, warned, differed>>
  BY Zenon DEF RecvDigest
<1>2. new.s = m.s /\ new.to = Peer(m.s, m.to) /\ new.type = "buckets"
  BY DEF Msg
<1> HIDE DEF new
<1>3. m.s \in Sessions /\ PoolTypeOK
  BY DEF PoolInv, PoolTypeOK
<1>4. PoolTypeOK'
  BY <1>1, <1>2, <1>3, PeerIsEnd, AgreedTypes DEF PoolTypeOK
<1>5. RevocationFinal' /\ \A i \in Ids : Settled(i)'
  BY <1>1, <1>2, NetStep, Zenon
<1> QED BY <1>4, <1>5 DEF PoolInv

(* The records sent are the sender's *)
LEMMA BucketsKeeps ==
  ASSUME PoolInv, NEW m \in net, RecvBuckets(m)
  PROVE  PoolInv'
<1> DEFINE diff == differing_pool_buckets(bucket_digests(db[m.to]), m.body)
           list == clients_json_for_buckets(db[m.to], diff)
           sync == Msg(m.s, Peer(m.s, m.to), "sync", list, FALSE)
           own  == Msg(m.s, Peer(m.s, m.to), "buckets", bucket_digests(db[m.to]), FALSE)
<1>1. /\ net' \subseteq net \union {sync, own} /\ UNCHANGED <<clock, db, edits, lost, buried>>
      /\ Agreed(m.s, m.to) \/ UNCHANGED <<stale, warned, differed>>
  BY Zenon DEF RecvBuckets
<1>2. /\ sync.s = m.s /\ sync.to = Peer(m.s, m.to) /\ sync.type = "sync" /\ sync.body = list
      /\ own.s = m.s /\ own.to = Peer(m.s, m.to) /\ own.type = "buckets"
  BY Zenon DEF Msg
<1> HIDE DEF sync, own, diff
<1>3. m.s \in Sessions /\ PoolTypeOK /\ m.to \in Nodes
  BY PoolAssumption, Zenon DEF PoolInv, PoolTypeOK
<1>4. \A p \in list : p \in Ids \X Known /\ p[2] = db[m.to][p[1]]
  <2>1. \A j \in Ids : db[m.to][j] \in Record
    BY <1>3 DEF PoolTypeOK
  <2> QED BY <2>1 DEF clients_json_for_buckets, Known
<1> HIDE DEF list
<1>5. \A x \in net' :
        /\ x.s \in Sessions /\ x.to \in {x.s[1], x.s[2]}
        /\ x.type \in {"digest", "buckets", "sync"}
        /\ x.type = "sync" => x.body \subseteq Ids \X {r \in Record : r.st # "none"}
  BY <1>1, <1>2, <1>3, <1>4, PeerIsEnd, SMTT(30) DEF PoolTypeOK, Known
<1>6. PoolTypeOK'
  BY <1>1, <1>3, <1>5, AgreedTypes, Zenon DEF PoolTypeOK
<1>7. RevocationFinal' /\ \A i \in Ids : Settled(i)'
  BY <1>1, <1>2, <1>3, <1>4, NetStep, Zenon
<1> QED BY <1>6, <1>7 DEF PoolInv

LEMMA LoseKeeps ==
  ASSUME PoolInv, NEW m \in net, Lose(m)
  PROVE  PoolInv'
<1>1. /\ net' \subseteq net /\ lost' \in 0..MaxLoss
      /\ UNCHANGED <<clock, db, edits, buried, stale, warned, differed>>
  BY PoolAssumption DEF Lose, PoolInv, PoolTypeOK
<1>2. PoolTypeOK'
  BY <1>1 DEF PoolInv, PoolTypeOK
<1>3. RevocationFinal' /\ \A i \in Ids : Settled(i)'
  BY <1>1, NetStep
<1> QED BY <1>2, <1>3 DEF PoolInv

-----------------------------------------------------------------------------
(* An administrator makes a client only under an id of which nobody has had a
   tombstone, edits one that is live, and buries one under the node's clock,
   which no other clock is far enough ahead of to find the tombstone old. *)
LEMMA EditKeeps ==
  ASSUME PoolInv, NEW n \in Nodes, NEW j \in Ids, AdminEdit(n, j)
  PROVE  PoolInv'
<1>1. PICK r :
        /\ \/ /\ \A m \in Nodes : db[m][j].st = "none" /\ <<m, j>> \notin buried
              /\ r \in Record /\ r.st = "live"
           \/ db[n][j].st = "live" /\ r \in Record /\ r.st = "live"
           \/ db[n][j].st = "live" /\ r \in Record /\ r.st = "dead" /\ r.at = Now(n)
        /\ db' = [db EXCEPT ![n][j] = r]
        /\ buried' = IF r.st = "dead" THEN buried \union {<<n, j>>} ELSE buried
  <2>1. Now(n) \in Nat /\ db[n][j] \in Record
    BY PoolAssumption DEF PoolInv, PoolTypeOK, Now
  <2>2. /\ \A v \in Vals : [st |-> "live", at |-> Now(n), val |-> v] \in Record
        /\ [st |-> "dead", at |-> Now(n), val |-> db[n][j].val] \in Record
    BY <2>1, Zenon DEF Record, States
  <2>3. PICK r \in
       IF db[n][j].st = "none"
       THEN IF \A m \in Nodes : db[m][j].st = "none" /\ <<m, j>> \notin buried
            THEN {[st |-> "live", at |-> Now(n), val |-> v] : v \in Vals} ELSE {}
       ELSE IF db[n][j].st = "live"
       THEN {[st |-> "live", at |-> Now(n), val |-> v] : v \in Vals}
              \union {[st |-> "dead", at |-> Now(n), val |-> db[n][j].val]}
       ELSE {} :
         /\ db' = [db EXCEPT ![n][j] = r]
         /\ buried' = IF r.st = "dead" THEN buried \union {<<n, j>>} ELSE buried
    BY Zenon DEF AdminEdit
  <2> QED BY <2>2, <2>3, Zenon
<1>2. /\ UNCHANGED <<clock, net, lost, stale, warned>> /\ edits' \in 0..MaxEdits
      /\ differed' \in [Sessions -> BOOLEAN]
  BY PoolAssumption DEF AdminEdit, Watch, PoolInv, PoolTypeOK
<1>3. /\ db \in [Nodes -> [Ids -> Record]]
      /\ r \in Record /\ r.st # "none"
  BY <1>1 DEF PoolInv, PoolTypeOK
<1>4. /\ db' \in [Nodes -> [Ids -> Record]] /\ db'[n][j] = r
      /\ \A m \in Nodes, i \in Ids : m # n \/ i # j => db'[m][i] = db[m][i]
  BY <1>1, <1>3
<1>5. PoolTypeOK'
  <2>1. clock' = clock /\ net' = net /\ lost' = lost /\ stale' = stale /\ warned' = warned
    BY <1>2
  <2>2. \A m \in Nodes, i \in Ids : db'[m][i].st = "none" => db'[m][i] = Missing
    <3>1. \A m \in Nodes, i \in Ids : db[m][i].st = "none" => db[m][i] = Missing
      BY DEF PoolInv, PoolTypeOK
    <3>2. ASSUME NEW m \in Nodes, NEW i \in Ids, db'[m][i].st = "none" PROVE db'[m][i] = Missing
      <4>1. db'[m][i] = db[m][i]
        BY ONLY <1>3, <1>4, <3>2, Zenon
      <4> QED BY ONLY <3>1, <3>2, <4>1, Zenon
    <3> QED BY ONLY <3>2, Zenon
  <2> QED BY <1>2, <1>4, <2>1, <2>2, Zenon DEF PoolInv, PoolTypeOK
<1>6. RevocationFinal'
  BY <1>1, <1>4 DEF PoolInv, RevocationFinal
<1>7. \A i \in Ids : \A x \in Copies(i)' : x \in Copies(i) \/ (i = j /\ x = r)
  <2> SUFFICES ASSUME NEW i \in Ids, NEW x \in Copies(i)', x # r \/ i # j
               PROVE  x \in Copies(i)
    OBVIOUS
  <2>1. \/ \E m \in Nodes : x = db'[m][i]
        \/ \E m \in net : m.type = "sync" /\ \E p \in m.body : p[1] = i /\ p[2] = x
    BY <1>2 DEF Copies, InFlight
  <2> QED BY <1>4, <2>1, CopyMeans
<1>8. ASSUME NEW i \in Ids, i # j PROVE Settled(i)'
  <2>1. Reaped(i)' => Reaped(i)
    BY <1>1, <1>4, <1>8, Zenon DEF Reaped
  <2> QED BY <1>1, <1>2, <1>7, <1>8, <2>1, NoNewCopy DEF PoolInv
<1>9. Settled(j)'
  <2>1. Settled(j)
    BY DEF PoolInv
  <2>2. Reaped(j)' => Reaped(j)
    BY <1>1, <1>3, <1>4, Zenon DEF Reaped
  <2>3. OldCopy(j)' => OldCopy(j)
    <3>1. ASSUME NEW m \in Nodes PROVE ~Expired(r, Now(m), TTL)
      <4>1. r.st = "dead" => r.at = clock + Ahead[n]
        BY <1>1 DEF Now
      <4>2. clock \in Nat /\ Ahead[n] \in Nat /\ Ahead[m] \in Nat /\ TTL \in Nat
        BY PoolAssumption DEF PoolInv, PoolTypeOK
      <4>3. Ahead[m] <= Ahead[n] + TTL
        BY PoolAssumption
      <4> QED BY <4>1, <4>2, <4>3 DEF Expired, Now
    <3> QED BY <1>2, <1>7, <3>1 DEF OldCopy, Now
  <2>4. LiveCopy(j)' => LiveCopy(j) \/ ~Buried(j)
    BY <1>1, <1>7, CopyMeans, Zenon DEF LiveCopy, Buried
  <2>5. Reaped(j) => Buried(j)
    BY DEF Reaped, Buried
  <2>6. OldCopy(j) => Buried(j)
    BY <2>1 DEF OldCopy, Expired, Settled
  <2>7. (\E x \in Copies(j)' : x.st = "dead") => Buried(j)'
    BY <1>1, <1>7, <2>1 DEF Settled, Buried
  <2> QED BY <2>1, <2>2, <2>3, <2>4, <2>5, <2>6, <2>7 DEF Settled
<1> QED BY <1>5, <1>6, <1>8, <1>9 DEF PoolInv

-----------------------------------------------------------------------------
(* What merge_from_json makes of a record: it keeps its own or takes the
   peer's copy, never a live one over a tombstone, and reaps the result when
   it is an old tombstone. *)
Merged(own, payload, i, at, made) ==
  \E r \in Record :
    /\ \/ r = own /\ (own.st = "none" => payload \cap ({i} \X Known) = {})
       \/ <<i, r>> \in payload /\ r.st # "none" /\ (own.st = "dead" => r.st = "dead")
    /\ made = IF Expired(r, at, TTL) THEN Missing ELSE r

LEMMA MergeOutcome ==
  ASSUME NEW d \in [Ids -> Record], NEW payload, payload \subseteq Ids \X Known, NEW at, NEW i \in Ids,
         d[i].st = "none" => d[i] = Missing
  PROVE  Merged(d[i], payload, i, at, merge_from_json(d, payload, at)[i])
<1> DEFINE in == {p[2] : p \in {q \in payload : q[1] = i}}
           inc == CHOOSE x \in in : TRUE
           r == IF in = {} THEN d[i] ELSE MergeRecord(d, i, inc)
<1>1. merge_from_json(d, payload, at)[i] = IF Expired(r, at, TTL) THEN Missing ELSE r
  BY DEF merge_from_json
<1>2. \A x \in in : <<i, x>> \in payload /\ x \in Known
  OBVIOUS
<1>3. CASE in = {}
  <2>1. payload \cap ({i} \X Known) = {}
    BY <1>3
  <2> QED BY <1>1, <1>3, <2>1, Zenon DEF Merged
<1>4. CASE in # {}
  <2>1. inc \in in
    BY <1>4
  <2>2. <<i, inc>> \in payload /\ inc \in Record /\ inc.st # "none"
    BY <1>2, <2>1, Zenon DEF Known
  <2> HIDE DEF in, inc
  <2>3. [d[i] EXCEPT !.st = inc.st, !.at = inc.at, !.val = inc.val] = inc
    BY <2>2, Zenon DEF Record
  <2>4. \/ r = d[i] /\ d[i].st # "none"
        \/ r = inc /\ (d[i].st = "dead" => inc.st = "dead")
    BY <1>4, <2>2, <2>3 DEF MergeRecord, MergeOne, IncomingWins
  <2>5. r \in Record
    BY <2>2, <2>4
  <2> HIDE DEF r
  <2> QED BY <1>1, <2>2, <2>4, <2>5, Zenon DEF Merged
<1> QED BY <1>3, <1>4, Zenon

LEMMA SyncKeeps ==
  ASSUME PoolInv, NEW m \in net, RecvSync(m)
  PROVE  PoolInv'
<1>0. PICK n \in Nodes : n = m.to
  BY PoolAssumption, Zenon DEF PoolInv, PoolTypeOK
<1>1. PICK d : n = m.to /\ d = merge_from_json(db[n], m.body, Now(n))
  BY <1>0
<1>2. /\ m.type = "sync" /\ net' = net \ {m} /\ db' = [db EXCEPT ![n] = d]
      /\ buried' = buried \union
           {<<n, i>> : i \in {j \in Ids : d[j].st = "dead"
                                \/ (d[j].st = "none" /\ db[n][j].st # "none")}}
      /\ UNCHANGED <<clock, edits, lost, stale, warned>>
      /\ differed' \in [Sessions -> BOOLEAN]
  BY <1>1, Zenon DEF RecvSync, Watch, PoolInv, PoolTypeOK
<1>3. /\ db \in [Nodes -> [Ids -> Record]] /\ m.body \subseteq Ids \X Known
      /\ \A i \in Ids : db[n][i].st = "none" => db[n][i] = Missing
  BY <1>2, Zenon DEF PoolInv, PoolTypeOK, Known
<1>4. ASSUME NEW i \in Ids
      PROVE  \E r \in Record :
               /\ \/ r = db[n][i] /\ (db[n][i].st = "none" => m.body \cap ({i} \X Known) = {})
                  \/ <<i, r>> \in m.body /\ r.st # "none" /\ (db[n][i].st = "dead" => r.st = "dead")
               /\ d[i] = IF Expired(r, Now(n), TTL) THEN Missing ELSE r
  <2>1. PICK own : own = db[n] /\ own \in [Ids -> Record] /\ (own[i].st = "none" => own[i] = Missing)
    BY <1>3, Zenon
  <2>2. Merged(own[i], m.body, i, Now(n), merge_from_json(own, m.body, Now(n))[i])
    BY <1>3, <2>1, MergeOutcome, Zenon
  <2> QED BY <1>1, <2>1, <2>2, Zenon DEF Merged
<1>5. d \in [Ids -> Record]
  <2>1. \A i \in Ids : d[i] \in Record
    BY <1>4, MissingFacts, Zenon
  <2>2. DOMAIN d = Ids /\ d = [i \in Ids |-> d[i]]
    BY <1>1, Zenon DEF merge_from_json
  <2> QED BY <2>1, <2>2
<1>6. /\ db' \in [Nodes -> [Ids -> Record]] /\ db'[n] = d
      /\ \A k \in Nodes : k # n => db'[k] = db[k]
  BY <1>2, <1>3, <1>5, Zenon
<1>7. PoolTypeOK'
  <2>1. \A k \in Nodes, i \in Ids : db'[k][i].st = "none" => db'[k][i] = Missing
    <3> SUFFICES ASSUME NEW k \in Nodes, NEW i \in Ids, db'[k][i].st = "none"
                 PROVE  db'[k][i] = Missing
      OBVIOUS
    <3>1. CASE k # n
      BY <1>6, <3>1, SMTT(30) DEF PoolInv, PoolTypeOK
    <3>2. CASE k = n
      <4>1. PICK r \in Record :
              /\ r = db[n][i] \/ r.st # "none"
              /\ d[i] = IF Expired(r, Now(n), TTL) THEN Missing ELSE r
        BY <1>4, Zenon
      <4> QED BY <1>3, <1>6, <3>2, <4>1, Zenon
    <3> QED BY <3>1, <3>2
  <2> QED BY <1>2, <1>6, <2>1, Zenon DEF PoolInv, PoolTypeOK
<1>8. ASSUME NEW i \in Ids
      PROVE  /\ Settled(i)'
             /\ <<n, i>> \in buried' => d[i].st # "live"
             /\ \A k \in Nodes : k # n => (<<k, i>> \in buried' <=> <<k, i>> \in buried)
  <2>1. PICK r \in Record :
          /\ \/ r = db[n][i] /\ (db[n][i].st = "none" => m.body \cap ({i} \X Known) = {})
             \/ <<i, r>> \in m.body /\ r.st # "none" /\ (db[n][i].st = "dead" => r.st = "dead")
          /\ d[i] = IF Expired(r, Now(n), TTL) THEN Missing ELSE r
    BY <1>4, Zenon
  <2>2. r \in Copies(i)
    BY <1>2, <2>1, CopyMeans
  <2>3. \A x \in Copies(i)' : x \in Copies(i) \/ x = Missing
    <3> SUFFICES ASSUME NEW x \in Copies(i)', x # Missing PROVE x \in Copies(i)
      OBVIOUS
    <3>1. \/ \E k \in Nodes : x = db'[k][i]
          \/ \E y \in net : y.type = "sync" /\ \E p \in y.body : p[1] = i /\ p[2] = x
      <4>1. net' \subseteq net
        BY <1>2
      <4> QED BY ONLY x \in Copies(i)', <4>1, SMTT(30) DEF Copies, InFlight
    <3> QED BY <1>6, <2>1, <2>2, <3>1, CopyMeans, SMTT(30)
  <2>4. /\ \A k \in Nodes : k # n => (<<k, i>> \in buried' <=> <<k, i>> \in buried)
        /\ <<n, i>> \in buried' <=>
             (<<n, i>> \in buried \/ d[i].st = "dead" \/ (d[i].st = "none" /\ db[n][i].st # "none"))
    BY <1>2
  <2>5. Reaped(i)' => Reaped(i) \/ OldCopy(i)
    <3>1. ASSUME <<n, i>> \in buried', d[i].st = "none" PROVE Reaped(i) \/ OldCopy(i)
      <4>1. CASE Expired(r, Now(n), TTL)
        BY <2>2, <4>1 DEF OldCopy
      <4>2. CASE ~Expired(r, Now(n), TTL)
        BY <2>1, <2>4, <3>1, <4>2, Zenon DEF Reaped
      <4> QED BY <4>1, <4>2
    <3> QED BY <1>6, <2>4, <3>1, Zenon DEF Reaped
  <2>6. Settled(i)'
    BY <1>2, <2>3, <2>5, NoNewCopy, Zenon DEF PoolInv
  <2>7. <<n, i>> \in buried' => d[i].st # "live"
    <3> SUFFICES ASSUME <<n, i>> \in buried', d[i].st = "live" PROVE FALSE
      BY Zenon
    <3>1. <<n, i>> \in buried /\ r.st = "live" /\ db[n][i].st # "live"
      BY <2>1, <2>4, MissingFacts, Zenon DEF PoolInv, RevocationFinal
    <3>2. db[n][i].st = "none"
      <4>1. db[n][i].st \in {"none", "live", "dead"}
        BY <1>3 DEF Record, States
      <4> QED BY <2>1, <3>1, <4>1, Zenon
    <3> QED BY <2>2, <3>1, <3>2, Zenon DEF PoolInv, Settled, Reaped, LiveCopy
  <2> QED BY <2>4, <2>6, <2>7
<1>9. RevocationFinal'
  BY <1>6, <1>8, Zenon DEF PoolInv, RevocationFinal
<1> QED BY <1>7, <1>8, <1>9, Zenon DEF PoolInv

LEMMA PoolStep == PoolInv /\ [Next]_vars => PoolInv'
<1> SUFFICES ASSUME PoolInv, [Next]_vars PROVE PoolInv'
  OBVIOUS
<1>1. CASE UNCHANGED vars
  <2>1. PoolTypeOK'
    BY <1>1, Zenon DEF vars, PoolInv, PoolTypeOK
  <2>2. RevocationFinal' /\ \A i \in Ids : Settled(i)'
    BY <1>1, NetStep DEF vars
  <2> QED BY <2>1, <2>2 DEF PoolInv
<1> QED BY <1>1, EditKeeps, TickKeeps, BeaconKeeps, DigestKeeps, BucketsKeeps, SyncKeeps, LoseKeeps
        DEF Next, Deliver

(* For any number of nodes, clients and sessions, any bounds and any clocks
   that differ by less than a tombstone's life: a node that has held a
   tombstone never again holds the client live, whatever stale copies are
   delayed, lost or reordered, and whoever reaps first (merge_from_json). *)
THEOREM RevocationIsFinal == Spec => [](PoolTypeOK /\ RevocationFinal)
<1>1. PoolInv => PoolTypeOK /\ RevocationFinal
  BY DEF PoolInv
<1> QED BY PoolInit, PoolStep, <1>1, PTL DEF Spec

-----------------------------------------------------------------------------
(* The dials of a node *)

RequestTypes ==
  /\ exit \in [Clients -> Choices] /\ global \in Choices
  /\ task \in [Workers -> DialTask] /\ changes \in 0..MaxChanges

DialerTypes ==
  /\ runtime \subseteq dialed /\ dialed \subseteq Addrs /\ Startup \subseteq dialed \ runtime
  /\ gen \in [Addrs -> Nat] /\ sender \in [Addrs -> Nat]
  /\ loop \in [Started -> Phases] /\ stopped \subseteq Started

Phase(a, g) == loop[<<a, g>>]
Ended(a, g) == <<a, g>> \in stopped

(* The loops of an address were started one after the other, and all but the
   latest were told to stop; the latest one too when the address is not dialed. *)
Generations ==
  /\ \A a \in dialed : gen[a] >= 1
  /\ \A a \in Addrs : \A g \in 1..gen[a] :
       /\ Ended(a, g) <=> g < gen[a] \/ a \notin dialed
       /\ Phase(a, g) = "done" => Ended(a, g)

(* What is registered is the latest loop's, and a live one is registered. *)
Registered ==
  \A a \in Addrs :
    /\ sender[a] # 0 => a \in dialed /\ sender[a] = gen[a]
    /\ \A g \in 1..gen[a] : Phase(a, g) = "live" /\ ~Ended(a, g) => sender[a] = g

Shown == connected \in [Addrs -> BOOLEAN] /\ StatusTracksSender

DialerInv == DialerTypes /\ Generations /\ Registered /\ Shown

(* A packet of a client without an exit goes where the node's exit was. *)
Forwarding ==
  /\ cache \in [Clients -> Choices \union {Miss}] /\ pkt \in Packet
  /\ pkt.at = "decided" /\ pkt.own = {} => pkt.to = pkt.had /\ ~pkt.fallback
  /\ NodeExitNotBypassed

DialInv == RequestTypes /\ DialerInv /\ Forwarding

LEMMA StartedPair ==
  ASSUME gen \in [Addrs -> Nat]
  PROVE  /\ \A a \in Addrs : \A g \in 1..gen[a] : <<a, g>> \in Started
         /\ \A l \in Started : \E a \in Addrs : \E g \in 1..gen[a] :
              l = <<a, g>> /\ l[1] = a /\ l[2] = g
         /\ \A a, g : <<a, g>> \in Started => a \in Addrs /\ g \in 1..gen[a]
BY DEF Started

LEMMA DialTyped == DialInv => DialTypeOK
BY Zenon DEF DialInv, RequestTypes, DialerInv, DialerTypes, Shown, Forwarding, DialTypeOK

(* The invariant says what the dialer is for. *)
LEMMA DialInvMeans == DialInv => ExitsSound
<1> SUFFICES ASSUME DialInv PROVE ExitsSound
  OBVIOUS
<1>1. DialerTypes /\ Generations /\ Registered /\ gen \in [Addrs -> Nat] /\ DOMAIN loop = Started
  BY Zenon DEF DialInv, DialerInv, DialerTypes
<1>2. SenderCurrent
  <2> SUFFICES ASSUME NEW a \in Addrs, sender[a] # 0
               PROVE  a \in dialed /\ sender[a] = gen[a] /\ <<a, sender[a]>> \notin stopped
    BY DEF SenderCurrent
  <2>1. a \in dialed /\ sender[a] = gen[a]
    BY <1>1, Zenon DEF Registered
  <2>2. gen[a] \in 1..gen[a] /\ ~(gen[a] < gen[a])
    BY <1>1, <2>1 DEF Generations
  <2>3. ~Ended(a, gen[a])
    BY <1>1, <2>1, <2>2, Zenon DEF Generations
  <2>4. QED
    BY <2>1, <2>3, Zenon DEF Ended
<1>3. LiveReachable
  <2> SUFFICES ASSUME NEW l \in Started, loop[l] = "live", l \notin stopped
               PROVE  sender[l[1]] = l[2]
    BY <1>1, Zenon DEF LiveReachable
  <2>1. PICK a \in Addrs : \E g \in 1..gen[a] : l = <<a, g>> /\ l[1] = a /\ l[2] = g
    BY <1>1, StartedPair, Zenon
  <2>2. PICK g \in 1..gen[a] : l = <<a, g>> /\ l[1] = a /\ l[2] = g
    BY <2>1, Zenon
  <2>3. QED
    BY <1>1, <2>2, Zenon DEF Registered, Phase, Ended
<1>4. OneLoopEach
  <2>1. Startup \subseteq dialed
    BY <1>1 DEF DialerTypes
  <2>2. ASSUME NEW a \in Addrs
        PROVE  {g \in 1..gen[a] : Phase(a, g) # "done" /\ ~Ended(a, g)}
                 = IF a \in dialed THEN {gen[a]} ELSE {}
    <3>1. gen[a] \in Nat /\ (a \in dialed => gen[a] >= 1)
      BY <1>1 DEF Generations
    <3>2. \A g \in 1..gen[a] : Phase(a, g) # "done" /\ ~Ended(a, g) <=> a \in dialed /\ g = gen[a]
      BY <1>1, <3>1 DEF Generations
    <3>3. QED
      BY <3>1, <3>2
  <2>3. QED
    BY <2>1, <2>2, Zenon DEF OneLoopEach, Phase, Ended
<1>5. QED
  BY <1>2, <1>3, <1>4, DialTyped, Zenon DEF ExitsSound, DialInv, DialerInv, Shown, Forwarding

-----------------------------------------------------------------------------
LEMMA RestTask == AtRest \in DialTask
BY DEF AtRest, DialTask

LEMMA DialsInitHolds == DialsInit => DialInv
<1> SUFFICES ASSUME DialsInit PROVE DialInv
  OBVIOUS
<1>1. MaxChanges \in Nat /\ Startup \subseteq Addrs
  BY DialsAssumption
<1>2. RequestTypes
  BY <1>1, RestTask DEF DialsInit, RequestTypes, Choices
<1>3. /\ gen \in [Addrs -> Nat] /\ sender \in [Addrs -> Nat]
      /\ \A a \in Addrs : (gen[a] = IF a \in Startup THEN 1 ELSE 0) /\ sender[a] = 0
  BY DEF DialsInit
<1>4. Started = Startup \X {1}
  <2>1. \A a \in Addrs : \A g : g \in 1..gen[a] <=> a \in Startup /\ g = 1
    BY <1>3
  <2>2. \A l : l \in Started <=> \E a \in Addrs : l \in {a} \X (1..gen[a])
    BY DEF Started
  <2>3. \A l : l \in Started <=> l \in Startup \X {1}
    BY <1>1, <2>1, <2>2
  <2>4. QED
    BY <2>3
<1>5. DialerTypes
  BY <1>1, <1>3, <1>4 DEF DialsInit, DialerTypes, Phases
<1>6. \A a \in Addrs : \A g \in 1..gen[a] : a \in Startup /\ g = 1 /\ Phase(a, g) = "dial" /\ ~Ended(a, g)
  BY <1>3 DEF DialsInit, Phase, Ended
<1>7. Generations
  <2>1. dialed = Startup /\ \A a \in dialed : a \in Addrs /\ gen[a] = 1
    BY <1>1, <1>3 DEF DialsInit
  <2>2. \A a \in dialed : gen[a] >= 1 /\ ~(1 < gen[a])
    BY <2>1
  <2>3. QED
    BY <1>6, <2>1, <2>2, Zenon DEF Generations, Phase
<1>8. Registered
  BY <1>3, <1>6 DEF Registered
<1>9. Shown
  BY Zenon DEF DialsInit, Shown, StatusTracksSender
<1>10. Forwarding
  <2>1. NoPkt \in Packet /\ NoPkt.at = "none"
    BY Zenon DEF NoPkt, Packet, Choices
  <2>2. pkt = NoPkt /\ cache \in [Clients -> Choices \union {Miss}]
    BY Zenon DEF DialsInit
  <2>3. QED
    BY <2>1, <2>2, Zenon DEF Forwarding, NodeExitNotBypassed
<1>11. QED
  BY <1>2, <1>5, <1>7, <1>8, <1>9, <1>10, Zenon DEF DialInv, DialerInv

-----------------------------------------------------------------------------
(* Requests *)

LEMMA DialerStays == DialerInv /\ UNCHANGED dialer => DialerInv'
<1> SUFFICES ASSUME DialerInv, UNCHANGED dialer PROVE DialerInv'
  OBVIOUS
<1>1. /\ dialed' = dialed /\ runtime' = runtime /\ gen' = gen /\ stopped' = stopped
      /\ loop' = loop /\ sender' = sender /\ connected' = connected
  BY Zenon DEF dialer
<1>2. Started' = Started
  BY <1>1, Zenon DEF Started
<1>3. DialerTypes'
  BY <1>1, <1>2, Zenon DEF DialerInv, DialerTypes
<1>4. Generations'
  BY <1>1, Zenon DEF DialerInv, Generations, Phase, Ended
<1>5. Registered'
  BY <1>1, Zenon DEF DialerInv, Registered, Phase, Ended
<1>6. QED
  BY <1>1, <1>3, <1>4, <1>5, Zenon DEF DialerInv, Shown, StatusTracksSender

LEMMA ForwardingStays == Forwarding /\ UNCHANGED packet => Forwarding'
BY Zenon DEF Forwarding, packet, NodeExitNotBypassed

(* A request that goes on. *)
LEMMA RequestGoesOn ==
  ASSUME DialInv, NEW w \in Workers, NEW t \in DialTask, task' = [task EXCEPT ![w] = t],
         exit' = exit, global' = global, changes' = changes, DialerInv', Forwarding'
  PROVE  DialInv'
<1>1. task' \in [Workers -> DialTask]
  BY DEF DialInv, RequestTypes
<1>2. QED
  BY <1>1, Zenon DEF DialInv, RequestTypes

(* A change of exits begins a request. *)
LEMMA RequestBegins ==
  ASSUME DialInv, NEW w \in Workers, NEW t \in DialTask, task' = [task EXCEPT ![w] = t],
         changes < MaxChanges, changes' = changes + 1,
         exit' \in [Clients -> Choices], global' \in Choices,
         UNCHANGED dialer, UNCHANGED packet
  PROVE  DialInv'
<1>1. task' \in [Workers -> DialTask]
  BY DEF DialInv, RequestTypes
<1>2. changes' \in 0..MaxChanges
  BY DialsAssumption DEF DialInv, RequestTypes
<1>3. QED
  BY <1>1, <1>2, DialerStays, ForwardingStays, Zenon DEF DialInv, RequestTypes

LEMMA ChangeHolds ==
  ASSUME DialInv, NEW w \in Workers, NEW c \in Clients, NEW e \in Choices, NEW m \in Modes,
         ChangeExit(w, c, e, m)
  PROVE  DialInv'
<1> DEFINE t == [AtRest EXCEPT !.at = IF m = "mgmt" THEN "edited" ELSE "clear", !.mode = m]
<1>1. t \in DialTask
  BY Zenon DEF AtRest, DialTask
<1>2. exit' \in [Clients -> Choices] /\ global' \in Choices
  BY DEF ChangeExit, DialInv, RequestTypes
<1>3. task' = [task EXCEPT ![w] = t] /\ changes < MaxChanges /\ changes' = changes + 1
  BY DEF ChangeExit
<1>4. UNCHANGED dialer /\ UNCHANGED packet
  BY Zenon DEF ChangeExit
<1> HIDE DEF t
<1>5. QED
  BY <1>1, <1>2, <1>3, <1>4, RequestBegins, Zenon

LEMMA SwapHolds ==
  ASSUME DialInv, NEW w \in Workers, NEW e \in Choices, SwapGlobal(w, e)
  PROVE  DialInv'
<1> DEFINE t == [AtRest EXCEPT !.at = "swap", !.mode = "mgmt", !.todo = e]
<1>1. t \in DialTask
  <2>1. e \in SUBSET Addrs
    BY DEF Choices
  <2>2. QED
    BY <2>1, Zenon DEF AtRest, DialTask
<1>2. exit' \in [Clients -> Choices] /\ global' \in Choices
  BY DEF SwapGlobal, DialInv, RequestTypes
<1>3. task' = [task EXCEPT ![w] = t] /\ changes < MaxChanges /\ changes' = changes + 1
  BY DEF SwapGlobal
<1>4. UNCHANGED dialer /\ UNCHANGED packet
  BY Zenon DEF SwapGlobal
<1> HIDE DEF t
<1>5. QED
  BY <1>1, <1>2, <1>3, <1>4, RequestBegins, Zenon

LEMMA CacheClearHolds ==
  ASSUME DialInv, NEW w \in Workers, ClearCache(w)
  PROVE  DialInv'
<1> DEFINE t == IF task[w].mode \in {"mgmt", "reload"} THEN AtRest ELSE [task[w] EXCEPT !.at = "edited"]
<1>1. task[w] \in DialTask /\ task[w].at = "clear"
  BY DEF ClearCache, DialInv, RequestTypes
<1>2. t \in DialTask
  <2>1. CASE task[w].mode \in {"mgmt", "reload"}
    BY <2>1, RestTask, Zenon
  <2>2. CASE task[w].mode \notin {"mgmt", "reload"}
    BY <1>1, <2>2 DEF DialTask
  <2>3. QED
    BY <2>1, <2>2, Zenon
<1>3. task' = [task EXCEPT ![w] = t]
  BY DEF ClearCache, DialInv, RequestTypes
<1>4. UNCHANGED dialer /\ exit' = exit /\ global' = global /\ changes' = changes
  BY Zenon DEF ClearCache
<1>5. Forwarding'
  <2>1. cache' \in [Clients -> Choices \union {Miss}] /\ pkt' = pkt
    BY DEF ClearCache
  <2>2. QED
    BY <2>1, Zenon DEF DialInv, Forwarding, NodeExitNotBypassed
<1> HIDE DEF t
<1>6. QED
  BY <1>2, <1>3, <1>4, <1>5, DialerStays, RequestGoesOn, Zenon DEF DialInv

LEMMA ListHolds ==
  ASSUME DialInv, NEW w \in Workers, ListClients(w)
  PROVE  DialInv'
<1> DEFINE t == [task[w] EXCEPT !.at = "listed", !.snap = Referenced]
<1>1. task[w] \in DialTask /\ task[w].at \in {"edited", "swap"}
  BY DEF ListClients, DialInv, RequestTypes
<1>2. Referenced \in SUBSET Addrs
  <2>1. \A c \in Clients : exit[c] \in SUBSET Addrs
    BY DEF DialInv, RequestTypes, Choices
  <2>2. QED
    BY <2>1 DEF Referenced
<1>3. t \in DialTask
  BY <1>1, <1>2, Zenon DEF DialTask
<1>4. task' = [task EXCEPT ![w] = t]
  BY Zenon DEF ListClients, DialInv, RequestTypes
<1>5. UNCHANGED dialer /\ exit' = exit /\ global' = global /\ changes' = changes /\ Forwarding'
  BY ForwardingStays, Zenon DEF ListClients, DialInv
<1> HIDE DEF t
<1>6. QED
  BY <1>3, <1>4, <1>5, DialerStays, RequestGoesOn, Zenon DEF DialInv

LEMMA MissingHolds ==
  ASSUME DialInv, NEW w \in Workers, FindMissing(w)
  PROVE  DialInv'
<1> DEFINE t == [task[w] EXCEPT !.at = "add", !.todo = task[w].snap \ dialed]
<1>1. task[w] \in DialTask /\ task[w].at = "listed"
  BY DEF FindMissing, DialInv, RequestTypes
<1>2. t \in DialTask
  BY <1>1, Zenon DEF DialTask
<1>3. task' = [task EXCEPT ![w] = t]
  BY Zenon DEF FindMissing, DialInv, RequestTypes
<1>4. UNCHANGED dialer /\ exit' = exit /\ global' = global /\ changes' = changes /\ Forwarding'
  BY ForwardingStays, Zenon DEF FindMissing, DialInv
<1> HIDE DEF t
<1>5. QED
  BY <1>2, <1>3, <1>4, DialerStays, RequestGoesOn, Zenon DEF DialInv

LEMMA UnusedHolds ==
  ASSUME DialInv, NEW w \in Workers, FindUnused(w)
  PROVE  DialInv'
<1> DEFINE u == runtime \ (task[w].snap \union global)
           t == IF task[w].mode = "merge" THEN AtRest
                ELSE [task[w] EXCEPT !.at = "prune", !.todo = u]
<1>1. task[w] \in DialTask /\ task[w].at = "add" /\ runtime \subseteq Addrs
  BY DEF FindUnused, DialInv, RequestTypes, DialerInv, DialerTypes
<1>2. t \in DialTask
  <2>1. CASE task[w].mode = "merge"
    BY <2>1, RestTask, Zenon
  <2>2. CASE task[w].mode # "merge"
    BY <1>1, <2>2, Zenon DEF DialTask
  <2>3. QED
    BY <2>1, <2>2, Zenon
<1>3. task' = [task EXCEPT ![w] = t]
  BY DEF FindUnused, DialInv, RequestTypes
<1>4. UNCHANGED dialer /\ exit' = exit /\ global' = global /\ changes' = changes /\ Forwarding'
  BY ForwardingStays, Zenon DEF FindUnused, DialInv
<1> HIDE DEF t
<1>5. QED
  BY <1>2, <1>3, <1>4, DialerStays, RequestGoesOn, Zenon DEF DialInv

LEMMA DoneHolds ==
  ASSUME DialInv, NEW w \in Workers, RequestDone(w)
  PROVE  DialInv'
<1> DEFINE c == [AtRest EXCEPT !.at = "clear", !.mode = "mgmt"]
           t == IF task[w].mode = "mgmt" THEN c ELSE AtRest
<1>1. c \in DialTask
  BY Zenon DEF AtRest, DialTask
<1>2. t \in DialTask
  BY <1>1, RestTask, Zenon
<1>3. task' = [task EXCEPT ![w] = t]
  BY DEF RequestDone, DialInv, RequestTypes
<1>4. UNCHANGED dialer /\ exit' = exit /\ global' = global /\ changes' = changes /\ Forwarding'
  BY ForwardingStays, Zenon DEF RequestDone, DialInv
<1> HIDE DEF t
<1>5. QED
  BY <1>2, <1>3, <1>4, DialerStays, RequestGoesOn, Zenon DEF DialInv

-----------------------------------------------------------------------------
(* Loops are started, told to stop, and run *)

(* What changing one loop does to the loops. *)
LEMMA LoopAt ==
  ASSUME DialerTypes, NEW a \in Addrs, NEW g \in 1..gen[a], NEW x \in Phases,
         loop' = [loop EXCEPT ![<<a, g>>] = x], gen' = gen
  PROVE  /\ loop' \in [Started' -> Phases] /\ Started' = Started /\ Phase(a, g)' = x
         /\ \A b \in Addrs : \A h \in 1..gen[b] : b # a \/ h # g => Phase(b, h)' = Phase(b, h)
<1>1. \A b \in Addrs : \A h \in 1..gen[b] : <<b, h>> \in Started
  BY StartedPair, Zenon DEF DialerTypes
<1>2. \A b, h : b # a \/ h # g => <<b, h>> # <<a, g>>
  OBVIOUS
<1>3. loop' \in [Started -> Phases] /\ loop'[<<a, g>>] = x
      /\ \A l \in Started : l # <<a, g>> => loop'[l] = loop[l]
  BY <1>1 DEF DialerTypes
<1>4. Started' = Started
  BY Zenon DEF Started
<1>5. QED
  BY <1>1, <1>2, <1>3, <1>4, Zenon DEF Phase

(* A new loop is one more, at the start. *)
LEMMA NewLoop ==
  ASSUME DialerTypes, NEW a \in Addrs, NEW g \in Nat, g = gen[a] + 1,
         gen' = [gen EXCEPT ![a] = g],
         loop' = [l \in DOMAIN loop \union {<<a, g>>} |-> IF l \in DOMAIN loop THEN loop[l] ELSE "dial"]
  PROVE  /\ gen' \in [Addrs -> Nat] /\ gen'[a] = g /\ \A b \in Addrs : b # a => gen'[b] = gen[b]
         /\ loop' \in [Started' -> Phases] /\ Started \subseteq Started'
         /\ Phase(a, g)' = "dial" /\ <<a, g>> \notin Started
         /\ \A b \in Addrs : \A h \in 1..gen[b] : Phase(b, h)' = Phase(b, h)
<1>1. gen \in [Addrs -> Nat] /\ loop \in [Started -> Phases] /\ DOMAIN loop = Started
  BY DEF DialerTypes
<1>2. gen' \in [Addrs -> Nat] /\ gen'[a] = g /\ \A b \in Addrs : b # a => gen'[b] = gen[b]
  BY <1>1
<1>3. <<a, g>> \notin Started
  <2>1. g \notin 1..gen[a]
    BY <1>1
  <2>2. QED
    BY <1>1, <2>1, StartedPair, Zenon
<1>4. Started' = Started \union {<<a, g>>}
  <2>1. \A l : l \in Started <=> \E b \in Addrs : l \in {b} \X (1..gen[b])
    BY DEF Started
  <2>2. \A l : l \in Started' <=> \E b \in Addrs : l \in {b} \X (1..gen'[b])
    BY DEF Started
  <2>3. 1..gen'[a] = (1..gen[a]) \union {g}
    BY <1>1, <1>2
  <2>4. \A b \in Addrs : b # a => 1..gen'[b] = 1..gen[b]
    BY <1>2, Zenon
  <2>5. {a} \X (1..gen'[a]) = ({a} \X (1..gen[a])) \union {<<a, g>>}
    BY <2>3
  <2>6. \A l : l \in Started' <=> l \in Started \union {<<a, g>>}
    BY <2>1, <2>2, <2>4, <2>5, Zenon
  <2>7. QED
    BY <2>6, Zenon
<1>5. "dial" \in Phases
  BY DEF Phases
<1>6. /\ loop' \in [Started' -> Phases] /\ loop'[<<a, g>>] = "dial"
      /\ \A l \in Started : loop'[l] = loop[l]
  BY <1>1, <1>3, <1>4, <1>5
<1>7. \A b \in Addrs : \A h \in 1..gen[b] : <<b, h>> \in Started
  BY <1>1, StartedPair, Zenon
<1>8. QED
  BY <1>2, <1>3, <1>4, <1>6, <1>7, Zenon DEF Phase

LEMMA SpawnHolds ==
  ASSUME DialerInv, NEW a \in Addrs, a \notin dialed, spawn_dial_loop(a, TRUE)
  PROVE  DialerInv'
<1>1. DialerTypes /\ Generations /\ Registered /\ gen[a] \in Nat
  BY DEF DialerInv, DialerTypes
<1>2. PICK g \in Nat : g = gen[a] + 1
  BY <1>1
<1>3. /\ dialed' = dialed \union {a} /\ runtime' = runtime \union {a}
      /\ gen' = [gen EXCEPT ![a] = g]
      /\ loop' = [l \in DOMAIN loop \union {<<a, g>>} |-> IF l \in DOMAIN loop THEN loop[l] ELSE "dial"]
      /\ stopped' = stopped /\ sender' = sender /\ connected' = connected
  BY <1>2, Zenon DEF spawn_dial_loop
<1>4. /\ gen' \in [Addrs -> Nat] /\ gen'[a] = g /\ \A b \in Addrs : b # a => gen'[b] = gen[b]
      /\ loop' \in [Started' -> Phases] /\ Started \subseteq Started'
      /\ Phase(a, g)' = "dial" /\ <<a, g>> \notin Started
      /\ \A b \in Addrs : \A h \in 1..gen[b] : Phase(b, h)' = Phase(b, h)
  BY <1>1, <1>2, <1>3, NewLoop, Zenon
<1>5. (\A b, h : Ended(b, h)' <=> Ended(b, h)) /\ ~Ended(a, g)
  BY <1>1, <1>3, <1>4, Zenon DEF Ended, DialerTypes
<1>6. DialerTypes'
  <2>1. /\ runtime' \subseteq dialed' /\ dialed' \subseteq Addrs /\ Startup \subseteq dialed' \ runtime'
        /\ sender' \in [Addrs -> Nat] /\ stopped' \subseteq Started'
    BY <1>1, <1>3, <1>4, Zenon DEF DialerTypes
  <2>2. QED
    BY <1>4, <2>1, Zenon DEF DialerTypes
<1>7. \A h : h \in 1..gen'[a] => h = g \/ (h \in 1..gen[a] /\ h < gen'[a])
  BY <1>1, <1>2, <1>4
<1>8. g \in 1..gen'[a] /\ ~(g < gen'[a]) /\ gen'[a] >= 1
  BY <1>1, <1>2, <1>4
<1>9. Generations'
  <2>1. \A b \in dialed' : gen'[b] >= 1
    BY <1>1, <1>3, <1>4, <1>8, Zenon DEF Generations, DialerTypes
  <2>2. ASSUME NEW b \in Addrs, NEW h \in 1..gen'[b]
        PROVE  /\ Ended(b, h)' <=> h < gen'[b] \/ b \notin dialed'
               /\ Phase(b, h)' = "done" => Ended(b, h)'
    <3>1. CASE b # a
      BY <1>1, <1>3, <1>4, <1>5, <3>1, Zenon DEF Generations
    <3>2. CASE b = a /\ h = g
      BY <1>3, <1>4, <1>5, <1>8, <3>2, Zenon
    <3>3. CASE b = a /\ h # g
      BY <1>1, <1>3, <1>4, <1>5, <1>7, <3>3, Zenon DEF Generations
    <3>4. QED
      BY <3>1, <3>2, <3>3, Zenon
  <2>3. QED
    BY <2>1, <2>2, Zenon DEF Generations
<1>10. Registered'
  <2>1. ASSUME NEW b \in Addrs
        PROVE  /\ sender'[b] # 0 => b \in dialed' /\ sender'[b] = gen'[b]
               /\ \A h \in 1..gen'[b] : Phase(b, h)' = "live" /\ ~Ended(b, h)' => sender'[b] = h
    <3>1. CASE b # a
      BY <1>1, <1>3, <1>4, <1>5, <3>1, Zenon DEF Registered
    <3>2. CASE b = a
      <4>1. sender'[a] = 0
        BY <1>1, <1>3, Zenon DEF Registered
      <4>2. ASSUME NEW h \in 1..gen'[a], Phase(a, h)' = "live", ~Ended(a, h)' PROVE FALSE
        <5>1. h # g
          BY <1>4, <4>2
        <5>2. h \in 1..gen[a] /\ ~Ended(a, h)
          BY <1>5, <1>7, <4>2, <5>1, Zenon
        <5>3. QED
          BY <1>1, <5>2, Zenon DEF Generations
      <4>3. QED
        BY <3>2, <4>1, <4>2, Zenon
    <3>3. QED
      BY <3>1, <3>2, Zenon
  <2>2. QED
    BY <2>1, Zenon DEF Registered
<1>11. Shown'
  BY <1>3, Zenon DEF DialerInv, Shown, StatusTracksSender
<1>12. QED
  BY <1>6, <1>9, <1>10, <1>11, Zenon DEF DialerInv

LEMMA RemoveHolds ==
  ASSUME DialerInv, NEW a \in runtime, remove_peer(a)
  PROVE  DialerInv'
<1>1. /\ DialerTypes /\ Generations /\ Registered /\ gen[a] \in Nat
      /\ a \in Addrs /\ a \in dialed /\ a \notin Startup
  BY DEF DialerInv, DialerTypes
<1>2. /\ dialed' = dialed \ {a} /\ runtime' = runtime \ {a}
      /\ stopped' = stopped \union {<<a, gen[a]>>}
      /\ sender' = [sender EXCEPT ![a] = 0] /\ connected' = [connected EXCEPT ![a] = FALSE]
      /\ gen' = gen /\ loop' = loop
  BY Zenon DEF remove_peer
<1>3. gen[a] \in 1..gen[a] /\ \A h \in 1..gen[a] : h = gen[a] \/ h < gen[a]
  BY <1>1 DEF Generations
<1>4. /\ sender' \in [Addrs -> Nat] /\ sender'[a] = 0
      /\ \A b \in Addrs : b # a => sender'[b] = sender[b]
  BY <1>1, <1>2 DEF DialerTypes
<1>5. \A b, h : Ended(b, h)' <=> Ended(b, h) \/ (b = a /\ h = gen[a])
  BY <1>2 DEF Ended
<1>6. \A b, h : Phase(b, h)' = Phase(b, h)
  BY <1>2, Zenon DEF Phase
<1>7. DialerTypes'
  <2>1. <<a, gen[a]>> \in Started /\ Started' = Started
    <3>1. <<a, gen[a]>> \in Started
      BY <1>1, <1>3, StartedPair, Zenon DEF DialerTypes
    <3>2. Started' = Started
      BY <1>2, Zenon DEF Started
    <3>3. QED
      BY <3>1, <3>2
  <2>2. /\ runtime' \subseteq dialed' /\ dialed' \subseteq Addrs /\ Startup \subseteq dialed' \ runtime'
        /\ stopped' \subseteq Started' /\ loop' \in [Started' -> Phases] /\ gen' \in [Addrs -> Nat]
    BY <1>1, <1>2, <2>1 DEF DialerTypes
  <2>3. QED
    BY <1>4, <2>2, Zenon DEF DialerTypes
<1>8. Generations'
  <2>1. \A b \in dialed' : gen'[b] >= 1
    BY <1>1, <1>2, Zenon DEF Generations
  <2>2. ASSUME NEW b \in Addrs, NEW h \in 1..gen'[b]
        PROVE  /\ Ended(b, h)' <=> h < gen'[b] \/ b \notin dialed'
               /\ Phase(b, h)' = "done" => Ended(b, h)'
    <3>1. /\ Ended(b, h) <=> h < gen[b] \/ b \notin dialed
          /\ Phase(b, h) = "done" => Ended(b, h)
      BY <1>1, <1>2, Zenon DEF Generations
    <3>2. CASE b = a
      <4>1. Ended(a, h) \/ h = gen[a]
        BY <1>2, <1>3, <3>1, <3>2, Zenon
      <4>2. QED
        BY <1>2, <1>5, <3>2, <4>1, Zenon
    <3>3. CASE b # a
      BY <1>2, <1>5, <1>6, <3>1, <3>3, Zenon
    <3>4. QED
      BY <3>2, <3>3, Zenon
  <2>3. QED
    BY <2>1, <2>2, Zenon DEF Generations
<1>9. Registered'
  <2>1. ASSUME NEW b \in Addrs
        PROVE  /\ sender'[b] # 0 => b \in dialed' /\ sender'[b] = gen'[b]
               /\ \A h \in 1..gen'[b] : Phase(b, h)' = "live" /\ ~Ended(b, h)' => sender'[b] = h
    <3>1. CASE b # a
      BY <1>1, <1>2, <1>4, <1>5, <1>6, <3>1, Zenon DEF Registered
    <3>2. CASE b = a
      <4>1. \A h \in 1..gen'[a] : Ended(a, h)'
        BY <1>1, <1>2, <1>3, <1>5, Zenon DEF Generations
      <4>2. QED
        BY <1>4, <3>2, <4>1, Zenon
    <3>3. QED
      BY <3>1, <3>2, Zenon
  <2>2. QED
    BY <2>1, Zenon DEF Registered
<1>10. Shown'
  <2>1. /\ connected' \in [Addrs -> BOOLEAN] /\ ~connected'[a]
        /\ \A b \in Addrs : b # a => (connected'[b] <=> connected[b])
    BY <1>1, <1>2, Zenon DEF DialerInv, Shown
  <2>2. QED
    BY <1>4, <2>1, Zenon DEF DialerInv, Shown, StatusTracksSender
<1>11. QED
  BY <1>7, <1>8, <1>9, <1>10, Zenon DEF DialerInv

(* A dial that is added or removed, and the request that does it. *)
LEMMA AddHolds ==
  ASSUME DialInv, NEW w \in Workers, NEW a \in Addrs, AddPeer(w, a)
  PROVE  DialInv'
<1> DEFINE t == [task[w] EXCEPT !.todo = @ \ {a}]
<1>1. RequestTypes /\ DialerInv /\ Forwarding
  BY Zenon DEF DialInv
<1>2. t \in DialTask /\ task' = [task EXCEPT ![w] = t]
  BY <1>1 DEF AddPeer, RequestTypes, DialTask
<1>3. spawn_dial_loop(a, TRUE) /\ exit' = exit /\ global' = global /\ changes' = changes /\ Forwarding'
  BY <1>1, ForwardingStays, Zenon DEF AddPeer
<1>4. DialerInv'
  <2>1. CASE a \in dialed
    BY <1>1, <1>3, <2>1, DialerStays, Zenon DEF spawn_dial_loop
  <2>2. CASE a \notin dialed
    BY <1>1, <1>3, <2>2, SpawnHolds, Zenon
  <2>3. QED
    BY <2>1, <2>2, Zenon
<1> HIDE DEF t
<1>5. QED
  BY <1>2, <1>3, <1>4, RequestGoesOn, Zenon

LEMMA RemoveUnusedHolds ==
  ASSUME DialInv, NEW w \in Workers, NEW a \in Addrs, RemoveUnused(w, a)
  PROVE  DialInv'
<1> DEFINE t == [task[w] EXCEPT !.todo = @ \ {a}]
<1>1. RequestTypes /\ DialerInv /\ Forwarding
  BY Zenon DEF DialInv
<1>2. t \in DialTask /\ task' = [task EXCEPT ![w] = t]
  BY <1>1 DEF RemoveUnused, RequestTypes, DialTask
<1>3. remove_peer(a) /\ exit' = exit /\ global' = global /\ changes' = changes /\ Forwarding'
  BY <1>1, ForwardingStays, Zenon DEF RemoveUnused
<1>4. DialerInv'
  <2>1. CASE a \notin runtime
    BY <1>1, <1>3, <2>1, DialerStays, Zenon DEF remove_peer
  <2>2. CASE a \in runtime
    BY <1>1, <1>3, <2>2, RemoveHolds, Zenon
  <2>3. QED
    BY <2>1, <2>2, Zenon
<1> HIDE DEF t
<1>5. QED
  BY <1>2, <1>3, <1>4, RequestGoesOn, Zenon

(* A loop that goes on is still the loop it was. *)
LEMMA LoopMoves ==
  ASSUME DialerInv, NEW a \in Addrs, NEW g \in 1..gen[a], NEW x \in Phases,
         x = "done" => Ended(a, g),
         loop' = [loop EXCEPT ![<<a, g>>] = x],
         dialed' = dialed, runtime' = runtime, gen' = gen, stopped' = stopped,
         sender' \in [Addrs -> Nat]
  PROVE  DialerTypes' /\ Generations'
<1>1. DialerTypes /\ Generations
  BY Zenon DEF DialerInv
<1>2. /\ loop' \in [Started' -> Phases] /\ Started' = Started /\ Phase(a, g)' = x
      /\ \A b \in Addrs : \A h \in 1..gen[b] : b # a \/ h # g => Phase(b, h)' = Phase(b, h)
  BY <1>1, LoopAt, Zenon
<1>3. \A b, h : Ended(b, h)' <=> Ended(b, h)
  BY Zenon DEF Ended
<1>4. DialerTypes'
  BY <1>1, <1>2, Zenon DEF DialerTypes
<1>5. ASSUME NEW b \in Addrs, NEW h \in 1..gen'[b]
      PROVE  /\ Ended(b, h)' <=> h < gen'[b] \/ b \notin dialed'
             /\ Phase(b, h)' = "done" => Ended(b, h)'
  <2>1. /\ Ended(b, h) <=> h < gen[b] \/ b \notin dialed
        /\ Phase(b, h) = "done" => Ended(b, h)
    BY <1>1, Zenon DEF Generations
  <2>2. CASE b # a \/ h # g
    BY <1>2, <1>3, <2>1, <2>2, Zenon
  <2>3. CASE b = a /\ h = g
    BY <1>2, <1>3, <2>1, <2>3, Zenon
  <2>4. QED
    BY <2>2, <2>3, Zenon
<1>6. QED
  BY <1>1, <1>4, <1>5, Zenon DEF Generations

(* A step of a loop that registers nothing, and forgets at most its own session. *)
LEMMA LoopKeeps ==
  ASSUME DialerInv, NEW a \in Addrs, NEW g \in 1..gen[a], NEW x \in Phases,
         x # "live", x = "done" => Ended(a, g),
         loop' = [loop EXCEPT ![<<a, g>>] = x],
         dialed' = dialed, runtime' = runtime, gen' = gen, stopped' = stopped,
         \/ sender' = sender
         \/ sender[a] = g /\ sender' = [sender EXCEPT ![a] = 0],
         Shown'
  PROVE  DialerInv'
<1>1. DialerTypes /\ Registered
  BY Zenon DEF DialerInv
<1>2. /\ sender' \in [Addrs -> Nat]
      /\ \A b \in Addrs : sender'[b] = sender[b] \/ (b = a /\ sender[a] = g /\ sender'[a] = 0)
  BY <1>1 DEF DialerTypes
<1>3. DialerTypes' /\ Generations'
  BY <1>2, LoopMoves, Zenon
<1>4. /\ loop' \in [Started' -> Phases] /\ Started' = Started /\ Phase(a, g)' = x
      /\ \A b \in Addrs : \A h \in 1..gen[b] : b # a \/ h # g => Phase(b, h)' = Phase(b, h)
  BY ONLY <1>1, loop' = [loop EXCEPT ![<<a, g>>] = x], gen' = gen, LoopAt, Zenon
<1>5. \A b, h : Ended(b, h)' <=> Ended(b, h)
  BY Zenon DEF Ended
<1>6. ASSUME NEW b \in Addrs
      PROVE  /\ sender'[b] # 0 => b \in dialed' /\ sender'[b] = gen'[b]
             /\ \A h \in 1..gen'[b] : Phase(b, h)' = "live" /\ ~Ended(b, h)' => sender'[b] = h
  <2>1. sender'[b] # 0 => b \in dialed' /\ sender'[b] = gen'[b]
    BY <1>1, <1>2, Zenon DEF Registered
  <2>2. ASSUME NEW h \in 1..gen'[b], Phase(b, h)' = "live", ~Ended(b, h)'
        PROVE  sender'[b] = h
    <3>1. (b # a \/ h # g) /\ Phase(b, h) = "live" /\ ~Ended(b, h)
      BY <1>4, <1>5, <2>2, Zenon
    <3>2. sender[b] = h
      BY <1>1, <3>1, Zenon DEF Registered
    <3>3. QED
      BY <1>2, <3>1, <3>2, Zenon
  <2>3. QED
    BY <2>1, <2>2, Zenon
<1>7. QED
  BY <1>3, <1>6, Zenon DEF DialerInv, Registered

(* A session that opens registers itself: it is the latest. *)
LEMMA LoopRegisters ==
  ASSUME DialerInv, NEW a \in Addrs, NEW g \in 1..gen[a], ~Ended(a, g),
         loop' = [loop EXCEPT ![<<a, g>>] = "live"],
         dialed' = dialed, runtime' = runtime, gen' = gen, stopped' = stopped,
         sender' = [sender EXCEPT ![a] = g], Shown'
  PROVE  DialerInv'
<1>1. DialerTypes /\ Generations /\ Registered
  BY Zenon DEF DialerInv
<1>2. /\ sender' \in [Addrs -> Nat] /\ sender'[a] = g
      /\ \A b \in Addrs : b # a => sender'[b] = sender[b]
  BY <1>1 DEF DialerTypes
<1>3. "live" \in Phases /\ "live" # "done"
  BY DEF Phases
<1>4. DialerTypes' /\ Generations'
  BY <1>2, <1>3, LoopMoves, Zenon
<1>5. /\ loop' \in [Started' -> Phases] /\ Started' = Started /\ Phase(a, g)' = "live"
      /\ \A b \in Addrs : \A h \in 1..gen[b] : b # a \/ h # g => Phase(b, h)' = Phase(b, h)
  BY <1>1, <1>3, LoopAt, Zenon
<1>6. \A b, h : Ended(b, h)' <=> Ended(b, h)
  BY Zenon DEF Ended
<1>7. \A h \in 1..gen[a] : ~Ended(a, h) => h = gen[a] /\ a \in dialed
  BY <1>1 DEF Generations, DialerTypes
<1>8. ASSUME NEW b \in Addrs
      PROVE  /\ sender'[b] # 0 => b \in dialed' /\ sender'[b] = gen'[b]
             /\ \A h \in 1..gen'[b] : Phase(b, h)' = "live" /\ ~Ended(b, h)' => sender'[b] = h
  <2>1. CASE b # a
    BY <1>1, <1>2, <1>5, <1>6, <2>1, Zenon DEF Registered
  <2>2. CASE b = a
    <3>1. g = gen[a] /\ a \in dialed
      BY <1>7, Zenon
    <3>2. ASSUME NEW h \in 1..gen'[a], Phase(a, h)' = "live", ~Ended(a, h)' PROVE h = g
      BY <1>3, <1>5, <1>6, <1>7, <3>1, <3>2, Zenon
    <3>3. QED
      BY <1>2, <2>2, <3>1, <3>2, Zenon
  <2>3. QED
    BY <2>1, <2>2, Zenon
<1>9. QED
  BY <1>4, <1>8, Zenon DEF DialerInv, Registered

LEMMA SetFlag ==
  ASSUME DialerInv, NEW a \in Addrs, NEW b \in BOOLEAN, connected' = [connected EXCEPT ![a] = b],
         b <=> sender'[a] # 0, \A c \in Addrs : c # a => sender'[c] = sender[c]
  PROVE  Shown'
<1>1. /\ connected' \in [Addrs -> BOOLEAN] /\ (connected'[a] <=> b)
      /\ \A c \in Addrs : c # a => (connected'[c] <=> connected[c])
  BY Zenon DEF DialerInv, Shown
<1>2. QED
  BY <1>1, Zenon DEF DialerInv, Shown, StatusTracksSender

LEMMA KeepFlag ==
  ASSUME DialerInv, connected' = connected, sender' = sender
  PROVE  Shown'
BY Zenon DEF DialerInv, Shown, StatusTracksSender

LEMMA LoopHolds ==
  ASSUME DialInv, NEW l \in DOMAIN loop, Loop(l)
  PROVE  DialInv'
<1>0. gen \in [Addrs -> Nat] /\ sender \in [Addrs -> Nat] /\ l \in Started
  BY Zenon DEF DialInv, DialerInv, DialerTypes
<1>a. PICK a \in Addrs : \E g \in 1..gen[a] : l = <<a, g>> /\ l[1] = a /\ l[2] = g
  BY <1>0, StartedPair, Zenon
<1>1. PICK g \in 1..gen[a] : l = <<a, g>> /\ l[1] = a /\ l[2] = g
  BY <1>a, Zenon
<1>2. DialerInv /\ DialerTypes /\ (loop[l] = Phase(a, g)) /\ (l \in stopped <=> Ended(a, g))
  BY <1>1, Zenon DEF DialInv, DialerInv, Phase, Ended
<1>3. Stays
  BY Zenon DEF Loop, StartSession, Promote, EndSession, Cleanup, Redial
<1>4. /\ exit' = exit /\ global' = global /\ dialed' = dialed /\ runtime' = runtime /\ gen' = gen
      /\ stopped' = stopped /\ task' = task /\ changes' = changes /\ UNCHANGED packet
  BY <1>3, Zenon DEF Stays
<1>5. {"dial", "open", "live", "closing", "backoff", "done"} \subseteq Phases
  BY DEF Phases
<1>6. ASSUME NEW x \in Phases, loop' = [loop EXCEPT ![l] = x], x # "live", x = "done" => l \in stopped,
             \/ sender' = sender
             \/ sender[a] = g /\ sender' = [sender EXCEPT ![a] = 0],
             Shown'
      PROVE  DialerInv'
  BY <1>1, <1>2, <1>4, <1>6, LoopKeeps, Zenon
<1> SUFFICES DialerInv'
  <2>1. RequestTypes'
    BY <1>4, Zenon DEF DialInv, RequestTypes
  <2>2. QED
    BY <1>4, <2>1, ForwardingStays, Zenon DEF DialInv
<1>7. CASE StartSession(l)
  <2>1. loop[l] = "dial" /\ sender' = sender
    BY <1>7, Zenon DEF StartSession
  <2>2. CASE l \in stopped
    <3>1. loop' = [loop EXCEPT ![l] = "done"] /\ connected' = connected
      BY <1>7, <2>2, Zenon DEF StartSession
    <3>2. QED
      BY <1>2, <1>5, <1>6, <2>1, <2>2, <3>1, KeepFlag, Zenon
  <2>3. CASE l \notin stopped
    <3>1. loop' = [loop EXCEPT ![l] = "open"]
      BY <1>7, <2>3, Zenon DEF StartSession
    <3>2. \/ connected' = connected
          \/ sender[a] = 0 /\ connected' = [connected EXCEPT ![a] = FALSE]
      BY <1>1, <1>7, <2>3, Zenon DEF StartSession
    <3>3. Shown'
      BY <1>2, <2>1, <3>2, KeepFlag, SetFlag, Zenon
    <3>4. QED
      BY <1>5, <1>6, <2>1, <3>1, <3>3, Zenon
  <2>4. QED
    BY <2>2, <2>3, Zenon
<1>8. CASE Promote(l)
  <2>1. loop[l] = "open"
    BY <1>8, Zenon DEF Promote
  <2>2. CASE l \in stopped
    <3>1. loop' = [loop EXCEPT ![l] = "closing"] /\ sender' = sender /\ connected' = connected
      BY <1>8, <2>2, Zenon DEF Promote
    <3>2. QED
      BY <1>2, <1>5, <1>6, <2>1, <3>1, KeepFlag, Zenon
  <2>3. CASE l \notin stopped
    <3>1. /\ loop' = [loop EXCEPT ![<<a, g>>] = "live"] /\ sender' = [sender EXCEPT ![a] = g]
          /\ connected' = [connected EXCEPT ![a] = TRUE]
      BY <1>1, <1>8, <2>3, Zenon DEF Promote
    <3>2. sender'[a] # 0 /\ \A c \in Addrs : c # a => sender'[c] = sender[c]
      <4>1. sender' = [sender EXCEPT ![a] = g]
        BY <3>1, Zenon
      <4>2. QED
        BY <1>2, <4>1 DEF DialerTypes
    <3>3. Shown'
      BY <1>2, <3>1, <3>2, SetFlag, Zenon
    <3>4. QED
      BY <1>1, <1>2, <1>4, <2>1, <2>3, <3>1, <3>3, LoopRegisters, Zenon
  <2>4. QED
    BY <2>2, <2>3, Zenon
<1>9. CASE EndSession(l)
  <2>1. loop[l] \in {"open", "live"} /\ loop' = [loop EXCEPT ![l] = "closing"]
        /\ sender' = sender /\ connected' = connected
    BY <1>9, Zenon DEF EndSession
  <2>2. QED
    BY <1>2, <1>5, <1>6, <2>1, KeepFlag, Zenon
<1>10. CASE Cleanup(l)
  <2> DEFINE x == IF l \in stopped THEN "done" ELSE "backoff"
  <2>1. loop[l] = "closing" /\ loop' = [loop EXCEPT ![l] = x]
    BY <1>10, Zenon DEF Cleanup
  <2>2. x \in Phases /\ x # "live" /\ (x = "done" => l \in stopped)
    BY <1>5, Zenon
  <2> HIDE DEF x
  <2>3. CASE sender[a] = g
    <3>1. sender' = [sender EXCEPT ![a] = 0] /\ connected' = [connected EXCEPT ![a] = FALSE]
      BY <1>1, <1>10, <2>3, Zenon DEF Cleanup
    <3>2. sender'[a] = 0 /\ \A c \in Addrs : c # a => sender'[c] = sender[c]
      <4>1. sender' = [sender EXCEPT ![a] = 0]
        BY <3>1, Zenon
      <4>2. QED
        BY <1>2, <4>1 DEF DialerTypes
    <3>3. Shown'
      BY <1>2, <3>1, <3>2, SetFlag, Zenon
    <3>4. QED
      BY <1>6, <2>1, <2>2, <2>3, <3>1, <3>3, Zenon
  <2>4. CASE sender[a] # g
    <3>1. sender' = sender /\ connected' = connected
      BY <1>1, <1>10, <2>4, Zenon DEF Cleanup
    <3>2. QED
      BY <1>2, <1>6, <2>1, <2>2, <3>1, KeepFlag, Zenon
  <2>5. QED
    BY <2>3, <2>4, Zenon
<1>11. CASE Redial(l)
  <2> DEFINE x == IF l \in stopped THEN "done" ELSE "dial"
  <2>1. loop[l] = "backoff" /\ loop' = [loop EXCEPT ![l] = x]
        /\ sender' = sender /\ connected' = connected
    BY <1>11, Zenon DEF Redial
  <2>2. x \in Phases /\ x # "live" /\ (x = "done" => l \in stopped)
    BY <1>5, Zenon
  <2> HIDE DEF x
  <2>3. QED
    BY <1>2, <1>6, <2>1, <2>2, KeepFlag, Zenon
<1>12. QED
  BY <1>7, <1>8, <1>9, <1>10, <1>11, Zenon DEF Loop

-----------------------------------------------------------------------------
(* Packets *)

(* A packet step touches the packet and the cache only. *)
LEMMA PacketFrame ==
  ASSUME DialInv, UNCHANGED <<dialer, exit, global, task, changes>>, Forwarding'
  PROVE  DialInv'
<1>1. /\ UNCHANGED dialer /\ exit' = exit /\ global' = global /\ task' = task /\ changes' = changes
  BY Zenon
<1>2. RequestTypes'
  BY <1>1, Zenon DEF DialInv, RequestTypes
<1>3. QED
  BY <1>1, <1>2, DialerStays, Zenon DEF DialInv

LEMMA ResolveHolds ==
  ASSUME DialInv, NEW c \in Clients, Resolve(c)
  PROVE  DialInv'
<1>1. cache[c] \in Choices \union {Miss} /\ exit[c] \in Choices /\ {} \in Choices
  BY Zenon DEF DialInv, Forwarding, RequestTypes, Choices
<1>2. pkt' \in Packet /\ pkt'.at \in {"resolved", "read"}
  <2>1. CASE cache[c] # Miss
    <3>1. pkt' = [NoPkt EXCEPT !.at = "resolved", !.own = cache[c]] /\ cache[c] \in Choices
      BY <1>1, <2>1, Zenon DEF Resolve
    <3>2. QED
      BY <1>1, <3>1, Zenon DEF NoPkt, Packet
  <2>2. CASE cache[c] = Miss
    <3>1. pkt' = [NoPkt EXCEPT !.at = "read", !.of = {c}, !.own = exit[c]]
      BY <2>2, Zenon DEF Resolve
    <3>2. QED
      BY <1>1, <3>1, Zenon DEF NoPkt, Packet
  <2>3. QED
    BY <2>1, <2>2
<1>3. cache' = cache /\ UNCHANGED <<dialer, exit, global, task, changes>>
  BY Zenon DEF Resolve
<1>4. Forwarding'
  BY <1>2, <1>3, Zenon DEF DialInv, Forwarding, NodeExitNotBypassed
<1>5. QED
  BY <1>3, <1>4, PacketFrame, Zenon

LEMMA FillHolds ==
  ASSUME DialInv, NEW c \in Clients, FillCache(c)
  PROVE  DialInv'
<1>1. pkt \in Packet /\ cache \in [Clients -> Choices \union {Miss}]
  BY Zenon DEF DialInv, Forwarding
<1>2. pkt' \in Packet /\ pkt'.at = "resolved"
  BY <1>1, Zenon DEF FillCache, Packet
<1>3. cache' \in [Clients -> Choices \union {Miss}]
  BY <1>1 DEF FillCache, Packet
<1>4. UNCHANGED <<dialer, exit, global, task, changes>>
  BY Zenon DEF FillCache
<1>5. Forwarding'
  BY <1>2, <1>3, Zenon DEF Forwarding, NodeExitNotBypassed
<1>6. QED
  BY <1>4, <1>5, PacketFrame, Zenon

LEMMA DecideHolds ==
  ASSUME DialInv, DecideExit
  PROVE  DialInv'
<1> DEFINE d == choose_exit(pkt.own, global, {a \in Addrs : sender[a] # 0})
<1>1. pkt \in Packet /\ pkt.own \in Choices /\ global \in Choices
  <2>1. pkt \in Packet /\ global \in Choices
    BY Zenon DEF DialInv, Forwarding, RequestTypes
  <2>2. QED
    BY <2>1 DEF Packet
<1>2. d.to \in Choices /\ d.fallback \in BOOLEAN /\ (pkt.own = {} => d.to = global /\ ~d.fallback)
  BY <1>1, Zenon DEF choose_exit
<1>3. /\ pkt' = [pkt EXCEPT !.at = "decided", !.had = global, !.to = d.to, !.fallback = d.fallback]
      /\ cache' = cache /\ UNCHANGED <<dialer, exit, global, task, changes>>
  BY Zenon DEF DecideExit
<1> HIDE DEF d
<1>4. /\ pkt' \in Packet /\ pkt'.at = "decided" /\ pkt'.own = pkt.own /\ pkt'.had = global
      /\ pkt'.to = d.to /\ pkt'.fallback = d.fallback
  BY <1>1, <1>2, <1>3, Zenon DEF Packet
<1>5. Forwarding'
  BY <1>2, <1>3, <1>4, Zenon DEF DialInv, Forwarding, NodeExitNotBypassed
<1>6. QED
  BY <1>3, <1>5, PacketFrame, Zenon

LEMMA ForwardHolds ==
  ASSUME DialInv, ForwardViaExit
  PROVE  DialInv'
<1> DEFINE x == IF pkt.to = {} THEN "local"
                ELSE IF \A a \in pkt.to : sender[a] # 0 THEN "sent"
                ELSE IF pkt.fallback THEN "local" ELSE "dropped"
<1>1. pkt \in Packet /\ (pkt.own = {} => pkt.to = pkt.had /\ ~pkt.fallback)
  BY Zenon DEF DialInv, Forwarding, ForwardViaExit
<1>2. x \in {"local", "sent", "dropped"} /\ (x = "local" => pkt.to = {} \/ pkt.fallback)
  BY Zenon
<1>3. pkt' = [pkt EXCEPT !.at = x] /\ cache' = cache /\ UNCHANGED <<dialer, exit, global, task, changes>>
  BY Zenon DEF ForwardViaExit
<1> HIDE DEF x
<1>4. pkt' \in Packet /\ pkt'.at = x /\ pkt'.own = pkt.own /\ pkt'.had = pkt.had
  BY <1>1, <1>2, <1>3 DEF Packet
<1>5. Forwarding'
  BY <1>1, <1>2, <1>3, <1>4, Zenon DEF DialInv, Forwarding, NodeExitNotBypassed
<1>6. QED
  BY <1>3, <1>5, PacketFrame, Zenon

-----------------------------------------------------------------------------
LEMMA DialsStep == DialInv /\ [DialsNext]_dialsVars => DialInv'
<1> SUFFICES ASSUME DialInv, [DialsNext]_dialsVars PROVE DialInv'
  OBVIOUS
<1>1. CASE UNCHANGED dialsVars
  <2>1. UNCHANGED <<dialer, exit, global, task, changes>> /\ UNCHANGED packet
    BY <1>1, Zenon DEF dialsVars, dialer, packet
  <2>2. QED
    BY <2>1, PacketFrame, ForwardingStays, Zenon DEF DialInv
<1>2. CASE Packets
  BY <1>2, ResolveHolds, FillHolds, DecideHolds, ForwardHolds, Zenon DEF Packets
<1>3. ASSUME NEW w \in Workers, Work(w) PROVE DialInv'
  BY <1>3, CacheClearHolds, ListHolds, MissingHolds, UnusedHolds, DoneHolds, AddHolds,
     RemoveUnusedHolds, Zenon DEF Work
<1>4. CASE Control
  BY <1>3, <1>4, SwapHolds, ChangeHolds, LoopHolds, Zenon DEF Control
<1>5. QED
  BY <1>1, <1>2, <1>4, Zenon DEF DialsNext

(* For any addresses, clients, requests handled at a time and number of changes:
   while requests and merges add and remove exits (spawn_dial_loop, remove_peer),
   old sessions wind down and new ones open, the sender registered for an address
   belongs to its current dial, a live session of that dial is registered, the
   status shown follows it, every dialed address has exactly one loop that may go
   on, and a packet of a client without an exit never leaves through this node
   when the node has one. *)
THEOREM ExitsStaySound == DialsSpec => []ExitsSound
BY DialsInitHolds, DialsStep, DialInvMeans, PTL DEF DialsSpec
=============================================================================
