------------------------------ MODULE PoolSync ------------------------------
(***************************************************************************)
(* Pool anti-entropy between nodes that each keep their own client         *)
(* database (merge.rs, pool_dialer.rs::anti_entropy and the three pool     *)
(* arms of gateway/control_dispatch.rs).  Over one dialed session:         *)
(*   dialer  -- PoolStateDigest ------------->  gateway                    *)
(*   whoever sees a difference answers PoolBucketDigests(reply = TRUE);    *)
(*   the receiver sends the records of the differing buckets (PoolSync)    *)
(*   and, when asked, its own bucket digests (reply = FALSE), which makes  *)
(*   the other side send its records back.                                 *)
(* Control messages may be delayed, reordered and lost.  A digest is       *)
(* represented by what it hashes.                                          *)
(***************************************************************************)
EXTENDS ClientRecord, FiniteSets

CONSTANTS Nodes,
          Sessions,    \* set of <<dialer, gateway>>
          Buckets,     \* bucket numbers (POOL_SYNC_BUCKETS)
          BucketOf,    \* Ids -> Buckets (bucket_index_for_id)
          Ahead,       \* Nodes -> how far the node's clock is ahead
          MaxEdits,    \* bound on admin operations
          LastEdit,    \* and on the time of the last one
          MaxNet,      \* a session beacons only while fewer messages are in flight
          MaxLoss,     \* bound on lost messages
          StaleBeacons \* STALE_WARN_BEACONS

(* The clocks of two nodes are never as far apart as a tombstone lasts: it is
   kept for 30 days, "well beyond any plausible pool-node downtime". *)
ASSUME PoolAssumption ==
  /\ Sessions \subseteq Nodes \X Nodes
  /\ Ahead \in [Nodes -> Nat] /\ TTL \in Nat
  /\ \A n, m \in Nodes : Ahead[m] <= Ahead[n] + TTL
  /\ MaxClock \in Nat \ {0} /\ {MaxEdits, MaxLoss, StaleBeacons} \subseteq Nat

VARIABLES
  clock,     \* true time; node n reads clock + Ahead[n]
  db,        \* node -> id -> record
  net,       \* messages in flight
  edits,     \* admin operations so far
  lost,      \* messages lost so far
  buried,    \* <<n, i>>: node n has held a tombstone of i
  stale,     \* session -> beacons since the dialer last saw agreement
  warned,    \* session -> warned_stale
  differed   \* session -> the two databases differed since the last agreement

vars == <<clock, db, net, edits, lost, buried, stale, warned, differed>>

Missing == [st |-> "none", at |-> 0, val |-> 0]
Now(n) == clock + Ahead[n]

(* state_digest and bucket_digests: what they hash *)
state_digest(d) == [i \in Ids |-> Canonical(d[i])]
bucket_digests(d) ==
  [b \in Buckets |-> {<<i, Canonical(d[i])>> :
                        i \in {j \in Ids : BucketOf[j] = b /\ d[j].st # "none"}}]
differing_pool_buckets(local, peer) == {b \in Buckets : local[b] # peer[b]}
clients_json_for_buckets(d, bs) ==
  {<<i, d[i]>> : i \in {j \in Ids : BucketOf[j] \in bs /\ d[j].st # "none"}}

InSync(s) == state_digest(db[s[1]]) = state_digest(db[s[2]])

Record == [st : States, at : Nat, val : Vals \union {0}]

PoolTypeOK ==
  /\ clock \in 1..MaxClock
  /\ db \in [Nodes -> [Ids -> Record]]
  /\ \A n \in Nodes, i \in Ids : db[n][i].st = "none" => db[n][i] = Missing
  /\ \A m \in net :
       /\ m.s \in Sessions /\ m.to \in {m.s[1], m.s[2]}
       /\ m.type \in {"digest", "buckets", "sync"}
       /\ m.type = "sync" => m.body \subseteq Ids \X {r \in Record : r.st # "none"}
  /\ edits \in 0..MaxEdits
  /\ lost \in 0..MaxLoss
  /\ stale \in [Sessions -> 0..StaleBeacons]
  /\ warned \in [Sessions -> BOOLEAN] /\ differed \in [Sessions -> BOOLEAN]

(* The copies of a record: at the nodes, and in the lists under way *)
InFlight == UNION {m.body : m \in {x \in net : x.type = "sync"}}
Copies(i) == {db[n][i] : n \in Nodes} \union {p[2] : p \in {q \in InFlight : q[1] = i}}

-----------------------------------------------------------------------------
(* merge_from_json: every incoming record, then reap *)

\* Mutant: the later change wins, tombstone or not.
MergeRecordMutantLatest(d, i, inc) ==
  IF d[i].st = "none" \/ inc.at > d[i].at THEN inc ELSE d[i]

\* Mutant: on equal timestamps the resident record is kept.
MergeRecordMutantKeepsTie(d, i, inc) ==
  IF d[i].st = "none" THEN inc
  ELSE IF d[i].st = "live" /\ inc.st = "live" /\ inc.at = d[i].at THEN d[i]
  ELSE MergeOne(d[i], inc)

MergeRecord(d, i, inc) ==
  IF d[i].st = "none" THEN inc ELSE MergeOne(d[i], inc)

merge_from_json(d, payload, now) ==
  [i \in Ids |->
     LET in == {p[2] : p \in {q \in payload : q[1] = i}}
         r  == IF in = {} THEN d[i] ELSE MergeRecord(d, i, CHOOSE inc \in in : TRUE)
     IN IF Expired(r, now, TTL) THEN Missing ELSE r]

-----------------------------------------------------------------------------
(* Messages: [s |-> session, to |-> node, type, body, reply] *)

Msg(s, to, type, body, reply) ==
  [s |-> s, to |-> to, type |-> type, body |-> body, reply |-> reply]
Peer(s, n) == IF n = s[1] THEN s[2] ELSE s[1]

(* What anti_entropy remembers of agreement with the peer: only the dialer's
   side keeps it. *)
Agreed(s, n) ==
  IF n = s[1]
  THEN /\ stale' = [stale EXCEPT ![s] = 0]
       /\ warned' = [warned EXCEPT ![s] = FALSE]
       /\ differed' = [differed EXCEPT ![s] = ~InSync(s)]
  ELSE UNCHANGED <<stale, warned, differed>>

-----------------------------------------------------------------------------
Init ==
  /\ clock = 1
  /\ db = [n \in Nodes |-> [i \in Ids |-> Missing]]
  /\ net = {}
  /\ edits = 0
  /\ lost = 0
  /\ buried = {}
  /\ stale = [s \in Sessions |-> 0]
  /\ warned = [s \in Sessions |-> FALSE]
  /\ differed = [s \in Sessions |-> FALSE]

(* Which sessions see their two databases apart after a change *)
Watch(d) ==
  differed' = [s \in Sessions |->
                 differed[s] \/ state_digest(d[s[1]]) # state_digest(d[s[2]])]

(* An admin operation on one node: a new client (fresh random id), an edit
   of a live one, or its removal, stamped with that node's clock. *)
AdminEdit(n, i) ==
  /\ edits < MaxEdits /\ clock <= LastEdit
  /\ \E r \in
       IF db[n][i].st = "none"
       THEN IF \A m \in Nodes : db[m][i].st = "none" /\ <<m, i>> \notin buried
            THEN {[st |-> "live", at |-> Now(n), val |-> v] : v \in Vals} ELSE {}
       ELSE IF db[n][i].st = "live"
       THEN {[st |-> "live", at |-> Now(n), val |-> v] : v \in Vals}
              \union {[st |-> "dead", at |-> Now(n), val |-> db[n][i].val]}
       ELSE {} :
         /\ db' = [db EXCEPT ![n][i] = r]
         /\ buried' = IF r.st = "dead" THEN buried \union {<<n, i>>} ELSE buried
  /\ Watch(db')
  /\ edits' = edits + 1
  /\ UNCHANGED <<clock, net, lost, stale, warned>>

(* Time passes.  TOMBSTONE_TTL is "well beyond any plausible pool-node
   downtime": no live copy is left, at a node or in flight, when a tombstone,
   wherever it is, expires for some node. *)
Tick ==
  /\ clock < MaxClock
  /\ \A i \in Ids :
       (\E r \in Copies(i), m \in Nodes : Expired(r, Now(m) + 1, TTL)) =>
         \A r \in Copies(i) : r.st # "live"
  /\ clock' = clock + 1
  /\ UNCHANGED <<db, net, edits, lost, buried, stale, warned, differed>>

(* The beacon tick of anti_entropy: the root digest, and the warning when
   the peer has not been seen to agree for StaleBeacons intervals. *)
Beacon(s) ==
  /\ Cardinality({m \in net : m.s = s}) < MaxNet
  /\ net' = net \union {Msg(s, s[2], "digest", state_digest(db[s[1]]), FALSE)}
  /\ net' # net
  /\ stale' = [stale EXCEPT ![s] = IF @ < StaleBeacons THEN @ + 1 ELSE @]
  /\ warned' = [warned EXCEPT ![s] = @ \/ stale[s] >= StaleBeacons]
  /\ UNCHANGED <<clock, db, edits, lost, buried, differed>>

(* PoolStateDigest: on a difference ask for the peer's buckets *)
RecvDigest(m) ==
  LET n == m.to
      same == m.body = state_digest(db[n])
  IN /\ m \in net /\ m.type = "digest"
     /\ net' = (net \ {m}) \union
          (IF same THEN {}
           ELSE {Msg(m.s, Peer(m.s, n), "buckets", bucket_digests(db[n]), TRUE)})
     /\ IF same THEN Agreed(m.s, n) ELSE UNCHANGED <<stale, warned, differed>>
     /\ UNCHANGED <<clock, db, edits, lost, buried>>

(* PoolBucketDigests: push the records of the buckets that differ and, when
   asked, hand our own bucket digests back. *)
RecvBuckets(m) ==
  LET n == m.to
      local == bucket_digests(db[n])
      diff == differing_pool_buckets(local, m.body)
  IN /\ m \in net /\ m.type = "buckets"
     /\ net' = (net \ {m})
          \union (IF diff = {} THEN {}
                  ELSE {Msg(m.s, Peer(m.s, n), "sync", clients_json_for_buckets(db[n], diff), FALSE)})
          \union (IF m.reply
                  THEN {Msg(m.s, Peer(m.s, n), "buckets", local, FALSE)} ELSE {})
     /\ IF diff = {} THEN Agreed(m.s, n) ELSE UNCHANGED <<stale, warned, differed>>
     /\ UNCHANGED <<clock, db, edits, lost, buried>>

(* PoolSync: merge *)
RecvSync(m) ==
  LET n == m.to
      d == merge_from_json(db[n], m.body, Now(n))
  IN /\ m \in net /\ m.type = "sync"
     /\ net' = net \ {m}
     /\ db' = [db EXCEPT ![n] = d]
     /\ buried' = buried \union
          {<<n, i>> : i \in {j \in Ids : d[j].st = "dead"
                               \/ (d[j].st = "none" /\ db[n][j].st # "none")}}
     /\ Watch(db')
     /\ UNCHANGED <<clock, edits, lost, stale, warned>>

Lose(m) ==
  /\ m \in net
  /\ lost < MaxLoss
  /\ lost' = lost + 1
  /\ net' = net \ {m}
  /\ UNCHANGED <<clock, db, edits, buried, stale, warned, differed>>

Deliver(m) == RecvDigest(m) \/ RecvBuckets(m) \/ RecvSync(m)

Next ==
  \/ \E n \in Nodes, i \in Ids : AdminEdit(n, i)
  \/ Tick
  \/ \E s \in Sessions : Beacon(s)
  \/ \E m \in net : Deliver(m) \/ Lose(m)

Arrival(s, n, t) ==
  \E m \in net : m.s = s /\ m.to = n /\ m.type = t /\ Deliver(m)

(* Fairness: time passes, the beacon timer keeps firing, and of the messages
   of each kind that wait at a node some one is handled. *)
Fairness ==
  /\ \A s \in Sessions : WF_vars(Beacon(s))
  /\ WF_vars(Tick)
  /\ \A s \in Sessions, n \in Nodes, t \in {"digest", "buckets", "sync"} :
       WF_vars(Arrival(s, n, t))

Spec == Init /\ [][Next]_vars /\ Fairness

-----------------------------------------------------------------------------
(* Properties *)

(* Revocation is final: a node that has held a tombstone never again holds
   the client live, however late, stale or reordered the copies are that its
   peers send, across edits elsewhere and the reaping of the tombstone. *)
RevocationFinal ==
  \A n \in Nodes, i \in Ids : <<n, i>> \in buried => db[n][i].st # "live"

(* Once the admins stop, all nodes end with the same converging fields, for
   good, whatever order and however stale the copies are they exchanged. *)
Converges ==
  <>[](\A n, m \in Nodes : state_digest(db[n]) = state_digest(db[m]))

(* An exchange ends: once the admins stop only root digests travel. *)
ExchangeEnds == <>[](\A m \in net : m.type = "digest")

(* The dialer warns that a peer does not reconcile only when the databases
   have differed since they were last seen to agree. *)
WarnsOnlyIfDiverged == \A s \in Sessions : warned[s] => differed[s]
=============================================================================
