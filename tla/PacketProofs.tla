--------------------------- MODULE PacketProofs ---------------------------
(***************************************************************************)
(* What happens to packets on their way: the reassembler, for any          *)
(* messages, numbers of fragments and limits, and the counters the server  *)
(* and the kernel send with, for any blocks and workers.                   *)
(***************************************************************************)
EXTENDS Fragment, KernelDownlink, FiniteSetTheorems, WellFoundedInduction, TLAPS

PendingOK ==
  /\ DOMAIN pending \subseteq Messages
  /\ \A m \in DOMAIN pending : pending[m].created \in Nat /\ pending[m].created < tickets
  /\ tickets \in Nat /\ expired \in Nat /\ expired <= tickets
  /\ net \subseteq Fragments
  /\ arrived \in [Messages -> SUBSET Nat]

(* A control message that nothing has disturbed is new, or under assembly with every
   fragment that came, or handed over. *)
ControlKept ==
  \A m \in Control \ disturbed :
     \/ arrived[m] = {} /\ m \notin DOMAIN pending
     \/ m \in Live /\ pending[m].chunks = arrived[m] /\ ~Complete(m, arrived[m])
     \/ m \in delivered

(* A nonempty set of assemblies has an oldest one. *)
LEMMA OldestExists ==
  ASSUME PendingOK, NEW S, S \subseteq DOMAIN pending, S # {}
  PROVE  /\ Oldest(S) \in S
         /\ \A l \in S : pending[Oldest(S)].created <= pending[l].created
<1> DEFINE R == OpToRel(<, Nat)
           T == {pending[k].created : k \in S}
<1>1. T \subseteq Nat /\ T # {}
  BY DEF PendingOK
<1>2. \E x \in T : \A y \in T : ~(<<y, x>> \in R)
  <2> HIDE DEF R, T
  <2>1. IsWellFoundedOn(R, Nat)
    BY NatLessThanWellFounded, Zenon DEF R
  <2>2. QED
    BY <1>1, <2>1, WFMin, Zenon
<1>3. PICK x \in T : \A y \in T : ~(y < x)
  BY <1>1, <1>2, Zenon DEF OpToRel
<1>4. PICK k \in S : pending[k].created = x
  BY <1>3
<1>5. \A l \in S : pending[k].created <= pending[l].created
  <2>1. TAKE l \in S
  <2>2. pending[l].created \in T /\ pending[l].created \in Nat /\ x \in Nat
    BY <1>1
  <2>3. ~(pending[l].created < x)
    BY <1>3, <2>2
  <2>4. QED
    BY <1>4, <2>2, <2>3
<1>6. QED
  BY <1>5, SMTT(30) DEF Oldest

(* What comes is a fragment of a message. *)
LEMMA FromNet ==
  ASSUME PendingOK, NEW f \in net
  PROVE  /\ f[1] \in Messages /\ f[2] \in Nat
         /\ f = <<f[1], f[2]>>
<1>1. PICK m \in Messages : f \in {m} \X (1 .. Parts[m])
  BY DEF PendingOK, Fragments
<1>2. Parts[m] \in Nat
  BY LimitsAssumption
<1>3. f[1] = m /\ f[2] \in 1 .. Parts[m] /\ f = <<f[1], f[2]>>
  BY <1>1
<1>4. QED
  BY <1>2, <1>3

(* Assemblies are of known messages, begun in the order of their tickets. *)
LEMMA StepKeepsPending ==
  ASSUME PendingOK, [Next]_vars
  PROVE  PendingOK'
<1>1. ASSUME NEW f \in net, Refuse(f[1], f[2]) PROVE PendingOK'
  <2>1. f[1] \in Messages /\ f[2] \in Nat
    BY FromNet
  <2>2. DOMAIN pending' = Live /\ \A m \in Live : pending'[m] = pending[m]
    BY <1>1 DEF Refuse, Restrict, Live
  <2>3. QED
    BY <1>1, <2>1, <2>2, Zenon DEF PendingOK, Refuse, Live
<1>2. ASSUME NEW f \in net, Accept(f[1], f[2]) PROVE PendingOK'
  <2> DEFINE m == f[1]
             begins == m \notin Live
             kept == IF begins /\ Full(m) THEN Live \ Victim(m) ELSE Live
  <2>1. f[1] \in Messages /\ f[2] \in Nat
    BY FromNet
  <2>2. /\ DOMAIN pending' \subseteq Live \union {m}
        /\ \A k \in DOMAIN pending' : k # m => pending'[k] = pending[k]
        /\ m \in DOMAIN pending' =>
             pending'[m].created = IF begins THEN tickets ELSE pending[m].created
        /\ tickets' = IF begins THEN tickets + 1 ELSE tickets
        /\ expired' = expired /\ net' = net \ {<<f[1], f[2]>>}
        /\ arrived' = [arrived EXCEPT ![m] = @ \union {f[2]}]
    BY <1>2, SMTT(30) DEF Accept
  <2> HIDE DEF m, begins
  <2>3. DOMAIN pending' \subseteq Messages
    BY <2>1, <2>2 DEF PendingOK, Live, m
  <2>4. tickets' \in Nat /\ tickets' >= tickets /\ expired' <= tickets'
    BY <2>2 DEF PendingOK
  <2>5. ASSUME NEW k \in DOMAIN pending'
        PROVE pending'[k].created \in Nat /\ pending'[k].created < tickets'
    <3>1. CASE k # m
      BY <2>2, <2>4, <2>5, <3>1 DEF PendingOK, Live
    <3>2. CASE k = m
      BY <2>2, <2>5, <3>2 DEF PendingOK, Live, begins
    <3>3. QED
      BY <3>1, <3>2
  <2>6. QED
    BY <2>1, <2>2, <2>3, <2>4, <2>5, SMTT(30) DEF PendingOK, m
<1>3. ASSUME NEW g, discard_fec_group(g) PROVE PendingOK'
  BY <1>3 DEF discard_fec_group, PendingOK, Restrict
<1>4. CASE Age
  <2>1. PICK m \in Live : expired' = pending[m].created + 1
    BY <1>4 DEF Age
  <2>2. expired' \in Nat /\ expired' <= tickets
    BY <2>1 DEF PendingOK, Live
  <2>3. QED
    BY <1>4, <2>2 DEF Age, PendingOK
<1>5. CASE UNCHANGED vars
  BY <1>5 DEF vars, PendingOK
<1>6. QED
  BY <1>1, <1>2, <1>3, <1>4, <1>5 DEF Next

(* A data message in need of room takes it from data. *)
LEMMA VictimIsAlike ==
  ASSUME PendingOK, NEW m \in Messages, Full(m)
  PROVE  /\ Oldest(Likes(m)) \in Likes(m)
         /\ \A l \in Likes(m) : pending[Oldest(Likes(m))].created <= pending[l].created
<1>1. Likes(m) \subseteq DOMAIN pending
  BY DEF Likes, Live
<1>2. Likes(m) # {}
  BY LimitsAssumption, FS_EmptySet DEF Full, Limit
<1>3. QED
  BY <1>1, <1>2, OldestExists

LEMMA StepKeepsControl ==
  ASSUME PendingOK, ControlKept, [Next]_vars
  PROVE  ControlKept'
<1> SUFFICES ASSUME NEW c \in Control, c \notin disturbed'
             PROVE  \/ arrived'[c] = {} /\ c \notin DOMAIN pending'
                    \/ c \in Live' /\ pending'[c].chunks = arrived'[c] /\ ~Complete(c, arrived'[c])
                    \/ c \in delivered'
  BY DEF ControlKept, Complete
<1>0. /\ c \in Messages
      /\ c \notin disturbed =>
           \/ arrived[c] = {} /\ c \notin DOMAIN pending
           \/ c \in Live /\ pending[c].chunks = arrived[c] /\ ~Complete(c, arrived[c])
           \/ c \in delivered
  BY LimitsAssumption DEF ControlKept
<1>1. ASSUME NEW f \in net, Refuse(f[1], f[2])
      PROVE  \/ arrived'[c] = {} /\ c \notin DOMAIN pending'
             \/ c \in Live' /\ pending'[c].chunks = arrived'[c] /\ ~Complete(c, arrived'[c])
             \/ c \in delivered'
  <2>1. c # f[1] /\ c \notin disturbed
    BY <1>1 DEF Refuse
  <2>2. arrived'[c] = arrived[c] /\ delivered' = delivered /\ expired' = expired
    BY <1>1, <2>1, <1>0 DEF Refuse, PendingOK
  <2>3. DOMAIN pending' = Live /\ \A m \in Live : pending'[m] = pending[m]
    BY <1>1 DEF Refuse, Restrict, Live
  <2>4. QED
    BY <1>0, <2>1, <2>2, <2>3 DEF Live
<1>2. ASSUME NEW f \in net, Accept(f[1], f[2])
      PROVE  \/ arrived'[c] = {} /\ c \notin DOMAIN pending'
             \/ c \in Live' /\ pending'[c].chunks = arrived'[c] /\ ~Complete(c, arrived'[c])
             \/ c \in delivered'
  <2> DEFINE m == f[1]
             begins == m \notin Live
             kept == IF begins /\ Full(m) THEN Live \ Victim(m) ELSE Live
             chunks == (IF begins THEN {} ELSE pending[m].chunks) \union {f[2]}
             whole == Complete(m, chunks)
             created == IF begins THEN tickets ELSE pending[m].created
  <2>0. m \in Messages /\ c \notin disturbed
    BY <1>2, FromNet, SMTT(30) DEF Accept
  <2>1. /\ pending' = [k \in (IF whole THEN kept \ {m} ELSE kept \union {m}) |->
                          IF k = m THEN [created |-> created, chunks |-> chunks] ELSE pending[k]]
        /\ delivered' = IF whole THEN delivered \union {m} ELSE delivered
        /\ arrived' = [arrived EXCEPT ![m] = @ \union {f[2]}]
        /\ expired' = expired
        /\ ~Refuses(m)
    BY <1>2, SMTT(30) DEF Accept
  <2> HIDE DEF m, begins, kept, chunks, whole, created
  <2>2. CASE c # m
    <3>1. arrived'[c] = arrived[c] /\ (c \in delivered => c \in delivered')
      BY <2>0, <2>1, <2>2, <1>0, SMTT(30) DEF PendingOK
    <3>2. ASSUME c \notin DOMAIN pending PROVE c \notin DOMAIN pending'
      BY <2>1, <2>2, <3>2, SMTT(30) DEF kept, Live
    <3>3. ASSUME c \in Live PROVE c \in kept
      <4>1. CASE begins /\ Full(m)
        <5>1. m \notin Control
          BY <2>1, <4>1 DEF Refuses, begins
        <5>2. Oldest(Likes(m)) \in Likes(m)
          BY <2>0, <4>1, VictimIsAlike
        <5>3. Oldest(Likes(m)) \notin Control
          BY <5>1, <5>2 DEF Likes
        <5>4. c \notin Victim(m)
          BY <5>3 DEF Victim
        <5>5. QED
          BY <3>3, <5>4 DEF kept
      <4>2. CASE ~(begins /\ Full(m))
        BY <3>3, <4>2 DEF kept
      <4>3. QED
        BY <4>1, <4>2
    <3>4. ASSUME c \in Live PROVE c \in Live' /\ pending'[c] = pending[c]
      <4>1. c \in DOMAIN pending' /\ pending'[c] = pending[c]
        BY <2>1, <2>2, <3>3, <3>4
      <4>2. QED
        BY <2>1, <3>4, <4>1 DEF Live
    <3>5. QED
      BY <1>0, <2>0, <3>1, <3>2, <3>4, SMTT(30)
  <2>3. CASE c = m
    <3>1. CASE c \in delivered
      BY <2>1, <3>1
    <3>2. CASE c \notin delivered
      <4>1. chunks = arrived[m] \union {f[2]}
        BY <1>0, <2>0, <2>3, <3>2 DEF chunks, begins, Live
      <4>2. arrived'[c] = chunks
        BY <2>0, <2>1, <2>3, <4>1 DEF PendingOK
      <4>3. CASE whole
        BY <2>1, <2>3, <4>3, SMTT(30)
      <4>4. CASE ~whole
        <5>1. /\ c \in DOMAIN pending' /\ pending'[c].chunks = chunks
              /\ pending'[c].created = created
          BY <2>1, <2>3, <4>4
        <5>2. created >= expired
          BY <2>0 DEF created, begins, Live, PendingOK
        <5>3. ~Complete(c, arrived'[c])
          BY <4>2, <4>4, <2>3 DEF whole
        <5>4. QED
          BY <2>1, <4>2, <5>1, <5>2, <5>3, Zenon DEF Live
      <4>5. QED
        BY <4>3, <4>4
    <3>3. QED
      BY <3>1, <3>2
  <2>4. QED
    BY <2>2, <2>3
<1>3. ASSUME NEW g, discard_fec_group(g)
      PROVE  \/ arrived'[c] = {} /\ c \notin DOMAIN pending'
             \/ c \in Live' /\ pending'[c].chunks = arrived'[c] /\ ~Complete(c, arrived'[c])
             \/ c \in delivered'
  <2>1. c \notin disturbed /\ Group[c] # g
    BY <1>0, <1>3 DEF discard_fec_group
  <2>2. QED
    BY <1>0, <1>3, <2>1 DEF discard_fec_group, Restrict, Live
<1>4. ASSUME Age
      PROVE  \/ arrived'[c] = {} /\ c \notin DOMAIN pending'
             \/ c \in Live' /\ pending'[c].chunks = arrived'[c] /\ ~Complete(c, arrived'[c])
             \/ c \in delivered'
  <2>1. PICK m \in Live : expired' = pending[m].created + 1
    BY <1>4, SMTT(30) DEF Age
  <2>2. expired' \in Nat
    BY <2>1 DEF Live, PendingOK
  <2>3. c \in DOMAIN pending => pending[c].created >= expired'
    BY <1>4, <2>2 DEF Age, PendingOK
  <2>4. QED
    BY <1>0, <1>4, <2>3, SMTT(30) DEF Age, Live
<1>5. ASSUME UNCHANGED vars
      PROVE  \/ arrived'[c] = {} /\ c \notin DOMAIN pending'
             \/ c \in Live' /\ pending'[c].chunks = arrived'[c] /\ ~Complete(c, arrived'[c])
             \/ c \in delivered'
  BY <1>0, <1>5 DEF vars, Live
<1>6. QED
  BY <1>1, <1>2, <1>3, <1>4, <1>5 DEF Next

(* However much data is under assembly, a control message whose fragments have all come
   is handed over, unless it was refused for other control messages or was too slow. *)
THEOREM ControlMessagesSurvive == Spec => []ControlSurvives
<1>1. Init => PendingOK /\ ControlKept
  <2> SUFFICES ASSUME Init PROVE PendingOK /\ ControlKept
    OBVIOUS
  <2>1. DOMAIN pending = {}
    BY DEF Init
  <2>2. PendingOK
    BY <2>1 DEF Init, PendingOK
  <2>3. ControlKept
    BY <2>1, LimitsAssumption DEF Init, ControlKept
  <2>4. QED
    BY <2>2, <2>3
<1>2. PendingOK /\ ControlKept /\ [Next]_vars => (PendingOK /\ ControlKept)'
  BY StepKeepsPending, StepKeepsControl
<1>3. ControlKept => ControlSurvives
  <2> SUFFICES ASSUME ControlKept, NEW m \in Control, Complete(m, arrived[m]), m \notin disturbed
               PROVE  m \in delivered
    BY DEF ControlSurvives
  <2>1. arrived[m] # {}
    BY FS_EmptySet, LimitsAssumption DEF Complete
  <2>2. QED
    BY <2>1 DEF ControlKept
<1>4. QED
  BY <1>1, <1>2, <1>3, PTL DEF Spec

(* Fewer assemblies stay within the limits. *)
LEMMA FewerIsBounded ==
  ASSUME PendingOK, Bounded, NEW D, D \subseteq DOMAIN pending
  PROVE  /\ Cardinality(D \intersect Control) <= MAX_IN_FLIGHT
         /\ Cardinality(D \ Control) <= MAX_DATA_IN_FLIGHT
         /\ IsFiniteSet(D)
<1>1. IsFiniteSet(DOMAIN pending)
  BY LimitsAssumption, FS_Subset DEF PendingOK
<1>2. IsFiniteSet(DOMAIN pending \intersect Control) /\ IsFiniteSet(DOMAIN pending \ Control) /\ IsFiniteSet(D)
  BY <1>1, FS_Subset
<1>3. /\ Cardinality(D \intersect Control) <= Cardinality(DOMAIN pending \intersect Control)
      /\ Cardinality(D \ Control) <= Cardinality(DOMAIN pending \ Control)
  BY <1>2, FS_Subset
<1>4. /\ Cardinality(D \intersect Control) \in Nat /\ Cardinality(D \ Control) \in Nat
      /\ Cardinality(DOMAIN pending \intersect Control) \in Nat
      /\ Cardinality(DOMAIN pending \ Control) \in Nat
  <2>1. IsFiniteSet(D \intersect Control) /\ IsFiniteSet(D \ Control)
    BY <1>2, FS_Subset
  <2>2. QED
    BY <1>2, <2>1, FS_CardinalityType
<1>5. QED
  BY <1>2, <1>3, <1>4, LimitsAssumption DEF Bounded

LEMMA StepKeepsBounds ==
  ASSUME PendingOK, Bounded, [Next]_vars
  PROVE  Bounded'
<1>1. ASSUME NEW f \in net, Refuse(f[1], f[2]) PROVE Bounded'
  <2>1. DOMAIN pending' = Live /\ Live \subseteq DOMAIN pending
    BY <1>1 DEF Refuse, Restrict, Live
  <2>2. QED
    BY <2>1, FewerIsBounded, SMTT(30) DEF Bounded
<1>2. ASSUME NEW f \in net, Accept(f[1], f[2]) PROVE Bounded'
  <2> DEFINE m == f[1]
             begins == m \notin Live
             kept == IF begins /\ Full(m) THEN Live \ Victim(m) ELSE Live
             D == DOMAIN pending'
  <2>0. m \in Messages
    BY FromNet
  <2>1. D \subseteq kept \union {m} /\ ~Refuses(m)
    BY <1>2, SMTT(30) DEF Accept
  <2>a. Live \subseteq DOMAIN pending
    BY DEF Live
  <2>b. IsFiniteSet(Live) /\ IsFiniteSet(Likes(m)) /\ Cardinality(Likes(m)) \in Nat
    BY <2>a, FewerIsBounded, FS_Subset, FS_CardinalityType, Zenon DEF Likes
  <2> SUFFICES /\ Cardinality(D \intersect Control) <= MAX_IN_FLIGHT
               /\ Cardinality(D \ Control) <= MAX_DATA_IN_FLIGHT
    BY SMTT(30) DEF Bounded
  <2> HIDE DEF m, D
  <2>2. CASE ~begins
    <3>1. D \subseteq DOMAIN pending
      BY <2>1, <2>2, <2>a
    <3>2. QED
      BY <3>1, FewerIsBounded
  <2>3. CASE begins
    <3> DEFINE same == {k \in D : k \in Control <=> m \in Control}
    <3>1. PICK B : /\ B \subseteq Likes(m) /\ same \subseteq B \union {m}
                   /\ IsFiniteSet(B) /\ Cardinality(B) \in Nat /\ Cardinality(B) + 1 <= Limit(m)
      <4>1. CASE ~Full(m)
        <5>1. same \subseteq Likes(m) \union {m}
          BY <2>1, <4>1 DEF Likes
        <5>2. Cardinality(Likes(m)) + 1 <= Limit(m)
          BY <2>b, <4>1, LimitsAssumption DEF Full, Limit
        <5>3. QED
          BY <2>b, <5>1, <5>2
      <4>2. CASE Full(m)
        <5>1. Oldest(Likes(m)) \in Likes(m)
          BY <2>0, <4>2, VictimIsAlike
        <5>2. m \notin Control
          BY <2>1, <2>3, <4>2 DEF Refuses
        <5>3. DEFINE B == Likes(m) \ {Oldest(Likes(m))}
        <5>4. IsFiniteSet(B) /\ Cardinality(B) = Cardinality(Likes(m)) - 1
          BY <2>b, <5>1, FS_RemoveElement
        <5>5. Cardinality(B) \in Nat
          BY <5>4, FS_CardinalityType
        <5>6. Likes(m) = Live \ Control
          BY <5>2, <2>a DEF Likes
        <5>7. Cardinality(Likes(m)) <= MAX_DATA_IN_FLIGHT
          BY <2>a, <5>6, FewerIsBounded, Zenon
        <5>8. same \subseteq B \union {m}
          BY <2>1, <2>3, <4>2 DEF Likes, Victim
        <5>9. Cardinality(B) + 1 <= Limit(m)
          BY <2>b, <5>2, <5>4, <5>7, LimitsAssumption DEF Limit
        <5> HIDE DEF B
        <5>10. B \subseteq Likes(m)
          BY DEF B
        <5>11. QED
          BY <5>4, <5>5, <5>8, <5>9, <5>10
      <4>3. QED
        BY <4>1, <4>2
    <3>2. IsFiniteSet(B \union {m}) /\ Cardinality(B \union {m}) <= Limit(m)
      <4>1. Limit(m) \in Nat
        BY LimitsAssumption DEF Limit
      <4>2. QED
        BY <3>1, <4>1, FS_AddElement
    <3>3. Cardinality(same) <= Limit(m)
      <4> HIDE DEF same
      <4>1. /\ IsFiniteSet(same) /\ Cardinality(same) <= Cardinality(B \union {m})
        BY <3>1, <3>2, FS_Subset
      <4>2. Cardinality(same) \in Nat /\ Cardinality(B \union {m}) \in Nat /\ Limit(m) \in Nat
        BY <3>2, <4>1, FS_CardinalityType, LimitsAssumption DEF Limit
      <4>3. QED
        BY <3>2, <4>1, <4>2
    <3>4. D \ {m} \subseteq DOMAIN pending
      BY <2>1, <2>a
    <3>5. CASE m \in Control
      <4>1. same = D \intersect Control /\ D \ Control = (D \ {m}) \ Control
        BY <3>5
      <4>2. Cardinality((D \ {m}) \ Control) <= MAX_DATA_IN_FLIGHT
        BY <3>4, FewerIsBounded, Zenon
      <4>3. QED
        BY <3>3, <3>5, <4>1, <4>2 DEF Limit
    <3>6. CASE m \notin Control
      <4>1. same = D \ Control /\ D \intersect Control = (D \ {m}) \intersect Control
        BY <3>6
      <4>2. Cardinality((D \ {m}) \intersect Control) <= MAX_IN_FLIGHT
        BY <3>4, FewerIsBounded, Zenon
      <4>3. QED
        BY <3>3, <3>6, <4>1, <4>2 DEF Limit
    <3>7. QED
      BY <3>5, <3>6
  <2>4. QED
    BY <2>2, <2>3
<1>3. ASSUME NEW g, discard_fec_group(g) PROVE Bounded'
  <2>1. DOMAIN pending' \subseteq DOMAIN pending
    BY <1>3 DEF discard_fec_group, Restrict
  <2>2. QED
    BY <2>1, FewerIsBounded DEF Bounded
<1>4. CASE Age \/ UNCHANGED vars
  BY <1>4 DEF Age, vars, Bounded
<1>5. QED
  BY <1>1, <1>2, <1>3, <1>4 DEF Next

(* No stream of fragments, lost, late or interleaved, makes the reassembler hold more
   messages than its limits allow. *)
THEOREM ReassemblyBounded == Spec => []Bounded
<1>1. Init => PendingOK /\ Bounded
  <2> SUFFICES ASSUME Init PROVE PendingOK /\ Bounded
    OBVIOUS
  <2>1. DOMAIN pending = {}
    BY DEF Init
  <2>2. PendingOK
    BY <2>1 DEF Init, PendingOK
  <2>3. DOMAIN pending \intersect Control = {} /\ DOMAIN pending \ Control = {}
    BY <2>1
  <2>4. QED
    BY <2>2, <2>3, FS_EmptySet, LimitsAssumption DEF Bounded
<1>2. PendingOK /\ Bounded /\ [Next]_vars => (PendingOK /\ Bounded)'
  BY StepKeepsPending, StepKeepsBounds
<1>3. QED
  BY <1>1, <1>2, PTL DEF Spec

-----------------------------------------------------------------------------
(* Assemblies of data begun after that of m. *)
Younger(m) == {k \in DOMAIN pending \ Control : pending[k].created > pending[m].created}

(* No two assemblies have the same ticket. *)
TicketsDiffer ==
  /\ \A k, l \in DOMAIN pending : pending[k].created = pending[l].created => k = l
  /\ crowd \in [Messages -> Nat]

(* A data message that nothing has disturbed is new, or under assembly with every
   fragment that came, or handed over, as long as fewer assemblies began after it than
   fit; those still there began after it. *)
KeptInCrowd(m) ==
  \/ arrived[m] = {} /\ m \notin DOMAIN pending
  \/ /\ m \in Live /\ pending[m].chunks = arrived[m]
     /\ Unfinished(m)
     /\ Cardinality(Younger(m)) <= crowd[m]
  \/ m \in delivered

DataKept ==
  \A m \in Data \ disturbed : crowd[m] < MAX_DATA_IN_FLIGHT => KeptInCrowd(m)

LEMMA StepKeepsTickets ==
  ASSUME PendingOK, TicketsDiffer, [Next]_vars
  PROVE  TicketsDiffer'
<1>1. ASSUME NEW f \in net, Refuse(f[1], f[2]) PROVE TicketsDiffer'
  BY <1>1 DEF Refuse, Restrict, Live, TicketsDiffer
<1>2. ASSUME NEW f \in net, Accept(f[1], f[2]) PROVE TicketsDiffer'
  <2> DEFINE m == f[1]
             begins == m \notin Live
  <2>1. /\ DOMAIN pending' \subseteq Live \union {m}
        /\ \A k \in DOMAIN pending' : k # m => pending'[k] = pending[k]
        /\ m \in DOMAIN pending' =>
             pending'[m].created = IF begins THEN tickets ELSE pending[m].created
    BY <1>2, SMTT(30) DEF Accept
  <2>2. crowd' = [k \in Messages |->
                    IF begins /\ m \in Data /\ k # m /\ Unfinished(k) THEN crowd[k] + 1 ELSE crowd[k]]
    BY <1>2, SMTT(30) DEF Accept
  <2> HIDE DEF m, begins
  <2>3. crowd' \in [Messages -> Nat]
    BY <2>2 DEF TicketsDiffer
  <2>4. ASSUME NEW k \in DOMAIN pending', NEW l \in DOMAIN pending', k # l
        PROVE  pending'[k].created # pending'[l].created
    <3>1. CASE k # m /\ l # m
      BY <2>1, <2>4, <3>1 DEF TicketsDiffer, Live
    <3>2. CASE ~begins
      BY <2>1, <2>4, <3>2 DEF TicketsDiffer, Live, begins
    <3>3. \A x \in Live : pending[x].created \in Nat /\ pending[x].created < tickets /\ tickets \in Nat
      BY DEF PendingOK, Live
    <3>4. CASE begins /\ (k = m \/ l = m)
      BY <2>1, <2>4, <3>3, <3>4, SMTT(30)
    <3>5. QED
      BY <3>1, <3>2, <3>4
  <2>5. QED
    BY <2>3, <2>4 DEF TicketsDiffer
<1>3. ASSUME NEW g, discard_fec_group(g) PROVE TicketsDiffer'
  BY <1>3, SMTT(30) DEF discard_fec_group, Restrict, TicketsDiffer
<1>4. CASE Age \/ UNCHANGED vars
  BY <1>4 DEF Age, vars, TicketsDiffer
<1>5. QED
  BY <1>1, <1>2, <1>3, <1>4 DEF Next

(* Counting a smaller set of assemblies. *)
LEMMA FewerCounted ==
  ASSUME PendingOK, NEW D, D \subseteq DOMAIN pending, NEW E, E \subseteq D
  PROVE  /\ IsFiniteSet(D) /\ IsFiniteSet(E)
         /\ Cardinality(D) \in Nat /\ Cardinality(E) \in Nat
         /\ Cardinality(E) <= Cardinality(D)
<1>1. IsFiniteSet(DOMAIN pending)
  BY LimitsAssumption, FS_Subset DEF PendingOK
<1>2. IsFiniteSet(D)
  BY <1>1, FS_Subset
<1>3. QED
  BY <1>2, FS_Subset, FS_CardinalityType

(* A message is pushed out only when as many assemblies as fit began after it. *)
LEMMA PushedOutWhenCrowded ==
  ASSUME PendingOK, TicketsDiffer, NEW m \in Data, Full(m),
         NEW d, d = Oldest(Likes(m))
  PROVE  Cardinality(Younger(d)) + 1 >= MAX_DATA_IN_FLIGHT
<1> DEFINE S == Likes(m)
           Y == Younger(d)
<1>1. d \in S /\ \A l \in S : pending[d].created <= pending[l].created
  BY VictimIsAlike DEF Data
<1>2. S \subseteq DOMAIN pending /\ \A l \in S : l \notin Control
  BY DEF Likes, Live, Data
<1>3. \A l \in S \ {d} : l \in Y
  <2> TAKE l \in S \ {d}
  <2>1. pending[l].created # pending[d].created
    BY <1>1, <1>2 DEF TicketsDiffer
  <2>2. pending[l].created \in Nat /\ pending[d].created \in Nat
    BY <1>1, <1>2, SMTT(30) DEF PendingOK
  <2>3. pending[l].created > pending[d].created
    BY <1>1, <2>1, <2>2
  <2>4. QED
    BY <1>2, <2>3 DEF Younger
<1>4. Y \subseteq DOMAIN pending
  BY DEF Younger
<1>5. Cardinality(S) >= MAX_DATA_IN_FLIGHT
  BY DEF Full, Limit, Data
<1> HIDE DEF S, Y
<1>6. IsFiniteSet(S) /\ Cardinality(S) \in Nat
  BY <1>2, FewerCounted
<1>7. Cardinality(S \ {d}) = Cardinality(S) - 1
  BY <1>1, <1>6, FS_RemoveElement, Zenon
<1>8. Cardinality(S \ {d}) <= Cardinality(Y) /\ Cardinality(Y) \in Nat
  <2>1. S \ {d} \subseteq Y
    BY <1>3
  <2>2. QED
    BY <1>4, <2>1, FewerCounted
<1>9. Cardinality(Y) + 1 >= MAX_DATA_IN_FLIGHT
  BY <1>5, <1>6, <1>7, <1>8, LimitsAssumption
<1>10. QED
  BY <1>9 DEF Y

(* A message stays kept when its own state does not change and no assembly begins. *)
LEMMA StaysKept ==
  ASSUME PendingOK, TicketsDiffer, NEW d \in Data, KeptInCrowd(d),
         crowd'[d] = crowd[d], arrived'[d] = arrived[d], delivered \subseteq delivered',
         DOMAIN pending' \subseteq DOMAIN pending,
         \A k \in DOMAIN pending' : pending'[k].created = pending[k].created,
         d \in Live => d \in Live' /\ pending'[d] = pending[d]
  PROVE  KeptInCrowd(d)'
<1>1. CASE d \in Live /\ pending[d].chunks = arrived[d] /\ Unfinished(d)
           /\ Cardinality(Younger(d)) <= crowd[d]
  <2>1. Younger(d)' \subseteq Younger(d)
    BY <1>1, Zenon DEF Younger
  <2>2. Younger(d) \subseteq DOMAIN pending
    BY DEF Younger
  <2>3. /\ Cardinality(Younger(d)') <= Cardinality(Younger(d))
        /\ Cardinality(Younger(d)') \in Nat /\ Cardinality(Younger(d)) \in Nat
    BY <2>1, <2>2, FewerCounted, SMTT(30)
  <2>4. crowd[d] \in Nat
    BY DEF TicketsDiffer, Data
  <2>5. Cardinality(Younger(d)') <= crowd'[d]
    BY <1>1, <2>3, <2>4, SMTT(30)
  <2>6. Unfinished(d)'
    BY <1>1, SMTT(30) DEF Unfinished, Complete
  <2>7. QED
    BY <1>1, <2>5, <2>6, Zenon DEF KeptInCrowd
<1>2. CASE ~(d \in Live /\ pending[d].chunks = arrived[d] /\ Unfinished(d)
             /\ Cardinality(Younger(d)) <= crowd[d])
  BY <1>2, Zenon DEF KeptInCrowd
<1>3. QED
  BY <1>1, <1>2, SMTT(30)

(* The message a fragment belongs to. *)
LEMMA AcceptKeepsOwn ==
  ASSUME PendingOK, TicketsDiffer, NEW f \in net, Accept(f[1], f[2]),
         NEW d \in Data, d = f[1], KeptInCrowd(d)
  PROVE  KeptInCrowd(d)'
<1> DEFINE i == f[2]
           begins == d \notin Live
           kept == IF begins /\ Full(d) THEN Live \ Victim(d) ELSE Live
           chunks == (IF begins THEN {} ELSE pending[d].chunks) \union {i}
           whole == Complete(d, chunks)
           created == IF begins THEN tickets ELSE pending[d].created
<1>1. /\ pending' = [k \in (IF whole THEN kept \ {d} ELSE kept \union {d}) |->
                        IF k = d THEN [created |-> created, chunks |-> chunks] ELSE pending[k]]
      /\ delivered' = IF whole THEN delivered \union {d} ELSE delivered
      /\ arrived' = [arrived EXCEPT ![d] = @ \union {i}]
      /\ expired' = expired
  BY Zenon DEF Accept
<1>2. crowd' = [k \in Messages |->
                  IF begins /\ d \in Data /\ k # d /\ Unfinished(k) THEN crowd[k] + 1 ELSE crowd[k]]
  BY SMTT(30) DEF Accept
<1>3. d \in Messages
  BY DEF Data
<1>4. kept \subseteq Live /\ Live \subseteq DOMAIN pending
  BY DEF Live
<1> HIDE DEF i, begins, kept, chunks, whole, created
<1>5. crowd'[d] = crowd[d] /\ crowd[d] \in Nat
  BY <1>2, <1>3 DEF TicketsDiffer
<1>6. CASE d \in delivered \/ whole
  BY <1>1, <1>6, Zenon DEF KeptInCrowd
<1>7. CASE d \notin delivered /\ ~whole
  <2>1. chunks = arrived[d] \union {i}
    BY <1>7, <1>4, Zenon DEF KeptInCrowd, chunks, begins
  <2>2. arrived'[d] = chunks
    BY <1>1, <1>3, <2>1, Zenon DEF PendingOK
  <2>3. /\ d \in DOMAIN pending' /\ pending'[d].chunks = chunks /\ pending'[d].created = created
        /\ DOMAIN pending' \subseteq Live \union {d}
        /\ \A k \in DOMAIN pending' : k # d => pending'[k] = pending[k]
    BY <1>1, <1>4, <1>7, SMTT(30)
  <2>4. created >= expired
    BY SMTT(30) DEF created, begins, Live, PendingOK
  <2>5. d \in Live'
    BY <1>1, <2>3, <2>4, SMTT(30) DEF Live
  <2>6. Unfinished(d)'
    BY <1>7, <2>1, <2>2 DEF Unfinished, Complete, whole
  <2>7. Cardinality(Younger(d)') <= crowd[d]
    <3>1. CASE begins
      <4>1. \A k \in Live : pending[k].created \in Nat /\ pending[k].created < tickets /\ tickets \in Nat
        BY SMTT(30) DEF PendingOK, Live
      <4>2. \A k \in DOMAIN pending' : ~(pending'[k].created > pending'[d].created)
        <5> TAKE k \in DOMAIN pending'
        <5>1. pending'[d].created = tickets /\ tickets \in Nat
          BY <2>3, <3>1 DEF created, PendingOK
        <5>2. CASE k = d
          BY <5>1, <5>2
        <5>3. CASE k # d
          BY <2>3, <4>1, <5>1, <5>3
        <5>4. QED
          BY <5>2, <5>3
      <4>3. Younger(d)' = {}
        BY <4>2 DEF Younger
      <4>4. QED
        BY <1>5, <4>3, FS_EmptySet, SMTT(30)
    <3>2. CASE ~begins
      <4>1. Younger(d)' \subseteq Younger(d)
        BY <2>3, <3>2, SMTT(30) DEF created, begins, Live, Younger
      <4>2. Younger(d) \subseteq DOMAIN pending
        BY SMTT(30) DEF Younger
      <4>3. /\ Cardinality(Younger(d)') <= Cardinality(Younger(d))
            /\ Cardinality(Younger(d)') \in Nat /\ Cardinality(Younger(d)) \in Nat
        BY <4>1, <4>2, FewerCounted
      <4>4. Cardinality(Younger(d)) <= crowd[d]
        BY <1>7, <3>2, <1>4 DEF KeptInCrowd, begins
      <4>5. QED
        BY <1>5, <4>3, <4>4, SMTT(30)
    <3>3. QED
      BY <3>1, <3>2, SMTT(30)
  <2>8. QED
    BY <1>5, <2>2, <2>3, <2>5, <2>6, <2>7, Zenon DEF KeptInCrowd
<1>8. QED
  BY <1>6, <1>7

(* The other messages: one of them is pushed out only when crowded. *)
LEMMA AcceptKeepsOthers ==
  ASSUME PendingOK, TicketsDiffer, NEW f \in net, Accept(f[1], f[2]),
         NEW d \in Data, d # f[1], KeptInCrowd(d), crowd'[d] < MAX_DATA_IN_FLIGHT
  PROVE  KeptInCrowd(d)'
<1> DEFINE m == f[1]
           begins == m \notin Live
           kept == IF begins /\ Full(m) THEN Live \ Victim(m) ELSE Live
           chunks == (IF begins THEN {} ELSE pending[m].chunks) \union {f[2]}
           whole == Complete(m, chunks)
           created == IF begins THEN tickets ELSE pending[m].created
<1>1. /\ pending' = [k \in (IF whole THEN kept \ {m} ELSE kept \union {m}) |->
                        IF k = m THEN [created |-> created, chunks |-> chunks] ELSE pending[k]]
      /\ delivered' = IF whole THEN delivered \union {m} ELSE delivered
      /\ arrived' = [arrived EXCEPT ![m] = @ \union {f[2]}]
      /\ expired' = expired
      /\ ~Refuses(m)
  BY Zenon DEF Accept
<1>2. crowd' = [k \in Messages |->
                  IF begins /\ m \in Data /\ k # m /\ Unfinished(k) THEN crowd[k] + 1 ELSE crowd[k]]
  BY Zenon DEF Accept
<1>3. d \in Messages /\ d \notin Control /\ m \in Messages /\ d # m
  BY FromNet DEF Data
<1>4. kept \subseteq Live /\ Live \subseteq DOMAIN pending
  BY SMTT(30) DEF Live
<1> HIDE DEF m, begins, kept, chunks, whole, created
<1>5. arrived'[d] = arrived[d] /\ delivered \subseteq delivered'
  BY <1>1, <1>3, Zenon DEF PendingOK
<1>6. /\ DOMAIN pending' \subseteq kept \union {m}
      /\ \A k \in DOMAIN pending' : k # m => pending'[k] = pending[k]
      /\ m \in DOMAIN pending' => pending'[m].created = created
      /\ \A k \in kept : k # m => k \in DOMAIN pending'
  BY <1>1, Zenon
<1>7. CASE d \notin Live \/ d \in delivered
  <2>1. d \in DOMAIN pending => d \in delivered \/ d \notin Live
    BY <1>7
  <2>2. CASE d \in delivered
    BY <1>5, <2>2, Zenon DEF KeptInCrowd
  <2>3. CASE d \notin delivered
    BY <1>3, <1>4, <1>5, <1>6, <1>7, <2>3, SMTT(30) DEF KeptInCrowd
  <2>4. QED
    BY <2>2, <2>3
<1>8. CASE d \in Live /\ d \notin delivered
  <2>1. /\ pending[d].chunks = arrived[d] /\ Unfinished(d)
        /\ Cardinality(Younger(d)) <= crowd[d]
    BY <1>4, <1>8, SMTT(30) DEF KeptInCrowd
  <2>2. Younger(d) \subseteq DOMAIN pending
    BY DEF Younger
  <2>3. /\ Cardinality(Younger(d)) \in Nat /\ crowd[d] \in Nat
        /\ IsFiniteSet(Younger(d)) /\ MAX_DATA_IN_FLIGHT \in Nat
    BY <1>3, <2>2, FewerCounted, LimitsAssumption, Zenon DEF TicketsDiffer
  <2>4. crowd'[d] = IF begins /\ m \in Data THEN crowd[d] + 1 ELSE crowd[d]
    BY <1>2, <1>3, <2>1, Zenon
  <2>5. d \in kept
    <3>1. CASE begins /\ Full(m)
      <4>1. m \in Data
        BY <1>1, <1>3, <3>1, SMTT(30) DEF Refuses, begins, Data
      <4>2. ASSUME d = Oldest(Likes(m)) PROVE FALSE
        <5>1. Cardinality(Younger(d)) + 1 >= MAX_DATA_IN_FLIGHT
          BY <3>1, <4>1, <4>2, PushedOutWhenCrowded, SMTT(30)
        <5>2. QED
          BY <2>1, <2>3, <2>4, <3>1, <4>1, <5>1, SMTT(30)
      <4>3. QED
        BY <1>8, <4>2, SMTT(30) DEF kept, Victim
    <3>2. CASE ~(begins /\ Full(m))
      BY <1>8, <3>2, SMTT(30) DEF kept
    <3>3. QED
      BY <3>1, <3>2, Zenon
  <2>6. d \in DOMAIN pending' /\ pending'[d] = pending[d]
    BY <1>3, <1>6, <2>5
  <2>7. d \in Live'
    BY <1>1, <1>8, <2>6, Zenon DEF Live
  <2>8. Unfinished(d)'
    BY <1>5, <2>1, Zenon DEF Unfinished, Complete
  <2>9. Cardinality(Younger(d)') <= crowd'[d]
    <3>1. CASE begins /\ m \in Data
      <4>1. Younger(d)' \subseteq Younger(d) \union {m}
        BY <1>4, <1>6, <2>6, Zenon DEF Younger
      <4>2. /\ IsFiniteSet(Younger(d) \union {m})
            /\ Cardinality(Younger(d) \union {m}) <= Cardinality(Younger(d)) + 1
            /\ Cardinality(Younger(d) \union {m}) \in Nat
        <5> DEFINE Y == Younger(d)
        <5> HIDE DEF Y
        <5>1. /\ IsFiniteSet(Y \union {m})
              /\ Cardinality(Y \union {m}) = IF m \in Y THEN Cardinality(Y) ELSE Cardinality(Y) + 1
          BY <2>3, FS_AddElement, SMTT(30) DEF Y
        <5>2. QED
          BY <2>3, <5>1, SMTT(30) DEF Y
      <4>3. /\ Cardinality(Younger(d)') <= Cardinality(Younger(d) \union {m})
            /\ Cardinality(Younger(d)') \in Nat
        BY <4>1, <4>2, FS_Subset, FS_CardinalityType, Zenon
      <4>4. QED
        BY <2>1, <2>3, <2>4, <3>1, <4>2, <4>3, SMTT(30)
    <3>2. CASE ~(begins /\ m \in Data)
      <4>1. ASSUME NEW k \in Younger(d)' PROVE k \in Younger(d)
        <5>1. k \in DOMAIN pending' /\ k \notin Control /\ pending'[k].created > pending[d].created
          BY <2>6, SMTT(30) DEF Younger
        <5>2. CASE k # m
          BY <1>4, <1>6, <5>1, <5>2, SMTT(30) DEF Younger
        <5>3. CASE k = m
          <6>1. m \in Data /\ ~begins
            BY <1>3, <3>2, <5>1, <5>3 DEF Data
          <6>2. QED
            <7>1. pending'[m].created = pending[m].created /\ m \in DOMAIN pending
              BY <1>4, <1>6, <5>1, <5>3, <6>1, SMTT(30) DEF created, begins
            <7>2. QED
              BY <5>1, <5>3, <7>1, SMTT(30) DEF Younger
        <5>4. QED
          BY <5>2, <5>3, SMTT(30)
      <4>2. /\ Cardinality(Younger(d)') <= Cardinality(Younger(d))
            /\ Cardinality(Younger(d)') \in Nat
        <5>1. Younger(d)' \subseteq Younger(d)
          BY <4>1, SMTT(30)
        <5>2. QED
          BY <2>2, <5>1, FewerCounted, SMTT(30)
      <4>3. QED
        BY <2>1, <2>3, <2>4, <3>2, <4>2, SMTT(30)
    <3>3. QED
      BY <3>1, <3>2, SMTT(30)
  <2>10. QED
    BY <1>5, <2>1, <2>6, <2>7, <2>8, <2>9, SMTT(30) DEF KeptInCrowd
<1>9. QED
  BY <1>7, <1>8

LEMMA StepKeepsData ==
  ASSUME PendingOK, TicketsDiffer, DataKept, [Next]_vars
  PROVE  DataKept'
<1> SUFFICES ASSUME NEW d \in Data, d \notin disturbed', crowd'[d] < MAX_DATA_IN_FLIGHT
             PROVE  KeptInCrowd(d)'
  BY SMTT(30) DEF DataKept, Data
<1>0. /\ d \in Messages /\ d \notin Control
      /\ d \notin disturbed /\ crowd[d] < MAX_DATA_IN_FLIGHT => KeptInCrowd(d)
  BY SMTT(30) DEF DataKept, Data
<1>1. ASSUME NEW f \in net, Refuse(f[1], f[2]) PROVE KeptInCrowd(d)'
  <2>1. d # f[1] /\ d \notin disturbed
    BY <1>1 DEF Refuse
  <2>2. /\ arrived'[d] = arrived[d] /\ delivered' = delivered
        /\ expired' = expired /\ crowd' = crowd
    BY <1>1, <2>1, <1>0, SMTT(30) DEF Refuse, PendingOK
  <2>3. DOMAIN pending' = Live /\ \A m \in Live : pending'[m] = pending[m]
    BY <1>1, SMTT(30) DEF Refuse, Restrict, Live
  <2>4. d \in Live => d \in Live'
    BY <2>2, <2>3, SMTT(30) DEF Live
  <2>5. Live \subseteq DOMAIN pending
    BY DEF Live
  <2>6. QED
    BY <1>0, <2>1, <2>2, <2>3, <2>4, <2>5, StaysKept, SMTT(30)
<1>2. ASSUME NEW f \in net, Accept(f[1], f[2]) PROVE KeptInCrowd(d)'
  <2>1. d \notin disturbed
    BY <1>2, Zenon DEF Accept
  <2>2. crowd'[d] \in {crowd[d], crowd[d] + 1} /\ crowd[d] \in Nat
    BY <1>0, <1>2, Zenon DEF Accept, TicketsDiffer
  <2>3. KeptInCrowd(d)
    BY <1>0, <2>1, <2>2, LimitsAssumption, SMTT(30)
  <2>4. QED
    BY <1>2, <2>3, AcceptKeepsOwn, AcceptKeepsOthers
<1>3. ASSUME NEW g, discard_fec_group(g) PROVE KeptInCrowd(d)'
  <2>1. d \notin disturbed /\ Group[d] # g
    BY <1>0, <1>3, Zenon DEF discard_fec_group
  <2>2. /\ arrived' = arrived /\ delivered' = delivered /\ expired' = expired /\ crowd' = crowd
        /\ DOMAIN pending' = DOMAIN pending \ {m \in DOMAIN pending : Group[m] = g}
        /\ \A m \in DOMAIN pending' : pending'[m] = pending[m]
    BY <1>3, SMTT(30) DEF discard_fec_group, Restrict
  <2>3. d \in Live => d \in Live' /\ pending'[d] = pending[d]
    BY <2>1, <2>2, SMTT(30) DEF Live
  <2>4. QED
    BY <1>0, <2>1, <2>2, <2>3, StaysKept, Zenon
<1>4. CASE Age
  <2>1. /\ pending' = pending /\ crowd' = crowd /\ arrived' = arrived /\ delivered' = delivered
        /\ d \notin disturbed
    BY <1>4, Zenon DEF Age
  <2>2. PICK m \in Live : expired' = pending[m].created + 1
    BY <1>4, SMTT(30) DEF Age
  <2>3. expired' \in Nat
    BY <2>2, SMTT(30) DEF Live, PendingOK
  <2>4. d \in DOMAIN pending => pending[d].created >= expired'
    BY <1>4, <2>3, SMTT(30) DEF Age, PendingOK
  <2>5. d \in Live => d \in Live'
    BY <2>1, <2>4, SMTT(30) DEF Live
  <2>6. QED
    BY <1>0, <2>1, <2>5, StaysKept, Zenon
<1>5. CASE UNCHANGED vars
  BY <1>0, <1>5, StaysKept, Zenon DEF vars, Live
<1>6. QED
  BY <1>1, <1>2, <1>3, <1>4, <1>5 DEF Next

(* "A lost part of an IP packet does not block new data until the TTL": with any
   messages, losses and orders of arrival, a data message whose fragments have all come
   is handed over unless as many assemblies as fit began after it; and what is under
   assembly stays within the limits (accept_detailed). *)
THEOREM DataMessagesSurvive == Spec => []ReassemblySound
<1> DEFINE DataInv == PendingOK /\ TicketsDiffer /\ DataKept
<1>1. Init => DataInv
  <2> SUFFICES ASSUME Init PROVE DataInv
    OBVIOUS
  <2>1. DOMAIN pending = {}
    BY DEF Init
  <2>2. PendingOK /\ TicketsDiffer
    BY <2>1, SMTT(30) DEF Init, PendingOK, TicketsDiffer
  <2>3. DataKept
    BY <2>1, SMTT(30) DEF Init, DataKept, KeptInCrowd, Data
  <2>4. QED
    BY <2>2, <2>3
<1>2. DataInv /\ [Next]_vars => DataInv'
  BY StepKeepsPending, StepKeepsTickets, StepKeepsData
<1>3. DataInv => DataSurvives
  <2> SUFFICES ASSUME DataKept, NEW m \in Data, Complete(m, arrived[m]), m \notin disturbed,
                      crowd[m] < MAX_DATA_IN_FLIGHT
               PROVE  m \in delivered
    BY DEF DataSurvives
  <2>1. arrived[m] # {}
    BY FS_EmptySet, LimitsAssumption, SMTT(30) DEF Complete, Data
  <2>2. KeptInCrowd(m)
    BY DEF DataKept
  <2>3. QED
    BY <2>1, <2>2, Zenon DEF KeptInCrowd, Unfinished
<1>4. Spec => []DataSurvives
  BY <1>1, <1>2, <1>3, PTL DEF Spec
<1>5. QED
  BY <1>4, ReassemblyBounded, PTL DEF ReassemblySound
-----------------------------------------------------------------------------
(* Counters of the downlink *)

(* The counters of a block that are still to be used. *)
Left(b) == b.next .. b.end - 1

SessionOK ==
  /\ sess \in [key : Nat, send : Nat, window : Nat] /\ object \in Nat
  /\ block \in [next : Nat, end : Nat, window : Nat]
  /\ at \in [Workers -> {"idle", "check", "refresh", "rearm"}]
  /\ built \in [Workers -> [next : Nat, end : Nat, window : Nat]]
  /\ now \in Nat

(* Every counter given away is below send_counter and belongs to one block; no
   packet was sent with it, under any key since the ratchet.  The handshake's
   key is never the kernel's, so its packets are out of the way: before the
   ratchet there is no block, and after it the key is not used again. *)
CountersApart ==
  /\ ~reused
  /\ sess.key = initial => object = 0 /\ Left(block) = {} /\ \A w \in Workers : Left(built[w]) = {}
  /\ \A u \in used : u \in Nat \X Nat
  /\ \A u \in used : u[1] = initial => sess.key # initial \/ u[2] < sess.send
  /\ \A u \in used : u[1] # initial =>
       /\ sess.key # initial /\ u[2] < sess.send
       /\ u[2] \notin Left(block) /\ \A w \in Workers : u[2] \notin Left(built[w])
  /\ \A c \in Left(block) : c < sess.send /\ \A w \in Workers : c \notin Left(built[w])
  /\ \A w \in Workers : \A c \in Left(built[w]) :
       /\ c < sess.send
       /\ \A v \in Workers \ {w} : c \notin Left(built[v])

DownlinkInv == SessionOK /\ CountersApart

(* The counters of a new block start where send_counter was, past all others. *)
LEMMA TakenBlock ==
  ASSUME DownlinkInv, make_kernel_downlink(sess)
  PROVE  /\ sess' = [sess EXCEPT !.send = sess.send + Block, !.window = now]
         /\ sess' \in [key : Nat, send : Nat, window : Nat]
         /\ sess'.key = sess.key /\ sess.key # initial /\ sess'.send >= sess.send
         /\ Reserved \in [next : Nat, end : Nat, window : Nat]
         /\ \A c \in Left(Reserved) : c >= sess.send /\ c < sess'.send
<1>1. sess \in [key : Nat, send : Nat, window : Nat] /\ now \in Nat
  BY DEF DownlinkInv, SessionOK
<1>2. sess' = [sess EXCEPT !.send = sess.send + Block, !.window = now] /\ sess.key # initial
  BY <1>1 DEF make_kernel_downlink
<1>3. sess.key \in Nat /\ sess.send \in Nat /\ Block \in Nat /\ sess.send + Block \in Nat
  BY <1>1, DownlinkAssumption
<1>4. sess' = [key |-> sess.key, send |-> sess.send + Block, window |-> now]
  BY <1>1, <1>2, Zenon
<1>5. \A c \in Left(Reserved) : c >= sess.send /\ c < sess.send + Block
  BY <1>3 DEF Reserved, Left
<1>6. QED
  BY <1>1, <1>2, <1>3, <1>4, <1>5 DEF Reserved

LEMMA NothingLeft == NoBlock \in [next : Nat, end : Nat, window : Nat] /\ Left(NoBlock) = {}
BY DEF NoBlock, Left

LEMMA InitDownlink == DownlinkInit => DownlinkInv
<1> SUFFICES ASSUME DownlinkInit PROVE DownlinkInv
  OBVIOUS
<1>1. SessionOK
  BY NothingLeft DEF DownlinkInit, SessionOK, initial
<1>2. CountersApart
  BY NothingLeft, SMTT(30) DEF DownlinkInit, CountersApart
<1>3. QED
  BY <1>1, <1>2 DEF DownlinkInv

(* A worker takes a block (make_kernel_downlink, called for new tags and by the
   check at the end of a packet). *)
LEMMA WorkerTakes ==
  ASSUME DownlinkInv, NEW w \in Workers, make_kernel_downlink(sess),
         built' = [built EXCEPT ![w] = Reserved],
         at' \in [Workers -> {"idle", "check", "refresh", "rearm"}],
         UNCHANGED <<object, block, now, used, reused>>
  PROVE  DownlinkInv'
<1>1. /\ sess' \in [key : Nat, send : Nat, window : Nat]
      /\ sess'.key = sess.key /\ sess.key # initial /\ sess'.send >= sess.send
      /\ Reserved \in [next : Nat, end : Nat, window : Nat]
      /\ \A c \in Left(Reserved) : c >= sess.send /\ c < sess'.send
  BY TakenBlock
<1>2. SessionOK /\ CountersApart
  BY DEF DownlinkInv
<1>3. SessionOK'
  BY <1>1, <1>2 DEF SessionOK
<1>4. \A v \in Workers : Left(built'[v]) = IF v = w THEN Left(Reserved) ELSE Left(built[v])
  BY <1>2 DEF SessionOK
<1>5. /\ sess.send \in Nat /\ sess'.send \in Nat /\ Left(block) \subseteq Nat
      /\ Left(Reserved) \subseteq Nat /\ \A v \in Workers : Left(built[v]) \subseteq Nat
  BY <1>1, <1>2, SMTT(30) DEF SessionOK, Left
<1>6. \A u \in used : u[1] # initial =>
       /\ u[2] < sess'.send /\ u[2] \notin Left(block)
       /\ \A v \in Workers : u[2] \notin Left(built'[v])
  BY <1>1, <1>2, <1>4, <1>5, SMTT(30) DEF CountersApart
<1>7. \A c \in Left(block) : c < sess'.send /\ \A v \in Workers : c \notin Left(built'[v])
  BY <1>1, <1>2, <1>4, <1>5, SMTT(30) DEF CountersApart
<1>8. ASSUME NEW v \in Workers, NEW c \in Left(built'[v])
      PROVE  c < sess'.send /\ \A x \in Workers \ {v} : c \notin Left(built'[x])
  <2>1. CASE v = w
    <3>1. c \in Left(Reserved) /\ c >= sess.send /\ c < sess'.send /\ c \in Nat
      BY <1>1, <1>4, <1>5, <1>8, <2>1, SMTT(30)
    <3>2. ASSUME NEW x \in Workers \ {v} PROVE c \notin Left(built[x])
      BY <1>2, <1>5, <3>1, SMTT(30) DEF CountersApart
    <3>3. QED
      BY <1>4, <2>1, <3>1, <3>2, SMTT(30)
  <2>2. CASE v # w
    BY <1>1, <1>2, <1>4, <1>5, <1>8, <2>2, SMTT(30) DEF CountersApart
  <2>3. QED
    BY <2>1, <2>2, SMTT(30)
<1>9. CountersApart'
  BY <1>1, <1>2, <1>6, <1>7, <1>8, Zenon DEF CountersApart
<1>10. QED
  BY <1>3, <1>9 DEF DownlinkInv

(* kernel_maintain takes a block and puts it into the kernel at once. *)
LEMMA MaintainHolds ==
  ASSUME DownlinkInv, kernel_maintain
  PROVE  DownlinkInv'
<1>0. make_kernel_downlink(sess)
  BY DEF kernel_maintain
<1>1. /\ sess' \in [key : Nat, send : Nat, window : Nat]
      /\ sess'.key = sess.key /\ sess.key # initial /\ sess'.send >= sess.send
      /\ Reserved \in [next : Nat, end : Nat, window : Nat]
      /\ \A c \in Left(Reserved) : c >= sess.send /\ c < sess'.send
  BY <1>0, TakenBlock
<1>2. SessionOK /\ CountersApart
  BY DEF DownlinkInv
<1>3. /\ object' = sess.key /\ block' = Reserved
      /\ UNCHANGED <<at, built, now, used, reused>>
  BY DEF kernel_maintain
<1>4. SessionOK'
  BY <1>1, <1>2, <1>3 DEF SessionOK
<1>5. /\ sess.send \in Nat /\ sess'.send \in Nat
      /\ Left(Reserved) \subseteq Nat /\ \A v \in Workers : Left(built[v]) \subseteq Nat
  BY <1>1, <1>2 DEF SessionOK, Left
<1>6. CountersApart'
  <2>1. \A u \in used : u[1] # initial => u[2] < sess'.send /\ u[2] \notin Left(block')
    BY <1>1, <1>2, <1>3, <1>5, SMTT(30) DEF CountersApart
  <2>2. \A c \in Left(block') : c < sess'.send /\ \A w \in Workers : c \notin Left(built[w])
    BY <1>1, <1>2, <1>3, <1>5, SMTT(30) DEF CountersApart
  <2>3. \A w \in Workers : \A c \in Left(built[w]) : c < sess'.send
    BY <1>1, <1>2, <1>5, SMTT(30) DEF CountersApart
  <2>4. QED
    BY <1>1, <1>2, <1>3, <2>1, <2>2, <2>3, Zenon DEF CountersApart
<1>7. QED
  BY <1>4, <1>6 DEF DownlinkInv

(* A block that is installed moves from its worker to the kernel. *)
LEMMA InstallHolds ==
  ASSUME DownlinkInv, NEW w \in Workers, Install(w)
  PROVE  DownlinkInv'
<1>1. SessionOK /\ CountersApart
  BY DEF DownlinkInv
<1>2. /\ built' = [built EXCEPT ![w] = NoBlock]
      /\ at' \in [Workers -> {"idle", "check", "refresh", "rearm"}]
      /\ block' = (IF object # 0 THEN built[w] ELSE block)
      /\ UNCHANGED <<sess, object, now, used, reused>>
  BY <1>1, SMTT(30) DEF Install, SessionOK
<1>3. SessionOK'
  BY <1>1, <1>2, NothingLeft DEF SessionOK
<1>4. \A v \in Workers : Left(built'[v]) = IF v = w THEN {} ELSE Left(built[v])
  BY <1>1, <1>2, NothingLeft, Zenon DEF SessionOK
<1>5. Left(block') = Left(built[w]) \/ Left(block') = Left(block)
  BY <1>2
<1>6. CountersApart'
  <2>1. \A u \in used : u[1] # initial =>
          u[2] \notin Left(block') /\ \A v \in Workers : u[2] \notin Left(built'[v])
    BY <1>1, <1>4, <1>5, Zenon DEF CountersApart
  <2>2. \A c \in Left(block') : c < sess.send /\ \A v \in Workers : c \notin Left(built'[v])
    BY <1>1, <1>4, <1>5, Zenon DEF CountersApart
  <2>3. \A v \in Workers : \A c \in Left(built'[v]) :
          c < sess.send /\ \A x \in Workers \ {v} : c \notin Left(built'[x])
    BY <1>1, <1>4, Zenon DEF CountersApart
  <2>4. sess.key = initial => Left(block') = {} /\ \A v \in Workers : Left(built'[v]) = {}
    BY <1>1, <1>4, <1>5, Zenon DEF CountersApart
  <2>5. QED
    BY <1>1, <1>2, <2>1, <2>2, <2>3, <2>4, Zenon DEF CountersApart
<1>7. QED
  BY <1>3, <1>6 DEF DownlinkInv

(* A block without its first counter. *)
LEMMA BlockShrinks ==
  ASSUME NEW b \in [next : Nat, end : Nat, window : Nat], b.next < b.end
  PROVE  /\ b.next \in Left(b) /\ b.next \in Nat
         /\ Left([b EXCEPT !.next = b.next + 1]) = Left(b) \ {b.next}
         /\ [b EXCEPT !.next = b.next + 1] \in [next : Nat, end : Nat, window : Nat]
BY DEF Left

(* The kernel sends with the next counter of its block, which leaves the block. *)
LEMMA KernelSendsHolds ==
  ASSUME DownlinkInv, KernelSends
  PROVE  DownlinkInv'
<1>1. SessionOK /\ CountersApart
  BY DEF DownlinkInv
<1>2. /\ object # 0 /\ block.next < block.end
      /\ used' = used \union {<<object, block.next>>}
      /\ reused' = (reused \/ <<object, block.next>> \in used)
      /\ block' = [block EXCEPT !.next = block.next + 1]
      /\ UNCHANGED <<sess, object, at, built, now>>
  BY DEF KernelSends, Emit
<1>3. /\ block.next \in Left(block) /\ Left(block') = Left(block) \ {block.next}
      /\ block' \in [next : Nat, end : Nat, window : Nat] /\ block.next \in Nat
  <2>1. block \in [next : Nat, end : Nat, window : Nat]
    BY <1>1, Zenon DEF SessionOK
  <2>2. QED
    BY <1>2, <2>1, BlockShrinks, Zenon
<1>4. object # initial /\ object \in Nat /\ sess.key # initial
  BY <1>1, <1>2 DEF CountersApart, SessionOK, initial
<1>5. <<object, block.next>> \notin used
  BY <1>1, <1>3, <1>4, SMTT(30) DEF CountersApart
<1>6. SessionOK'
  BY <1>1, <1>2, <1>3 DEF SessionOK
<1>7. CountersApart'
  <2>1. \A u \in used' : u \in Nat \X Nat
    BY <1>1, <1>2, <1>3, <1>4 DEF CountersApart
  <2>2. \A u \in used' : u[1] = initial => sess.key # initial \/ u[2] < sess.send
    BY <1>4
  <2>3. \A u \in used' : u[1] # initial =>
          /\ u[2] < sess.send /\ u[2] \notin Left(block')
          /\ \A w \in Workers : u[2] \notin Left(built[w])
    <3> SUFFICES ASSUME NEW u \in used', u[1] # initial
                 PROVE  /\ u[2] < sess.send /\ u[2] \notin Left(block')
                        /\ \A w \in Workers : u[2] \notin Left(built[w])
      BY SMTT(30)
    <3>1. CASE u \in used
      BY <1>1, <1>3, <3>1, SMTT(30) DEF CountersApart
    <3>2. CASE u = <<object, block.next>>
      BY <1>1, <1>3, <3>2, SMTT(30) DEF CountersApart
    <3>3. QED
      BY <1>2, <3>1, <3>2
  <2>4. QED
    BY <1>1, <1>2, <1>3, <1>4, <1>5, <2>1, <2>2, <2>3, Zenon DEF CountersApart
<1>8. QED
  BY <1>6, <1>7 DEF DownlinkInv

(* The server sends with send_counter, which no block has. *)
LEMMA ServerSendsHolds ==
  ASSUME DownlinkInv, ServerSends
  PROVE  DownlinkInv'
<1>1. SessionOK /\ CountersApart
  BY DEF DownlinkInv
<1>2. /\ used' = used \union {<<sess.key, sess.send>>}
      /\ reused' = (reused \/ <<sess.key, sess.send>> \in used)
      /\ sess' = [sess EXCEPT !.send = sess.send + 1]
      /\ UNCHANGED <<object, block, at, built, now>>
  BY DEF ServerSends, Emit
<1>3. /\ sess.key \in Nat /\ sess.send \in Nat /\ sess'.key = sess.key
      /\ sess'.send = sess.send + 1 /\ sess' \in [key : Nat, send : Nat, window : Nat]
      /\ Left(block) \subseteq Nat /\ \A w \in Workers : Left(built[w]) \subseteq Nat
  BY <1>1, <1>2 DEF SessionOK, Left
<1>4. <<sess.key, sess.send>> \notin used
  BY <1>1, <1>3, SMTT(30) DEF CountersApart
<1>5. SessionOK'
  BY <1>1, <1>2, <1>3 DEF SessionOK
<1>6. CountersApart'
  <2>1. \A u \in used' : u \in Nat \X Nat
    BY <1>1, <1>2, <1>3 DEF CountersApart
  <2>2. ASSUME NEW u \in used'
        PROVE  /\ u[1] = initial => sess.key # initial \/ u[2] < sess'.send
               /\ u[1] # initial =>
                    /\ sess.key # initial /\ u[2] < sess'.send /\ u[2] \notin Left(block)
                    /\ \A w \in Workers : u[2] \notin Left(built[w])
    <3>1. CASE u \in used
      <4>1. u[2] \in Nat
        BY <1>1, <3>1, SMTT(30) DEF CountersApart
      <4>2. QED
        BY <1>1, <1>3, <3>1, <4>1, SMTT(30) DEF CountersApart
    <3>2. CASE u = <<sess.key, sess.send>>
      <4>1. sess.send \notin Left(block) /\ \A w \in Workers : sess.send \notin Left(built[w])
        BY <1>1, <1>3, SMTT(30) DEF CountersApart
      <4>2. QED
        BY <1>3, <3>2, <4>1, SMTT(30)
    <3>3. QED
      BY <1>2, <2>2, <3>1, <3>2
  <2>3. /\ \A c \in Left(block) : c < sess'.send
        /\ \A w \in Workers : \A c \in Left(built[w]) : c < sess'.send
    BY <1>1, <1>3, SMTT(30) DEF CountersApart
  <2>4. QED
    BY <1>1, <1>2, <1>3, <1>4, <2>1, <2>2, <2>3, Zenon DEF CountersApart
<1>7. QED
  BY <1>5, <1>6 DEF DownlinkInv

(* The ratchet starts the counters again; only the handshake's key was used. *)
LEMMA RatchetHolds ==
  ASSUME DownlinkInv, complete_ratchet
  PROVE  DownlinkInv'
<1>1. SessionOK /\ CountersApart
  BY DEF DownlinkInv
<1>2. /\ sess.key = initial /\ sess' = [sess EXCEPT !.key = 1, !.send = 0]
      /\ UNCHANGED <<object, block, at, built, now, used, reused>>
  BY DEF complete_ratchet
<1>3. /\ sess' \in [key : Nat, send : Nat, window : Nat]
      /\ sess'.key # initial
  <2>1. sess' = [key |-> 1, send |-> 0, window |-> sess.window] /\ sess.window \in Nat
    BY <1>1, <1>2, Zenon DEF SessionOK
  <2>2. QED
    BY <2>1, SMTT(30) DEF initial
<1>4. QED
  BY <1>1, <1>2, <1>3 DEF DownlinkInv, SessionOK, CountersApart

LEMMA RekeyHolds ==
  ASSUME DownlinkInv, Rekey
  PROVE  DownlinkInv'
<1>1. SessionOK /\ CountersApart
  BY DEF DownlinkInv
<1>2. /\ sess.key \in 1 .. MaxKey - 1 /\ sess' = [sess EXCEPT !.key = sess.key + 1]
      /\ UNCHANGED <<object, block, at, built, now, used, reused>>
  BY DEF Rekey
<1>3. /\ sess' \in [key : Nat, send : Nat, window : Nat]
      /\ sess'.key # initial /\ sess.key # initial /\ sess'.send = sess.send
  BY <1>1, <1>2, DownlinkAssumption DEF SessionOK, initial
<1>4. QED
  BY <1>1, <1>2, <1>3 DEF DownlinkInv, SessionOK, CountersApart

(* A step that leaves counters, blocks and keys alone. *)
LEMMA IdleHolds ==
  ASSUME DownlinkInv, UNCHANGED <<sess, object, block, built, used, reused>>, now' \in Nat,
         at' \in [Workers -> {"idle", "check", "refresh", "rearm"}]
  PROVE  DownlinkInv'
BY Zenon DEF DownlinkInv, SessionOK, CountersApart

LEMMA StepDownlink == DownlinkInv /\ [DownlinkNext]_downlinkVars => DownlinkInv'
<1> SUFFICES ASSUME DownlinkInv, [DownlinkNext]_downlinkVars PROVE DownlinkInv'
  OBVIOUS
<1>1. now \in Nat /\ at \in [Workers -> {"idle", "check", "refresh", "rearm"}]
  BY DEF DownlinkInv, SessionOK
<1>2. CASE UNCHANGED downlinkVars
  BY <1>1, <1>2, IdleHolds, SMTT(30) DEF downlinkVars
<1>3. CASE Tick
  BY <1>1, <1>3, IdleHolds, SMTT(30) DEF Tick
<1>4. ASSUME NEW w \in Workers, Packet(w)
      PROVE  DownlinkInv'
  BY <1>1, <1>4, IdleHolds, SMTT(30) DEF Packet
<1>5. ASSUME NEW w \in Workers, RefreshTags(w)
      PROVE  DownlinkInv'
  BY <1>1, <1>5, WorkerTakes, Zenon DEF RefreshTags
<1>6. ASSUME NEW w \in Workers, WindowCheck(w)
      PROVE  DownlinkInv'
  BY <1>1, <1>6, WorkerTakes, IdleHolds, SMTT(30) DEF WindowCheck
<1>7. QED
  BY <1>2, <1>3, <1>4, <1>5, <1>6, RatchetHolds, RekeyHolds, ServerSendsHolds, MaintainHolds,
     KernelSendsHolds, InstallHolds DEF DownlinkNext

(* The server and the kernel never send two packets under one key and counter,
   for every block size and any number of workers, in whatever order blocks and
   keys reach the kernel (make_kernel_downlink, aivpn_session_dl_reserve). *)
THEOREM NoncesStayUnique == DownlinkSpec => []NoncesUnique
<1>1. DownlinkInv => NoncesUnique
  BY SMTT(30) DEF DownlinkInv, CountersApart, NoncesUnique
<1>2. QED
  BY InitDownlink, StepDownlink, <1>1, PTL DEF DownlinkSpec
=============================================================================
