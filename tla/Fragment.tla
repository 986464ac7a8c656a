------------------------------ MODULE Fragment ------------------------------
(***************************************************************************)
(* Reassembly of fragmented messages: Reassembler of                       *)
(* aivpn-common/src/fragment.rs, as the gateway uses it.                   *)
(*                                                                         *)
(* Fragments come in any order and any of them may be lost; the replay     *)
(* check in front of the reassembler lets each through once.  Messages     *)
(* under assembly are limited in number and age: a control message beyond  *)
(* the limit is refused, a data message beyond it pushes out the oldest    *)
(* one.  A message pushed out can come back as an assembly of its          *)
(* remaining fragments, which will never be complete and still takes a     *)
(* place.                                                                  *)
(***************************************************************************)
EXTENDS Integers, FiniteSets, Functions

CONSTANTS Messages,
          Control,       \* the messages of kind InnerType::Control
          Group,         \* Messages -> group number of a data message under FEC, or NoGroup
          NoGroup,
          Parts,         \* Messages -> number of fragments
          MAX_IN_FLIGHT, MAX_DATA_IN_FLIGHT,
          MaxLosses      \* bound on the expiries and the groups completed

ASSUME LimitsAssumption ==
    /\ MAX_IN_FLIGHT \in Nat \ {0} /\ MAX_DATA_IN_FLIGHT \in Nat \ {0}
    /\ IsFiniteSet(Messages) /\ Control \subseteq Messages
    /\ Parts \in [Messages -> Nat \ {0}]

VARIABLES net,        \* fragments on their way
          pending,    \* message -> [created, chunks]
          tickets,    \* assemblies begun so far: the order of the creation times
          expired,    \* assemblies begun before this ticket are older than ASSEMBLY_TTL
          losses,     \* expiries and groups completed so far
          delivered,  \* history: messages handed over
          arrived,    \* history: fragments of each message that came
          crowd,      \* history: data assemblies begun after its first fragment came
          disturbed   \* history: messages refused, expired or discarded

vars == <<net, pending, tickets, expired, losses, delivered, arrived, crowd, disturbed>>

Data == Messages \ Control
Fragments == UNION {{m} \X (1 .. Parts[m]) : m \in Messages}

Init ==
    /\ net = Fragments
    /\ pending = [m \in {} |-> [created |-> 0, chunks |-> {}]]
    /\ tickets = 0
    /\ expired = 0
    /\ losses = 0
    /\ delivered = {}
    /\ arrived = [m \in Messages |-> {}]
    /\ crowd = [m \in Messages |-> 0]
    /\ disturbed = {}

-----------------------------------------------------------------------------
Live == {m \in DOMAIN pending : pending[m].created >= expired}
Likes(m) == {k \in Live : k \in Control <=> m \in Control}
Limit(m) == IF m \in Control THEN MAX_IN_FLIGHT ELSE MAX_DATA_IN_FLIGHT

Full(m) == Cardinality(Likes(m)) >= Limit(m)

\* The data assembly that makes room for a new one.
OldestMutantNewest(S) == CHOOSE k \in S : \A l \in S : pending[k].created >= pending[l].created
Oldest(S) == CHOOSE k \in S : \A l \in S : pending[k].created <= pending[l].created

Victim(m) == {Oldest(Likes(m))}

Complete(m, chunks) == Cardinality(chunks) = Parts[m]

\* A control message beyond the limit does not start.
RefusesMutantNever(m) == FALSE
Refuses(m) == m \notin Live /\ m \in Control /\ Full(m)

\* accept_detailed: expired assemblies go first, then the fragment <<m, i>>.
Refuse(m, i) ==
    /\ <<m, i>> \in net
    /\ Refuses(m)
    /\ pending' = Restrict(pending, Live)
    /\ arrived' = [arrived EXCEPT ![m] = @ \union {i}]
    /\ disturbed' = disturbed \union {m}
    /\ net' = net \ {<<m, i>>}
    /\ UNCHANGED <<tickets, expired, losses, delivered, crowd>>

Unfinished(m) == arrived[m] # {} /\ ~Complete(m, arrived[m])

Accept(m, i) ==
    LET begins == m \notin Live
        kept == IF begins /\ Full(m) THEN Live \ Victim(m) ELSE Live
        created == IF begins THEN tickets ELSE pending[m].created
        chunks == (IF begins THEN {} ELSE pending[m].chunks) \union {i}
        whole == Complete(m, chunks)
    IN  /\ <<m, i>> \in net
        /\ ~Refuses(m)
        /\ pending' = [k \in (IF whole THEN kept \ {m} ELSE kept \union {m}) |->
                          IF k = m THEN [created |-> created, chunks |-> chunks] ELSE pending[k]]
        /\ tickets' = IF begins THEN tickets + 1 ELSE tickets
        /\ delivered' = IF whole THEN delivered \union {m} ELSE delivered
        /\ arrived' = [arrived EXCEPT ![m] = @ \union {i}]
        /\ crowd' = [k \in Messages |->
                        IF begins /\ m \in Data /\ k # m /\ Unfinished(k) THEN crowd[k] + 1 ELSE crowd[k]]
        /\ net' = net \ {<<m, i>>}
        /\ UNCHANGED <<expired, losses, disturbed>>

\* The error correction completed group g.
discard_fec_group(g) ==
    LET gone == {m \in DOMAIN pending : Group[m] = g}
    IN  /\ losses < MaxLosses
        /\ losses' = losses + 1
        /\ pending' = Restrict(pending, DOMAIN pending \ gone)
        /\ disturbed' = disturbed \union {m \in Messages : Group[m] = g}
        /\ UNCHANGED <<net, tickets, expired, delivered, arrived, crowd>>

\* Assemblies reach ASSEMBLY_TTL, the oldest first.
Age ==
    /\ losses < MaxLosses
    /\ losses' = losses + 1
    /\ \E m \in Live : expired' = pending[m].created + 1
    /\ disturbed' = disturbed \union {m \in DOMAIN pending : pending[m].created < expired'}
    /\ UNCHANGED <<net, pending, tickets, delivered, arrived, crowd>>

Next ==
    \/ \E f \in net : Refuse(f[1], f[2])
    \/ \E f \in net : Accept(f[1], f[2])
    \/ \E m \in Messages : Group[m] # NoGroup /\ discard_fec_group(Group[m])
    \/ Age

Spec == Init /\ [][Next]_vars
-----------------------------------------------------------------------------
\* A control message whose fragments have all come is handed over, however much data
\* is under assembly, unless it was refused for other control messages or too slow.
ControlSurvives ==
    \A m \in Control : Complete(m, arrived[m]) /\ m \notin disturbed => m \in delivered

\* "A lost part of an IP packet does not block new data until the TTL": a data message
\* whose fragments have all come is handed over unless as many assemblies as fit began
\* after it, remains of messages pushed out included.
DataSurvives ==
    \A m \in Data : /\ Complete(m, arrived[m])
                    /\ m \notin disturbed
                    /\ crowd[m] < MAX_DATA_IN_FLIGHT
                    => m \in delivered

\* Messages under assembly stay within their limits, kind by kind.
Bounded ==
    /\ Cardinality(DOMAIN pending \intersect Control) <= MAX_IN_FLIGHT
    /\ Cardinality(DOMAIN pending \ Control) <= MAX_DATA_IN_FLIGHT

\* What the reassembler keeps: messages that have all their fragments are not lost for
\* want of room, and its memory is bounded.
ReassemblySound == DataSurvives /\ Bounded
=============================================================================
