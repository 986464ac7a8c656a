----------------------------- MODULE Admission -----------------------------
(***************************************************************************)
(* The gateway's session table: creation of client sessions, the ratchet,  *)
(* admission, removal, and the index from VPN addresses to sessions that   *)
(* routes the downlink.  Creation, ratchet and admission hold one lock     *)
(* (allocation_lock); removal (expiry, shutdown, revocation, a refused     *)
(* handshake) and the downlink lookup do not, and interleave with them.    *)
(* Which handshakes are accepted is the subject of HandshakeReplay.        *)
(***************************************************************************)
EXTENDS Integers, FiniteSets

CONSTANTS
  Ids,             \* session ids; an id is reused once nothing refers to it
  Clients,         \* client_id
  SourceIps,       \* client_addr.ip(), all of one /24 subnet
  VpnIps,
  MaxSessions,     \* MAX_SESSIONS
  Reserve,         \* slots kept for the replacement of a known client
  PerIp,           \* sessions per source address
  PerSubnet,       \* sessions per /24
  None

ASSUME AdmissionAssumption ==
  /\ {MaxSessions, Reserve, PerIp, PerSubnet} \subseteq Nat
  /\ Reserve <= MaxSessions
  /\ None \notin Ids \cup Clients \cup SourceIps \cup VpnIps

VARIABLES
  db,        \* the client database: each client's VPN address
  sess,      \* sess[id]
  vpnMap,    \* vpn_ip_map
  admitting, \* the holder of allocation_lock inside commit_client_admission
  repair     \* a downlink lookup between its scan and its insert

vars == <<db, sess, vpnMap, admitting, repair>>

-----------------------------------------------------------------------------
\* A session is "linked" while it is in the sessions map, "unlinked" between
\* its removal from the map and the rest of remove_session.
Free == [status |-> "free", client |-> None, ip |-> None, vpn |-> None,
         ratcheted |-> FALSE, admitted |-> FALSE]

Linked == {s \in Ids : sess[s].status = "linked"}
Of(c) == {s \in Linked : sess[s].client = c}
From(ip) == {s \in Linked : sess[s].ip = ip}

Idle == [pc |-> "idle", id |-> None, todo |-> {}]
LockFree == admitting = Idle

NoRepair == [vpn |-> None, id |-> None]

\* Client sessions whose handshake was never completed, and the others.
Abandoned(c) == {s \in Of(c) : ~sess[s].ratcheted /\ ~sess[s].admitted}
Previous(c) == Of(c) \ Abandoned(c)

Init ==
  /\ db \in {d \in [Clients -> VpnIps] :
               \A c, e \in Clients : c # e => d[c] # d[e]}
  /\ sess = [s \in Ids |-> Free]
  /\ vpnMap = [v \in VpnIps |-> None]
  /\ admitting = Idle
  /\ repair = NoRepair

-----------------------------------------------------------------------------
(* The client database, changed at any time: a merge with another node     *)
(* gives one of two clients with the same address a free one.              *)

MoveClient(c, v) ==
  /\ \A e \in Clients : db[e] # v
  /\ db' = [db EXCEPT ![c] = v]
  /\ UNCHANGED <<sess, vpnMap, admitting, repair>>

-----------------------------------------------------------------------------
(* create_client_session.                                                  *)

GlobalLimit(c) ==
  IF Of(c) = {} THEN MaxSessions - Reserve ELSE MaxSessions

\* The limits count the sessions that the new one does not replace.
WithinLimits(c, ip) ==
  LET Kept(S) == S \ (Abandoned(c) \cup Previous(c)) IN
  /\ Cardinality(Linked \ Abandoned(c)) < GlobalLimit(c)
  /\ Cardinality(Kept(From(ip))) < PerIp
  /\ Cardinality(Kept(Linked)) < PerSubnet

\* An authenticated handshake of client c from address ip opens session s, in
\* place of the client's abandoned handshakes.  A client with two established
\* sessions is refused.
CreateClientSession(c, ip, s) ==
  /\ LockFree
  /\ sess[s].status = "free" /\ repair.id # s /\ \A v \in VpnIps : vpnMap[v] # s
  /\ Cardinality(Previous(c)) <= 1
  /\ WithinLimits(c, ip)
  /\ sess' = [x \in Ids |->
       IF x = s THEN [Free EXCEPT !.status = "linked", !.client = c, !.ip = ip,
                                  !.vpn = db[c]]
       ELSE IF x \in Abandoned(c) THEN Free ELSE sess[x]]
  /\ UNCHANGED <<db, vpnMap, admitting, repair>>

\* complete_session_ratchet: the first packet under the ratcheted keys.
CompleteSessionRatchet(s) ==
  /\ LockFree
  /\ s \in Linked /\ ~sess[s].ratcheted
  /\ sess' = [sess EXCEPT ![s].ratcheted = TRUE]
  /\ UNCHANGED <<db, vpnMap, admitting, repair>>

-----------------------------------------------------------------------------
(* commit_client_admission, one step per operation on the shared maps.     *)
(* The device proof, the certificate and the operator's switches that it   *)
(* also asks for may arrive or change at any time: they are left to the    *)
(* choice of the step.  The worker may hold a session that is being        *)
(* removed but is not marked so yet.                                       *)

\* Mutant: admission does not look for sessions with the same address.
BeginAdmissionMutantKeepsOthers(s) ==
  /\ LockFree
  /\ sess[s].ratcheted /\ ~sess[s].admitted
  /\ sess' = [sess EXCEPT ![s].admitted = TRUE]
  /\ admitting' = [pc |-> "vpn", id |-> s, todo |-> {}]
  /\ UNCHANGED <<db, vpnMap, repair>>

BeginAdmission(s) ==
  /\ LockFree
  /\ sess[s].ratcheted /\ ~sess[s].admitted
  /\ sess' = [sess EXCEPT ![s].admitted = TRUE]
  /\ admitting' = [pc |-> "vpn", id |-> s,
                   todo |-> {x \in Linked \ {s} : sess[x].vpn = sess[s].vpn}]
  /\ UNCHANGED <<db, vpnMap, repair>>

\* vpn_ip_map.remove_if: only an entry that still points at s.
Unbind(s) == [v \in VpnIps |-> IF vpnMap[v] = s THEN None ELSE vpnMap[v]]

\* remove_session, from cleanup_old_sessions_for_vpn_ip or _for_client_id; it
\* does nothing to a session someone else is removing.
RemoveReplaced(x) ==
  /\ x \in admitting.todo
  /\ admitting' = [admitting EXCEPT !.todo = @ \ {x}]
  /\ IF x \in Linked
       THEN sess' = [sess EXCEPT ![x] = Free] /\ vpnMap' = Unbind(x)
       ELSE UNCHANGED <<sess, vpnMap>>
  /\ UNCHANGED <<db, repair>>

\* bind_vpn_ip, if the admitted session is still there.
BindVpnIp ==
  LET s == admitting.id IN
  /\ admitting.pc = "vpn" /\ admitting.todo = {}
  /\ vpnMap' = IF s \in Linked THEN [vpnMap EXCEPT ![sess[s].vpn] = s] ELSE vpnMap
  /\ admitting' = [pc |-> "client", id |-> s,
                   todo |-> {x \in Linked \ {s} : sess[x].client = sess[s].client}]
  /\ UNCHANGED <<db, sess, repair>>

EndAdmission ==
  /\ admitting.pc = "client" /\ admitting.todo = {}
  /\ admitting' = Idle
  /\ UNCHANGED <<db, sess, vpnMap, repair>>

-----------------------------------------------------------------------------
(* remove_session without the lock: expiry, shutdown, revocation, a failed *)
(* device proof, a refused handshake.                                      *)

Unlink(s) ==
  /\ s \in Linked
  /\ sess' = [sess EXCEPT ![s].status = "unlinked"]
  /\ UNCHANGED <<db, vpnMap, admitting, repair>>

\* A session that commit_client_admission still holds keeps its record; it is
\* not bound yet, so nothing is lost by finishing its removal afterwards.
FinishRemoval(s) ==
  /\ sess[s].status = "unlinked" /\ admitting.id # s
  /\ sess' = [sess EXCEPT ![s] = Free]
  /\ vpnMap' = Unbind(s)
  /\ UNCHANGED <<db, admitting, repair>>

-----------------------------------------------------------------------------
(* get_session_by_vpn_ip.  A hit changes nothing; a miss scans the table   *)
(* and then, with no lock held, repairs the index.                         *)

Routable(v, s) == s \in Linked /\ sess[s].vpn = v /\ sess[s].admitted

\* Mutant: the scan also takes a session that is not admitted.
ScanForOwnerMutantPending(v, s) ==
  /\ repair = NoRepair
  /\ ~(vpnMap[v] \in Linked /\ sess[vpnMap[v]].admitted)
  /\ s \in Linked /\ sess[s].vpn = v
  /\ repair' = [vpn |-> v, id |-> s]
  /\ UNCHANGED <<db, sess, vpnMap, admitting>>

\* Mutant: any entry counts as a hit.
ScanForOwnerMutantTrustsEntry(v, s) ==
  /\ repair = NoRepair
  /\ vpnMap[v] = None
  /\ Routable(v, s)
  /\ repair' = [vpn |-> v, id |-> s]
  /\ UNCHANGED <<db, sess, vpnMap, admitting>>

ScanForOwner(v, s) ==
  /\ repair = NoRepair
  /\ ~(vpnMap[v] \in Linked /\ sess[vpnMap[v]].admitted)
  /\ Routable(v, s)
  /\ repair' = [vpn |-> v, id |-> s]
  /\ UNCHANGED <<db, sess, vpnMap, admitting>>

RepairIndex ==
  /\ repair # NoRepair
  /\ vpnMap' = [vpnMap EXCEPT ![repair.vpn] = repair.id]
  /\ repair' = NoRepair
  /\ UNCHANGED <<db, sess, admitting>>

-----------------------------------------------------------------------------
Next ==
  \/ \E c \in Clients, v \in VpnIps : MoveClient(c, v)
  \/ \E c \in Clients, ip \in SourceIps, s \in Ids : CreateClientSession(c, ip, s)
  \/ \E s \in Ids : CompleteSessionRatchet(s)
  \/ \E s \in Ids : BeginAdmission(s)
  \/ \E s \in Ids : RemoveReplaced(s)
  \/ BindVpnIp
  \/ EndAdmission
  \/ \E s \in Ids : Unlink(s)
  \/ \E s \in Ids : FinishRemoval(s)
  \/ \E v \in VpnIps, s \in Ids : ScanForOwner(v, s)
  \/ RepairIndex

\* Code inside a lock or a call runs to its end; the downlink of every
\* address is looked up again and again.
Fairness ==
  /\ WF_vars(\E s \in Ids : RemoveReplaced(s))
  /\ WF_vars(BindVpnIp)
  /\ WF_vars(EndAdmission)
  /\ \A s \in Ids : WF_vars(FinishRemoval(s))
  /\ \A v \in VpnIps : WF_vars(\E s \in Ids : ScanForOwner(v, s))
  /\ WF_vars(RepairIndex)

Spec == Init /\ [][Next]_vars /\ Fairness

-----------------------------------------------------------------------------
(* Properties.                                                             *)

Sessions ==
  [status : {"free", "linked", "unlinked"}, client : Clients \cup {None},
   ip : SourceIps \cup {None}, vpn : VpnIps \cup {None},
   ratcheted : BOOLEAN, admitted : BOOLEAN]

\* Type invariant.
TypeOK ==
  /\ db \in [Clients -> VpnIps]
  /\ sess \in [Ids -> Sessions]
  /\ vpnMap \in [VpnIps -> Ids \cup {None}]
  /\ admitting.pc \in {"idle", "vpn", "client"}
  /\ admitting.todo \subseteq Ids
  /\ repair \in [vpn : VpnIps \cup {None}, id : Ids \cup {None}]

\* Outside commit_client_admission no client and no VPN address has two
\* admitted sessions, even when the operator moved the address from one
\* client to another between two handshakes.
OneOwner ==
  LockFree =>
    \A s, t \in Linked :
      s # t /\ sess[s].admitted /\ sess[t].admitted =>
        sess[s].client # sess[t].client /\ sess[s].vpn # sess[t].vpn

\* A client holds at most two sessions, its current one and a replacement, and
\* first-time clients never fill the slots kept for replacements
\* (create_client_session).
TableBounds ==
  /\ Cardinality(Linked) <= MaxSessions
  /\ \A c \in Clients : Cardinality(Of(c)) <= 2
  /\ Cardinality({c \in Clients : Of(c) # {}}) <= MaxSessions - Reserve

\* An address is never routed to a session that has not been admitted, nor to
\* one with another address; an entry may outlive its session
\* (get_session_by_vpn_ip inserts after its scan, without a lock).
RoutesOnlyAdmitted ==
  \A v \in VpnIps : vpnMap[v] \in Linked => Routable(v, vpnMap[v])

\* The two together: whatever creations, admissions, removals and lookups
\* interleave, the table stays within its limits and the index leads only to
\* admitted sessions that own the address.
TableSound == RoutesOnlyAdmitted /\ TableBounds

\* The downlink of an admitted session is not lost for good: whatever races
\* overwrote or emptied its entry, the index finds an owner again.
RouteHeals ==
  \A v \in VpnIps :
    (\E s \in Ids : Routable(v, s)) ~>
      (\/ \E s \in Ids : vpnMap[v] = s /\ Routable(v, s)
       \/ ~\E s \in Ids : Routable(v, s))

=============================================================================
