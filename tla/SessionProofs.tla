---------------------------- MODULE SessionProofs ----------------------------
(***************************************************************************)
(* What the server keeps right about its sessions, for every size.         *)
(* Admission: one owner for an address, and a table within its limits.     *)
(* ReplayWindow: the server's windows and the kernel's agree on what was   *)
(* delivered.  HandshakeReplay: an initial keyspace opens one session.     *)
(***************************************************************************)
EXTENDS Admission, ReplayWindow, HandshakeReplay, FiniteSetTheorems, TLAPS

(* Tombstones of initial handshakes *)

\* The window of a time, as bounds on the time.
LEMMA WindowBounds ==
  ASSUME NEW t \in Nat
  PROVE  /\ ComputeTimeWindow(t) \in Nat
         /\ ComputeTimeWindow(t) * WindowMs <= t
         /\ t < ComputeTimeWindow(t) * WindowMs + WindowMs
BY HandshakeAssumption, SMTT(30) DEF ComputeTimeWindow

\* Multiplication by the window length is monotone.
LEMMA WindowMonotone ==
  ASSUME NEW a \in Nat, NEW b \in Nat, NEW c \in Nat, a <= b + c
  PROVE  a * WindowMs <= b * WindowMs + c * WindowMs
BY HandshakeAssumption, SMTT(30)

\* Two times at which tags of one client's retries are both accepted are less
\* than the tombstone's life apart.
LEMMA AcceptanceSpan ==
  ASSUME NEW t \in Nat, NEW u \in Nat, NEW s \in Nat,
         NEW g \in s .. s + Retry - 1, NEW h \in s .. s + Retry - 1,
         HandshakeTagPrecheck(t, g), HandshakeTagPrecheck(u, h)
  PROVE  u < t + Ttl
<1> DEFINE W(x) == ComputeTimeWindow(x)
<1>0. WindowMs \in Nat /\ Skew \in Nat /\ Retry \in Nat /\ Retry <= WindowMs /\ Ttl \in Nat
  BY HandshakeAssumption
<1>1. g \in Nat /\ h \in Nat /\ h < g + WindowMs
  BY <1>0
<1>2. /\ W(t) \in Nat /\ W(u) \in Nat /\ W(g) \in Nat /\ W(h) \in Nat
      /\ W(g) * WindowMs <= g /\ g < W(g) * WindowMs + WindowMs
      /\ W(h) * WindowMs <= h /\ h < W(h) * WindowMs + WindowMs
      /\ W(t) * WindowMs <= t /\ u < W(u) * WindowMs + WindowMs
  BY <1>1, WindowBounds
<1>3. W(g) <= W(t) + Skew /\ W(u) <= W(h) + Skew
  BY DEF HandshakeTagPrecheck
<1> HIDE DEF W
<1>4. W(h) <= W(g) + 1
  <2>1. SUFFICES ASSUME W(g) + 2 <= W(h) PROVE FALSE
    BY <1>2
  <2>2. (W(g) + 2) * WindowMs <= W(h) * WindowMs + 0 * WindowMs
    BY <1>2, <2>1, WindowMonotone
  <2>3. (W(g) + 2) * WindowMs = W(g) * WindowMs + 2 * WindowMs
    BY <1>0, <1>2, SMT
  <2>4. h >= W(g) * WindowMs + 2 * WindowMs
    BY <1>0, <1>1, <1>2, <2>2, <2>3
  <2> QED BY <1>0, <1>1, <1>2, <2>4
<1>5. W(u) <= W(t) + (2 * Skew + 1)
  BY <1>0, <1>2, <1>3, <1>4
<1>6. W(u) * WindowMs <= W(t) * WindowMs + (2 * Skew + 1) * WindowMs
  BY <1>0, <1>2, <1>5, WindowMonotone
<1>7. (2 * Skew + 1) * WindowMs + WindowMs = (2 * Skew + 2) * WindowMs
  BY <1>0, SMT
<1>8. Ttl >= (2 * Skew + 2) * WindowMs
  BY HandshakeAssumption
<1> DEFINE A == W(u) * WindowMs
           B == W(t) * WindowMs
           C == (2 * Skew + 1) * WindowMs
           D == (2 * Skew + 2) * WindowMs
<1>9. A \in Nat /\ B \in Nat /\ C \in Nat /\ D \in Nat
  BY <1>0, <1>2, SMT
<1>10. u < A + WindowMs /\ A <= B + C /\ C + WindowMs = D /\ B <= t /\ Ttl >= D
  BY <1>2, <1>6, <1>7, <1>8
<1> HIDE DEF A, B, C, D
<1> QED BY <1>0, <1>9, <1>10

-----------------------------------------------------------------------------
\* Every session a keyspace opened was opened by an accepted tag, and its
\* tombstone is in place until no tag of the keyspace is accepted.
Tombstones ==
  \A k \in Keyspaces : \A t \in claimed[k] :
    /\ t <= now
    /\ \E g \in made[k] .. made[k] + Retry - 1 : HandshakeTagPrecheck(t, g)
    /\ now < t + Ttl => replays[k] = t + Ttl

TombstoneInv == ReplayTypeOK /\ Tombstones /\ KeyspaceOpensOnce

\* The initial states satisfy the inductive invariant.
LEMMA InitTombstones == ReplayInit => TombstoneInv
BY HandshakeAssumption DEF ReplayInit, TombstoneInv, ReplayTypeOK, Tombstones, KeyspaceOpensOnce, Times, NoTombstone

\* Sweeping changes only the tombstones that have run out.
LEMMA SweptFacts ==
  ASSUME ReplayTypeOK
  PROVE  /\ Swept \in [Keyspaces -> Nat \cup {NoTombstone}]
         /\ \A k \in Keyspaces : k \in Retained => Swept[k] = replays[k]
BY DEF Swept, ReplayTypeOK, Retained

\* A keyspace that has opened a session is not opened again.
LEMMA ClaimIsFirst ==
  ASSUME TombstoneInv, NEW k \in Keyspaces, NEW g, ClaimInitialKeyspace(k, g)
  PROVE  claimed[k] = {}
<1>1. SUFFICES ASSUME NEW t \in claimed[k] PROVE FALSE
  OBVIOUS
<1>2. now \in Nat /\ made[k] \in Nat /\ t \in Nat /\ Ttl \in Nat
  BY <1>1, HandshakeAssumption DEF TombstoneInv, ReplayTypeOK, Times
<1>3. PICK h \in made[k] .. made[k] + Retry - 1 : HandshakeTagPrecheck(t, h)
  BY <1>1 DEF TombstoneInv, Tombstones
<1>4. g \in made[k] .. made[k] + Retry - 1 /\ HandshakeTagPrecheck(now, g) /\ k \notin Retained
  BY DEF ClaimInitialKeyspace
<1>5. now < t + Ttl
  BY <1>2, <1>3, <1>4, AcceptanceSpan
<1>6. replays[k] = t + Ttl
  BY <1>1, <1>5 DEF TombstoneInv, Tombstones
<1>7. k \in Retained
  BY <1>2, <1>5, <1>6 DEF Retained, NoTombstone
<1> QED BY <1>4, <1>7

\* Every step preserves the inductive invariant.
LEMMA NextTombstones == TombstoneInv /\ [ReplayNext]_replayVars => TombstoneInv'
<1>1. SUFFICES ASSUME TombstoneInv, [ReplayNext]_replayVars PROVE TombstoneInv'
  OBVIOUS
<1> USE <1>1
<1>t. ReplayTypeOK /\ now \in Nat /\ Ttl \in Nat /\ Horizon \in Nat
  BY HandshakeAssumption DEF TombstoneInv, ReplayTypeOK, Times
<1>2. CASE Tick
  <2>1. now' = now + 1 /\ now < Horizon /\ UNCHANGED <<made, replays, claimed>>
    BY <1>2 DEF Tick
  <2>2. ReplayTypeOK'
    BY <1>t, <2>1 DEF ReplayTypeOK, Times
  <2>3. \A k \in Keyspaces : \A t \in claimed[k] : t \in Nat
    BY <1>t DEF ReplayTypeOK, Times
  <2>4. Tombstones'
    BY <1>t, <2>1, <2>3 DEF TombstoneInv, Tombstones, HandshakeTagPrecheck, ComputeTimeWindow
  <2>5. KeyspaceOpensOnce'
    BY <2>1 DEF TombstoneInv, KeyspaceOpensOnce
  <2> QED BY <2>2, <2>4, <2>5 DEF TombstoneInv
<1>3. ASSUME NEW k \in Keyspaces, NEW g, ClaimInitialKeyspace(k, g) PROVE TombstoneInv'
  <2>1. claimed[k] = {}
    BY <1>3, ClaimIsFirst
  <2>2. /\ replays' = [Swept EXCEPT ![k] = now + Ttl]
        /\ claimed' = [claimed EXCEPT ![k] = @ \cup {now}]
        /\ now' = now /\ made' = made
        /\ g \in made[k] .. made[k] + Retry - 1 /\ HandshakeTagPrecheck(now, g)
    BY <1>3 DEF ClaimInitialKeyspace
  <2>3. claimed'[k] = {now} /\ \A j \in Keyspaces \ {k} : claimed'[j] = claimed[j]
    BY <1>t, <2>1, <2>2 DEF ReplayTypeOK
  <2>4. replays'[k] = now + Ttl /\ \A j \in Keyspaces \ {k} : replays'[j] = Swept[j]
    BY <1>t, <2>2, SweptFacts
  <2>5. ReplayTypeOK'
    BY <1>t, <2>2, SweptFacts DEF ReplayTypeOK
  <2>6. Tombstones'
    <3>1. SUFFICES ASSUME NEW j \in Keyspaces, NEW t \in claimed'[j]
          PROVE  /\ t <= now
                 /\ \E h \in made[j] .. made[j] + Retry - 1 : HandshakeTagPrecheck(t, h)
                 /\ now < t + Ttl => replays'[j] = t + Ttl
      BY <2>2 DEF Tombstones, HandshakeTagPrecheck, ComputeTimeWindow
    <3>2. CASE j = k
      BY <1>t, <2>2, <2>3, <2>4, <3>1, <3>2
    <3>3. CASE j # k
      <4>1. t \in claimed[j] /\ replays'[j] = Swept[j]
        BY <2>3, <2>4, <3>1, <3>3
      <4>2. t \in Nat
        BY <1>t, <4>1 DEF ReplayTypeOK, Times
      <4>3. now < t + Ttl => j \in Retained /\ replays[j] = t + Ttl
        BY <1>t, <4>1, <4>2 DEF TombstoneInv, Tombstones, Retained, NoTombstone
      <4> QED BY <1>t, <4>1, <4>3, SweptFacts DEF TombstoneInv, Tombstones
    <3> QED BY <3>2, <3>3
  <2>7. KeyspaceOpensOnce'
    BY <2>3 DEF TombstoneInv, KeyspaceOpensOnce
  <2> QED BY <2>5, <2>6, <2>7 DEF TombstoneInv
<1>4. ASSUME NEW k \in Keyspaces, NEW g, RefuseInitialKeyspace(k, g) PROVE TombstoneInv'
  <2>1. replays' = Swept /\ now' = now /\ made' = made /\ claimed' = claimed
    BY <1>4 DEF RefuseInitialKeyspace
  <2>2. ReplayTypeOK'
    BY <1>t, <2>1, SweptFacts DEF ReplayTypeOK
  <2>3. Tombstones'
    <3>1. SUFFICES ASSUME NEW j \in Keyspaces, NEW t \in claimed[j]
          PROVE  /\ t <= now
                 /\ \E h \in made[j] .. made[j] + Retry - 1 : HandshakeTagPrecheck(t, h)
                 /\ now < t + Ttl => Swept[j] = t + Ttl
      BY <2>1 DEF Tombstones, HandshakeTagPrecheck, ComputeTimeWindow
    <3>2. t \in Nat
      BY <1>t DEF ReplayTypeOK, Times
    <3>3. now < t + Ttl => j \in Retained /\ replays[j] = t + Ttl
      BY <1>t, <3>2 DEF TombstoneInv, Tombstones, Retained, NoTombstone
    <3> QED BY <1>t, <3>3, SweptFacts DEF TombstoneInv, Tombstones
  <2>4. KeyspaceOpensOnce'
    BY <2>1 DEF TombstoneInv, KeyspaceOpensOnce
  <2> QED BY <2>2, <2>3, <2>4 DEF TombstoneInv
<1>5. CASE UNCHANGED replayVars
  BY <1>5 DEF replayVars, TombstoneInv, ReplayTypeOK, Tombstones, KeyspaceOpensOnce, HandshakeTagPrecheck,
              ComputeTimeWindow
<1> QED BY <1>2, <1>3, <1>4, <1>5 DEF ReplayNext

\* An initial keyspace opens at most one session, however its handshake packets
\* are delayed and repeated: a tombstone (claim_initial_keyspace) outlives
\* every tag that handshake_tag_precheck accepts.
THEOREM HandshakeOpensOnce == ReplaySpec => []KeyspaceOpensOnce
<1>1. TombstoneInv => KeyspaceOpensOnce
  BY DEF TombstoneInv
<1> QED BY InitTombstones, NextTombstones, <1>1, PTL DEF ReplaySpec

-----------------------------------------------------------------------------
(* Admission *)

\* A record that is not in use carries no right; one in use has an address.
Records ==
  \A s \in Ids :
    /\ sess[s].status = "free" => ~sess[s].ratcheted /\ ~sess[s].admitted
    /\ sess[s].status # "free" => sess[s].vpn \in VpnIps /\ sess[s].client \in Clients

\* The holder of the lock is admitted and has not been forgotten.
Holder ==
  /\ admitting.pc = "idle" => LockFree
  /\ admitting.pc # "idle" =>
       /\ admitting.id \in Ids
       /\ admitting.id \notin admitting.todo
       /\ sess[admitting.id].admitted
       /\ sess[admitting.id].status # "free"

\* A repair under way names a session that owns the address, or one that has
\* gone and whose id is not reused.
RepairSound ==
  /\ repair # NoRepair => repair.vpn \in VpnIps /\ repair.id \in Ids
  /\ repair # NoRepair /\ repair.id \in Linked => Routable(repair.vpn, repair.id)

\* Two admitted sessions contend for a client or an address only while one of
\* them is being admitted and the other is still to be removed.
Contenders ==
  \A s, t \in Linked :
    s # t /\ sess[s].admitted /\ sess[t].admitted
      /\ (sess[s].client = sess[t].client \/ sess[s].vpn = sess[t].vpn) =>
      /\ admitting.pc # "idle"
      /\ admitting.id \in {s, t}
      /\ sess[s].vpn = sess[t].vpn => admitting.pc = "vpn" /\ {s, t} \subseteq admitting.todo \cup {admitting.id}
      /\ admitting.pc = "client" => {s, t} \subseteq admitting.todo \cup {admitting.id}

IInv == TypeOK /\ Records /\ Holder /\ RepairSound /\ RoutesOnlyAdmitted /\ Contenders

\* The initial states satisfy the inductive invariant.
LEMMA InitIInv == Init => IInv
<1>1. SUFFICES ASSUME Init PROVE IInv
  OBVIOUS
<1>2. \A s \in Ids : sess[s] = Free
  BY <1>1 DEF Init
<1>3. Linked = {}
  BY <1>2 DEF Linked, Free
<1>4. TypeOK
  BY <1>1, <1>2 DEF Init, TypeOK, Free, Sessions, Idle, NoRepair
<1>5. Records
  BY <1>2 DEF Records, Free
<1>6. Holder /\ RepairSound
  BY <1>1, <1>3 DEF Init, Holder, RepairSound, LockFree, Idle
<1>7. RoutesOnlyAdmitted /\ Contenders
  BY <1>3 DEF RoutesOnlyAdmitted, Contenders
<1> QED BY <1>4, <1>5, <1>6, <1>7 DEF IInv

-----------------------------------------------------------------------------
\* A step that changes neither the sessions, the routes, the lock's holder nor
\* a repair preserves the invariant.
LEMMA FrameIInv ==
  ASSUME IInv, db' \in [Clients -> VpnIps], UNCHANGED <<sess, vpnMap, admitting, repair>>
  PROVE  IInv'
<1>1. Linked' = Linked
  BY DEF Linked
<1>2. TypeOK'
  BY DEF IInv, TypeOK
<1>3. Records' /\ Holder' /\ RepairSound'
  BY <1>1 DEF IInv, Records, Holder, RepairSound, LockFree, Routable
<1>4. RoutesOnlyAdmitted' /\ Contenders'
  BY <1>1 DEF IInv, RoutesOnlyAdmitted, Contenders, Routable
<1> QED BY <1>2, <1>3, <1>4 DEF IInv

LEMMA CreateIInv ==
  ASSUME IInv, NEW c \in Clients, NEW ip \in SourceIps, NEW s \in Ids,
         CreateClientSession(c, ip, s)
  PROVE  IInv'
<1> DEFINE new == [Free EXCEPT !.status = "linked", !.client = c, !.ip = ip, !.vpn = db[c]]
<1>1. /\ LockFree /\ sess[s].status = "free" /\ repair.id # s /\ \A v \in VpnIps : vpnMap[v] # s
      /\ sess' = [x \in Ids |-> IF x = s THEN new ELSE IF x \in Abandoned(c) THEN Free ELSE sess[x]]
      /\ UNCHANGED <<db, vpnMap, admitting, repair>>
  BY DEF CreateClientSession
<1>2. /\ db[c] \in VpnIps
      /\ new.status = "linked" /\ new.client = c /\ new.ip = ip /\ new.vpn = db[c]
      /\ new.ratcheted = FALSE /\ new.admitted = FALSE
  <2>1. db[c] \in VpnIps
    BY DEF IInv, TypeOK
  <2> QED BY <2>1 DEF Free
<1>3. \A x \in Ids : x # s => sess'[x] = sess[x] \/ sess'[x] = Free
  BY <1>1
<1>4. sess'[s] = new
  BY <1>1
<1>5. Linked' \subseteq Linked \cup {s} /\ s \notin Linked
  BY <1>1, <1>3, <1>4 DEF Linked, Free
<1>6. \A x \in Linked' : x # s => sess'[x] = sess[x]
  BY <1>3 DEF Linked, Free
<1>7. Free \in Sessions /\ new \in Sessions
  <2>1. db[c] \in VpnIps
    BY <1>2
  <2> QED BY <2>1, Zenon DEF Free, Sessions
<1> HIDE DEF new
<1>8. TypeOK'
  BY <1>1, <1>7 DEF IInv, TypeOK
<1>9. Records'
  BY <1>2, <1>3, <1>4 DEF IInv, Records, Free
<1>10. Holder'
  BY <1>1, SMTT(30) DEF Holder, LockFree, Idle
<1>11. RepairSound'
  BY <1>1, <1>5, <1>6, SMTT(30) DEF IInv, RepairSound, Routable
<1>12. RoutesOnlyAdmitted'
  BY <1>1, <1>5, <1>6, SMTT(30) DEF IInv, RoutesOnlyAdmitted, Routable
<1>13. Contenders'
  <2>1. ~sess'[s].admitted
    BY <1>2, <1>4
  <2>2. admitting' = admitting
    BY <1>1
  <2> QED BY <1>5, <1>6, <2>1, <2>2, SMTT(30) DEF IInv, Contenders
<1> QED BY <1>8, <1>9, <1>10, <1>11, <1>12, <1>13 DEF IInv

LEMMA RatchetIInv ==
  ASSUME IInv, NEW s \in Ids, CompleteSessionRatchet(s)
  PROVE  IInv'
<1>1. /\ LockFree /\ s \in Linked
      /\ sess' = [sess EXCEPT ![s].ratcheted = TRUE]
      /\ UNCHANGED <<db, vpnMap, admitting, repair>>
  BY DEF CompleteSessionRatchet
<1>2. TypeOK'
  BY <1>1, ZenonT(60) DEF IInv, TypeOK, Sessions
<1>3. \A x \in Ids : /\ sess'[x].status = sess[x].status /\ sess'[x].vpn = sess[x].vpn
                     /\ sess'[x].client = sess[x].client /\ sess'[x].admitted = sess[x].admitted
                     /\ x # s => sess'[x] = sess[x]
  BY <1>1 DEF IInv, TypeOK, Sessions
<1>4. Linked' = Linked /\ Linked \subseteq Ids /\ sess[s].status = "linked"
  BY <1>1, <1>3 DEF Linked
<1>5. Records'
  BY <1>3, <1>4 DEF IInv, Records
<1>6. Holder'
  BY <1>1 DEF Holder, LockFree, Idle
<1>7. RepairSound' /\ RoutesOnlyAdmitted'
  BY <1>1, <1>3, <1>4 DEF IInv, RepairSound, RoutesOnlyAdmitted, Routable
<1>8. Contenders'
  BY <1>1, <1>3, <1>4 DEF IInv, Contenders
<1> QED BY <1>2, <1>5, <1>6, <1>7, <1>8 DEF IInv

LEMMA BeginIInv ==
  ASSUME IInv, NEW s \in Ids, BeginAdmission(s)
  PROVE  IInv'
<1>1. /\ LockFree /\ sess[s].ratcheted
      /\ sess' = [sess EXCEPT ![s].admitted = TRUE]
      /\ admitting' = [pc |-> "vpn", id |-> s,
                       todo |-> {x \in Linked \ {s} : sess[x].vpn = sess[s].vpn}]
      /\ UNCHANGED <<db, vpnMap, repair>>
  BY DEF BeginAdmission
<1>2. TypeOK'
  <2>1. sess' \in [Ids -> Sessions]
    <3>1. sess \in [Ids -> Sessions]
      BY DEF IInv, TypeOK
    <3>2. [sess[s] EXCEPT !.admitted = TRUE] \in Sessions
      BY <3>1, ZenonT(60) DEF Sessions
    <3> QED BY <1>1, <3>1, <3>2
  <2>2. admitting'.pc = "vpn" /\ admitting'.todo \subseteq Ids
    BY <1>1 DEF Linked
  <2> QED BY <1>1, <2>1, <2>2 DEF IInv, TypeOK
<1>3. \A x \in Ids : /\ sess'[x].status = sess[x].status /\ sess'[x].vpn = sess[x].vpn
                     /\ sess'[x].client = sess[x].client
                     /\ x # s => sess'[x] = sess[x]
  BY <1>1 DEF IInv, TypeOK, Sessions
<1>4. Linked' = Linked /\ Linked \subseteq Ids /\ sess[s].status # "free" /\ sess'[s].admitted
  BY <1>1, <1>3 DEF IInv, Records, Linked, TypeOK, Sessions
<1>5. Records'
  BY <1>3, <1>4 DEF IInv, Records
<1>6. Holder'
  BY <1>1, <1>3, <1>4 DEF Holder
<1>7. RepairSound' /\ RoutesOnlyAdmitted'
  BY <1>1, <1>3, <1>4 DEF IInv, RepairSound, RoutesOnlyAdmitted, Routable
<1>8. Contenders'
  <2>1. SUFFICES ASSUME NEW a \in Linked, NEW b \in Linked, a # b,
                        sess'[a].admitted, sess'[b].admitted,
                        sess[a].client = sess[b].client \/ sess[a].vpn = sess[b].vpn
        PROVE  /\ s \in {a, b}
               /\ sess[a].vpn = sess[b].vpn => {a, b} \subseteq admitting'.todo \cup {s}
    BY <1>1, <1>3, <1>4 DEF Contenders
  <2>2. s \in {a, b}
    BY <1>1, <1>3, <1>4, <2>1 DEF IInv, Contenders, LockFree, Idle
  <2>3. admitting'.todo = {x \in Linked \ {s} : sess[x].vpn = sess[s].vpn}
    BY <1>1
  <2> QED BY <2>1, <2>2, <2>3
<1> QED BY <1>2, <1>5, <1>6, <1>7, <1>8 DEF IInv

\* Removing a replaced session: the holder of the lock is never in its own list.
LEMMA ReplaceIInv ==
  ASSUME IInv, NEW x \in Ids, RemoveReplaced(x)
  PROVE  IInv'
<1>1. /\ x \in admitting.todo
      /\ admitting' = [admitting EXCEPT !.todo = @ \ {x}]
      /\ UNCHANGED <<db, repair>>
  BY DEF RemoveReplaced
<1>2. /\ admitting'.pc = admitting.pc /\ admitting'.id = admitting.id
      /\ admitting'.todo = admitting.todo \ {x}
      /\ admitting.pc # "idle" /\ admitting.id # x
  BY <1>1 DEF IInv, Holder, TypeOK, LockFree, Idle
<1>3. CASE x \in Linked
  <2>1. sess' = [sess EXCEPT ![x] = Free] /\ vpnMap' = Unbind(x)
    BY <1>3 DEF RemoveReplaced
  <2>2. sess'[x] = Free /\ \A y \in Ids : y # x => sess'[y] = sess[y]
    BY <2>1 DEF IInv, TypeOK
  <2>3. Linked' = Linked \ {x} /\ Linked \subseteq Ids
    BY <2>2 DEF Linked, Free
  <2>4. \A v \in VpnIps : vpnMap'[v] = vpnMap[v] \/ vpnMap'[v] = None
    BY <2>1 DEF Unbind
  <2>5. None \notin Ids
    BY AdmissionAssumption
  <2>6. Free \in Sessions
    BY DEF Free, Sessions
  <2>7. TypeOK'
    <3>1. sess' \in [Ids -> Sessions]
      BY <2>1, <2>6 DEF IInv, TypeOK
    <3>2. vpnMap' \in [VpnIps -> Ids \cup {None}]
      BY <2>1 DEF Unbind, IInv, TypeOK
    <3> QED BY <1>1, <1>2, <3>1, <3>2 DEF IInv, TypeOK
  <2>8. Records'
    BY <2>2, SMTT(30) DEF IInv, Records, Free
  <2>9. Holder'
    BY <1>2, <2>2, SMTT(30) DEF IInv, Holder
  <2>10. RepairSound'
    BY <1>1, <2>2, <2>3 DEF IInv, RepairSound, Routable
  <2>11. RoutesOnlyAdmitted'
    BY <2>2, <2>3, <2>4, <2>5 DEF IInv, RoutesOnlyAdmitted, Routable
  <2>12. Contenders'
    BY <1>2, <2>2, <2>3 DEF IInv, Contenders
  <2> QED BY <2>7, <2>8, <2>9, <2>10, <2>11, <2>12 DEF IInv
<1>4. CASE x \notin Linked
  <2>1. UNCHANGED <<sess, vpnMap>>
    BY <1>4 DEF RemoveReplaced
  <2>2. Linked' = Linked /\ Linked \subseteq Ids
    BY <2>1 DEF Linked
  <2>3. TypeOK'
    BY <1>1, <1>2, <2>1 DEF IInv, TypeOK
  <2>4. Records' /\ Holder'
    BY <1>2, <2>1 DEF IInv, Records, Holder
  <2>5. RepairSound' /\ RoutesOnlyAdmitted'
    BY <1>1, <2>1, <2>2 DEF IInv, RepairSound, RoutesOnlyAdmitted, Routable
  <2>6. Contenders'
    BY <1>2, <1>4, <2>1, <2>2 DEF IInv, Contenders
  <2> QED BY <2>3, <2>4, <2>5, <2>6 DEF IInv
<1> QED BY <1>3, <1>4

\* Binding the address: every rival for the address is gone, those for the
\* client are listed next.
LEMMA BindIInv == ASSUME IInv, BindVpnIp PROVE IInv'
<1> DEFINE s == admitting.id
<1>1. /\ admitting.pc = "vpn" /\ admitting.todo = {}
      /\ vpnMap' = IF s \in Linked THEN [vpnMap EXCEPT ![sess[s].vpn] = s] ELSE vpnMap
      /\ admitting' = [pc |-> "client", id |-> s,
                       todo |-> {x \in Linked \ {s} : sess[x].client = sess[s].client}]
      /\ UNCHANGED <<db, sess, repair>>
  BY DEF BindVpnIp
<1>2. s \in Ids /\ sess[s].admitted /\ sess[s].status # "free"
  BY <1>1 DEF IInv, Holder
<1>3. sess[s].vpn \in VpnIps
  BY <1>2 DEF IInv, Records
<1>4. Linked' = Linked /\ Linked \subseteq Ids
  BY <1>1 DEF Linked
<1> HIDE DEF s
<1>5. TypeOK'
  BY <1>1, <1>2, <1>4, Zenon DEF IInv, TypeOK
<1>6. Records' /\ Holder'
  BY <1>1, <1>2, SMTT(30) DEF IInv, Records, Holder
<1>7. RepairSound'
  BY <1>1, <1>4, Zenon DEF IInv, RepairSound, Routable
<1>8. RoutesOnlyAdmitted'
  <2>1. \A v \in VpnIps : vpnMap'[v] = vpnMap[v] \/ (s \in Linked /\ v = sess[s].vpn /\ vpnMap'[v] = s)
    BY <1>1, <1>3, SMTT(30) DEF IInv, TypeOK
  <2> QED BY <1>1, <1>2, <1>4, <2>1, SMTT(30) DEF IInv, RoutesOnlyAdmitted, Routable
<1>9. Contenders'
  <2>1. SUFFICES ASSUME NEW a \in Linked, NEW b \in Linked, a # b,
                        sess[a].admitted, sess[b].admitted,
                        sess[a].client = sess[b].client \/ sess[a].vpn = sess[b].vpn
        PROVE  /\ s \in {a, b} /\ sess[a].vpn # sess[b].vpn
               /\ {a, b} \subseteq admitting'.todo \cup {s}
    BY <1>1, <1>4, SMTT(30) DEF Contenders
  <2>2. s \in {a, b} /\ sess[a].vpn # sess[b].vpn
    BY <1>1, <2>1, SMTT(30) DEF IInv, Contenders, s
  <2>3. admitting'.todo = {x \in Linked \ {s} : sess[x].client = sess[s].client}
    BY <1>1
  <2> QED BY <2>1, <2>2, <2>3
<1> QED BY <1>5, <1>6, <1>7, <1>8, <1>9 DEF IInv

\* Leaving the lock: no rival is left.
LEMMA EndIInv == ASSUME IInv, EndAdmission PROVE IInv'
<1>1. /\ admitting.pc = "client" /\ admitting.todo = {} /\ admitting' = Idle
      /\ UNCHANGED <<db, sess, vpnMap, repair>>
  BY DEF EndAdmission
<1>2. Linked' = Linked /\ Linked \subseteq Ids
  BY <1>1 DEF Linked
<1>3. TypeOK'
  BY <1>1, SMTT(30) DEF IInv, TypeOK, Idle
<1>4. Records' /\ Holder'
  BY <1>1, SMTT(30) DEF IInv, Records, Holder, LockFree, Idle
<1>5. RepairSound' /\ RoutesOnlyAdmitted'
  BY <1>1, <1>2 DEF IInv, RepairSound, RoutesOnlyAdmitted, Routable
<1>6. Contenders'
  BY <1>1, <1>2 DEF IInv, Contenders
<1> QED BY <1>3, <1>4, <1>5, <1>6 DEF IInv

-----------------------------------------------------------------------------
\* A removal without the lock takes a session out of the map...
LEMMA UnlinkIInv ==
  ASSUME IInv, NEW s \in Ids, Unlink(s)
  PROVE  IInv'
<1>1. /\ s \in Linked
      /\ sess' = [sess EXCEPT ![s].status = "unlinked"]
      /\ UNCHANGED <<db, vpnMap, admitting, repair>>
  BY DEF Unlink
<1>2. TypeOK'
  BY <1>1, SMTT(30) DEF IInv, TypeOK, Sessions
<1>3. /\ \A y \in Ids : y # s => sess'[y] = sess[y]
      /\ sess'[s].status = "unlinked" /\ sess'[s].client = sess[s].client
      /\ sess'[s].vpn = sess[s].vpn /\ sess'[s].admitted = sess[s].admitted
      /\ sess'[s].ratcheted = sess[s].ratcheted
  BY <1>1 DEF IInv, TypeOK, Sessions
<1>4. Linked' = Linked \ {s} /\ Linked \subseteq Ids
  BY <1>3, SMTT(30) DEF Linked
<1>5. sess[s].status = "linked"
  BY <1>1 DEF Linked
<1>6. Records'
  BY <1>3, <1>5 DEF IInv, Records
<1>7. Holder'
  BY <1>1, <1>3 DEF IInv, Holder, LockFree
<1>8. RepairSound' /\ RoutesOnlyAdmitted'
  BY <1>1, <1>3, <1>4 DEF IInv, RepairSound, RoutesOnlyAdmitted, Routable
<1>9. Contenders'
  BY <1>1, <1>3, <1>4 DEF IInv, Contenders
<1> QED BY <1>2, <1>6, <1>7, <1>8, <1>9 DEF IInv

\* ... and then clears what it left.
LEMMA FinishIInv ==
  ASSUME IInv, NEW s \in Ids, FinishRemoval(s)
  PROVE  IInv'
<1>1. /\ sess[s].status = "unlinked" /\ admitting.id # s
      /\ sess' = [sess EXCEPT ![s] = Free] /\ vpnMap' = Unbind(s)
      /\ UNCHANGED <<db, admitting, repair>>
  BY DEF FinishRemoval
<1>2. sess'[s] = Free /\ \A y \in Ids : y # s => sess'[y] = sess[y]
  BY <1>1 DEF IInv, TypeOK
<1>3. Linked' = Linked /\ Linked \subseteq Ids \ {s}
  BY <1>1, <1>2 DEF Linked, Free
<1>4. \A v \in VpnIps : vpnMap'[v] = vpnMap[v] \/ vpnMap'[v] = None
  BY <1>1 DEF Unbind
<1>5. None \notin Ids
  BY AdmissionAssumption
<1>6. Free \in Sessions
  BY DEF Free, Sessions
<1>7. TypeOK'
  <2>1. sess' \in [Ids -> Sessions]
    BY <1>1, <1>6 DEF IInv, TypeOK
  <2>2. vpnMap' \in [VpnIps -> Ids \cup {None}]
    BY <1>1 DEF Unbind, IInv, TypeOK
  <2> QED BY <1>1, <2>1, <2>2 DEF IInv, TypeOK
<1>8. Records'
  BY <1>2 DEF IInv, Records, Free
<1>9. Holder'
  BY <1>1, <1>2, SMTT(30) DEF IInv, Holder, LockFree
<1>10. RepairSound'
  BY <1>1, <1>2, <1>3 DEF IInv, RepairSound, Routable
<1>11. RoutesOnlyAdmitted'
  BY <1>2, <1>3, <1>4, <1>5 DEF IInv, RoutesOnlyAdmitted, Routable
<1>12. Contenders'
  BY <1>1, <1>2, <1>3, SMTT(30) DEF IInv, Contenders
<1> QED BY <1>7, <1>8, <1>9, <1>10, <1>11, <1>12 DEF IInv

\* The downlink lookup: what the scan found is still right, or gone, when the
\* index is repaired.
LEMMA ScanIInv ==
  ASSUME IInv, NEW v \in VpnIps, NEW s \in Ids, ScanForOwner(v, s)
  PROVE  IInv'
<1>1. /\ Routable(v, s) /\ repair' = [vpn |-> v, id |-> s]
      /\ UNCHANGED <<db, sess, vpnMap, admitting>>
  BY Zenon DEF ScanForOwner
<1>2. Linked' = Linked
  BY <1>1 DEF Linked
<1>3. TypeOK'
  BY <1>1, Zenon DEF IInv, TypeOK
<1>4. Records' /\ Holder'
  BY <1>1, Zenon DEF IInv, Records, Holder, LockFree
<1>5. RepairSound'
  BY <1>1, <1>2 DEF RepairSound, Routable
<1>6. RoutesOnlyAdmitted' /\ Contenders'
  BY <1>1, <1>2, SMTT(30) DEF IInv, RoutesOnlyAdmitted, Contenders, Routable
<1> QED BY <1>3, <1>4, <1>5, <1>6 DEF IInv

\* get_session_by_vpn_ip inserts what its scan found without looking again:
\* by RepairSound that session still owns the address or is no longer linked.
LEMMA RepairIInv == ASSUME IInv, RepairIndex PROVE IInv'
<1>1. /\ repair # NoRepair
      /\ vpnMap' = [vpnMap EXCEPT ![repair.vpn] = repair.id]
      /\ repair' = NoRepair
      /\ UNCHANGED <<db, sess, admitting>>
  BY DEF RepairIndex
<1>2. Linked' = Linked /\ None \notin Ids /\ Linked \subseteq Ids
  BY <1>1, AdmissionAssumption DEF Linked
<1>3. repair.vpn \in VpnIps /\ repair.id \in Ids
  BY <1>1 DEF IInv, RepairSound
<1>4. TypeOK'
  BY <1>1, <1>3, SMTT(30) DEF IInv, TypeOK, NoRepair
<1>5. Records' /\ Holder'
  BY <1>1, SMTT(30) DEF IInv, Records, Holder, LockFree
<1>6. RepairSound'
  BY <1>1, <1>2 DEF RepairSound, NoRepair
<1>7. RoutesOnlyAdmitted'
  BY <1>1, <1>2, <1>3, Zenon DEF IInv, TypeOK, RepairSound, RoutesOnlyAdmitted, Routable
<1>8. Contenders'
  BY <1>1, <1>2, SMTT(30) DEF IInv, Contenders
<1> QED BY <1>4, <1>5, <1>6, <1>7, <1>8 DEF IInv

-----------------------------------------------------------------------------
\* Every step of the session manager keeps the inductive invariant.
LEMMA NextIInv == IInv /\ [Next]_vars => IInv'
<1> SUFFICES ASSUME IInv, [Next]_vars PROVE IInv'
  OBVIOUS
<1>1. CASE UNCHANGED vars
  BY <1>1, FrameIInv, Zenon DEF vars, IInv, TypeOK
<1>2. ASSUME NEW c \in Clients, NEW v \in VpnIps, MoveClient(c, v) PROVE IInv'
  BY <1>2, FrameIInv, Zenon DEF MoveClient, IInv, TypeOK
<1>3. ASSUME NEW c \in Clients, NEW ip \in SourceIps, NEW s \in Ids,
             CreateClientSession(c, ip, s) PROVE IInv'
  BY <1>3, CreateIInv
<1>4. ASSUME NEW s \in Ids, CompleteSessionRatchet(s) PROVE IInv'
  BY <1>4, RatchetIInv
<1>5. ASSUME NEW s \in Ids, BeginAdmission(s) PROVE IInv'
  BY <1>5, BeginIInv
<1>6. ASSUME NEW s \in Ids, RemoveReplaced(s) PROVE IInv'
  BY <1>6, ReplaceIInv
<1>7. ASSUME NEW s \in Ids, Unlink(s) PROVE IInv'
  BY <1>7, UnlinkIInv
<1>8. ASSUME NEW s \in Ids, FinishRemoval(s) PROVE IInv'
  BY <1>8, FinishIInv
<1>9. ASSUME NEW v \in VpnIps, NEW s \in Ids, ScanForOwner(v, s) PROVE IInv'
  BY <1>9, ScanIInv
<1> QED BY <1>1, <1>2, <1>3, <1>4, <1>5, <1>6, <1>7, <1>8, <1>9,
           BindIInv, EndIInv, RepairIInv DEF Next

\* Whatever creations, admissions, removals and downlink lookups interleave,
\* outside commit_client_admission no client and no VPN address has two
\* admitted sessions, and an address is only ever routed to an admitted session
\* that owns it.
THEOREM AdmissionSafe == Spec => [](TypeOK /\ OneOwner /\ RoutesOnlyAdmitted)
<1>1. IInv => TypeOK /\ OneOwner /\ RoutesOnlyAdmitted
  BY SMTT(30) DEF IInv, Contenders, OneOwner, LockFree, Idle
<1> QED BY InitIInv, NextIInv, <1>1, PTL DEF Spec

-----------------------------------------------------------------------------
(* The limits of the table.                                                *)

Present == {c \in Clients : Of(c) # {}}

\* There are finitely many sessions at any time, so counting them makes sense.
Sized == IsFiniteSet(Linked) /\ TableBounds

LEMMA LimitsInZ ==
  /\ MaxSessions \in Nat /\ Reserve \in Nat /\ MaxSessions - Reserve \in Nat
  /\ MaxSessions - Reserve <= MaxSessions
BY AdmissionAssumption

\* There are no more owners than there are sessions.
LEMMA FewOwners ==
  ASSUME NEW L, IsFiniteSet(L), NEW f, NEW P, \A c \in P : \E s \in L : f[s].client = c
  PROVE  IsFiniteSet(P) /\ Cardinality(P) <= Cardinality(L)
<1> DEFINE S == {s \in L : f[s].client \in P}
           owner == [s \in S |-> f[s].client]
<1>1. S \in SUBSET L
  OBVIOUS
<1>2. owner \in [S -> P] /\ \A c \in P : \E s \in S : owner[s] = c
  OBVIOUS
<1>3. owner \in Surjection(S, P)
  BY <1>2 DEF Surjection
<1>4. IsFiniteSet(S) /\ Cardinality(S) <= Cardinality(L)
  BY <1>1, FS_Subset
<1> HIDE DEF S, owner
<1>5. IsFiniteSet(P) /\ Cardinality(P) <= Cardinality(S)
  BY <1>3, <1>4, FS_Surjection
<1>6. Cardinality(P) \in Nat /\ Cardinality(S) \in Nat /\ Cardinality(L) \in Nat
  BY <1>4, <1>5, FS_CardinalityType
<1> QED BY <1>4, <1>5, <1>6

\* A step that opens no session keeps the table within its limits.
LEMMA NoneOpened ==
  ASSUME Sized, Linked' \subseteq Linked,
         \A s \in Linked' : sess'[s].client = sess[s].client
  PROVE  Sized'
<1>1. IsFiniteSet(Linked) /\ TableBounds
  BY DEF Sized
<1>2. IsFiniteSet(Linked') /\ Cardinality(Linked') <= Cardinality(Linked)
  BY <1>1, FS_Subset
<1>3. Cardinality(Linked) \in Nat /\ Cardinality(Linked') \in Nat
  BY <1>1, <1>2, FS_CardinalityType
<1>4. Cardinality(Linked') <= MaxSessions
  BY <1>1, <1>2, <1>3, LimitsInZ, SMTT(30) DEF TableBounds
<1>5. ASSUME NEW c \in Clients PROVE Of(c)' \subseteq Of(c) /\ Cardinality(Of(c)') <= 2
  <2>1. Of(c)' \in SUBSET Of(c) /\ Of(c) \in SUBSET Linked
    BY DEF Of
  <2>2. IsFiniteSet(Of(c))
    BY <1>1, <2>1, FS_Subset
  <2>3. IsFiniteSet(Of(c)') /\ Cardinality(Of(c)') <= Cardinality(Of(c))
    BY <2>1, <2>2, FS_Subset
  <2>4. Cardinality(Of(c)) \in Nat /\ Cardinality(Of(c)') \in Nat
    BY <2>2, <2>3, FS_CardinalityType
  <2> QED BY <1>1, <2>1, <2>3, <2>4 DEF TableBounds
<1>6. Cardinality(Present') <= MaxSessions - Reserve
  <2>1. Present' \in SUBSET Present
    BY <1>5 DEF Present
  <2>2. IsFiniteSet(Present)
    <3>1. \A c \in Present : \E s \in Linked : sess[s].client = c
      BY DEF Present, Of
    <3> QED BY <1>1, <3>1, FewOwners
  <2>3. IsFiniteSet(Present') /\ Cardinality(Present') <= Cardinality(Present)
    BY <2>1, <2>2, FS_Subset
  <2>4. Cardinality(Present) \in Nat /\ Cardinality(Present') \in Nat
    BY <2>2, <2>3, FS_CardinalityType
  <2> QED BY <1>1, <2>3, <2>4, LimitsInZ, SMTT(30) DEF TableBounds, Present
<1> QED BY <1>2, <1>4, <1>5, <1>6 DEF Sized, TableBounds, Present

\* create_client_session counts what it does not replace: the abandoned
\* handshakes go, one session comes, and a first-time client leaves the
\* reserve alone.
LEMMA CreateSized ==
  ASSUME IInv, Sized, NEW c \in Clients, NEW ip \in SourceIps, NEW s \in Ids,
         CreateClientSession(c, ip, s)
  PROVE  Sized'
<1> DEFINE kept == Linked \ Abandoned(c)
<1>1. /\ IsFiniteSet(Linked) /\ TableBounds /\ sess \in [Ids -> Sessions]
  BY DEF Sized, IInv, TypeOK
<1>2. /\ sess[s].status = "free"
      /\ Cardinality(Previous(c)) <= 1
      /\ Cardinality(kept) < GlobalLimit(c)
  BY DEF CreateClientSession, WithinLimits
<1>3. /\ sess'[s].status = "linked" /\ sess'[s].client = c
      /\ \A x \in Ids : x # s => sess'[x] = IF x \in Abandoned(c) THEN Free ELSE sess[x]
  BY Zenon DEF CreateClientSession, Free
<1>4. s \notin Linked /\ Abandoned(c) \subseteq Linked
  BY <1>2, Zenon DEF Linked, Abandoned, Of
<1>5. Linked' = kept \cup {s}
  BY <1>3, <1>4, SMTT(30) DEF Linked, Free
<1>6. \A x \in kept : sess'[x] = sess[x]
  BY <1>3, <1>4, SMTT(30) DEF Linked
<1>7. IsFiniteSet(kept) /\ Cardinality(kept) \in Nat
  <2>1. kept \in SUBSET Linked
    OBVIOUS
  <2> QED BY <1>1, <2>1, FS_Subset, FS_CardinalityType
<1>8. s \notin kept
  BY <1>4
<1>9. Of(c)' = Previous(c) \cup {s} /\ Previous(c) \subseteq kept
  BY <1>3, <1>5, <1>6, Zenon DEF Of, Previous, Abandoned
<1>10. \A d \in Clients : d # c => Of(d)' = Of(d)
  <2>1. \A d \in Clients : d # c => Of(d) = {x \in kept : sess[x].client = d}
    BY DEF Of, Abandoned
  <2> QED BY <1>3, <1>5, <1>6, <2>1, Zenon DEF Of
<1> HIDE DEF kept
<1>11. IsFiniteSet(Linked') /\ Cardinality(Linked') = Cardinality(kept) + 1
  BY <1>5, <1>7, <1>8, FS_AddElement
<1>12. Cardinality(Linked') <= MaxSessions
  BY <1>2, <1>7, <1>11, LimitsInZ, SMTT(30) DEF GlobalLimit
<1>13. Cardinality(Of(c)') <= 2
  <2>1. IsFiniteSet(Previous(c))
    BY <1>7, <1>9, FS_Subset
  <2>2. Cardinality(Previous(c)) \in Nat
    BY <2>1, FS_CardinalityType
  <2>3. s \notin Previous(c)
    BY <1>8, <1>9
  <2>4. Cardinality(Previous(c) \cup {s}) = Cardinality(Previous(c)) + 1
    BY <2>1, <2>3, FS_AddElement, Zenon
  <2> QED BY <1>2, <1>9, <2>2, <2>4, SMTT(30)
<1>14. \A d \in Clients : Cardinality(Of(d)') <= 2
  BY <1>1, <1>10, <1>13 DEF TableBounds
<1>15. Cardinality(Present') <= MaxSessions - Reserve
  <2>1. CASE Of(c) = {}
    <3>1. IsFiniteSet(Present') /\ Cardinality(Present') <= Cardinality(Linked')
      <4>1. \A d \in Present' : \E x \in Linked' : sess'[x].client = d
        BY DEF Present, Of
      <4> QED BY <1>11, <4>1, FewOwners, Zenon
    <3>2. Cardinality(Present') \in Nat
      BY <3>1, FS_CardinalityType
    <3> QED BY <1>2, <1>7, <1>11, <2>1, <3>1, <3>2, LimitsInZ, SMTT(30) DEF GlobalLimit
  <2>2. CASE Of(c) # {}
    <3>1. Present' = Present
      BY <1>9, <1>10, <2>2 DEF Present
    <3> QED BY <1>1, <3>1, Zenon DEF TableBounds, Present
  <2> QED BY <2>1, <2>2
<1> QED BY <1>11, <1>12, <1>14, <1>15 DEF Sized, TableBounds, Present

LEMMA InitSized == Init => Sized
<1> SUFFICES ASSUME Init PROVE Sized
  OBVIOUS
<1>1. Linked = {}
  BY DEF Init, Linked, Free
<1>2. (\A c \in Clients : Of(c) = {}) /\ {c \in Clients : Of(c) # {}} = {}
  BY <1>1 DEF Of
<1>3. IsFiniteSet({}) /\ Cardinality({}) = 0
  BY FS_EmptySet
<1>4. /\ IsFiniteSet(Linked) /\ Cardinality(Linked) = 0
      /\ \A c \in Clients : Cardinality(Of(c)) = 0
      /\ Cardinality({c \in Clients : Of(c) # {}}) = 0
  BY <1>1, <1>2, <1>3, Zenon
<1> QED BY <1>4, LimitsInZ DEF Sized, TableBounds

LEMMA NextSized == IInv /\ Sized /\ [Next]_vars => Sized'
<1> SUFFICES ASSUME IInv, Sized, [Next]_vars PROVE Sized'
  OBVIOUS
<1>1. sess \in [Ids -> Sessions] /\ Linked \subseteq Ids
  BY DEF IInv, TypeOK, Linked
<1>2. CASE UNCHANGED sess
  <2>1. Linked' = Linked
    BY <1>2 DEF Linked
  <2> QED BY <1>2, <2>1, NoneOpened
<1>3. ASSUME NEW s \in Ids,
             \/ sess' = [sess EXCEPT ![s].ratcheted = TRUE]
             \/ sess' = [sess EXCEPT ![s].admitted = TRUE]
      PROVE  Sized'
  <2>1. \A x \in Ids : sess'[x].status = sess[x].status /\ sess'[x].client = sess[x].client
    BY <1>1, <1>3 DEF Sessions
  <2>2. Linked' = Linked
    BY <2>1 DEF Linked
  <2> QED BY <1>1, <2>1, <2>2, NoneOpened
<1>4. ASSUME NEW s \in Ids,
             sess' = [sess EXCEPT ![s].status = "unlinked"] \/ sess' = [sess EXCEPT ![s] = Free]
      PROVE  Sized'
  <2>1. sess'[s].status # "linked" /\ \A x \in Ids : x # s => sess'[x] = sess[x]
    BY <1>1, <1>4 DEF Sessions, Free
  <2>2. Linked' \subseteq Linked /\ s \notin Linked'
    BY <2>1 DEF Linked
  <2> QED BY <1>1, <2>1, <2>2, NoneOpened
<1>5. ASSUME NEW s \in Ids, CompleteSessionRatchet(s) \/ BeginAdmission(s) PROVE Sized'
  BY <1>3, <1>5 DEF CompleteSessionRatchet, BeginAdmission
<1>6. ASSUME NEW s \in Ids, RemoveReplaced(s) \/ Unlink(s) \/ FinishRemoval(s) PROVE Sized'
  BY <1>2, <1>4, <1>6 DEF RemoveReplaced, Unlink, FinishRemoval
<1>7. ASSUME NEW c \in Clients, NEW ip \in SourceIps, NEW s \in Ids,
             CreateClientSession(c, ip, s) PROVE Sized'
  BY <1>7, CreateSized
<1> QED BY <1>2, <1>5, <1>6, <1>7, Zenon
        DEF Next, MoveClient, BindVpnIp, EndAdmission, ScanForOwner, RepairIndex, vars

\* The limits hold in every table, whatever the numbers: never more than
\* MAX_SESSIONS sessions, a client's current one and a replacement, and the
\* reserved slots stay out of the reach of first-time clients, through
\* abandoned handshakes, removals without the lock and lookups.
THEOREM TableStaysSound == Spec => []TableSound
<1>1. Init => IInv /\ Sized
  BY InitIInv, InitSized
<1>2. (IInv /\ Sized) /\ [Next]_vars => (IInv /\ Sized)'
  BY NextIInv, NextSized
<1>3. IInv /\ Sized => TableSound
  BY DEF IInv, Sized, TableSound
<1> QED BY <1>1, <1>2, <1>3, PTL DEF Spec

-----------------------------------------------------------------------------
(* The windows of a key *)

(* A counter at or below hi, still in the window that ends at hi. *)
InWindow(hi, c) == c <= hi /\ hi - c < Window

(* The window hi, bm answers for every counter as the history acc would. *)
Exact(hi, bm, acc) ==
  /\ \A c \in Counters : acc[c] > 0 => c <= hi
  /\ acc[hi] > 0 \/ hi = 0
  /\ \A c \in Counters : InWindow(hi, c) => (Marked(hi, bm, c) <=> acc[c] > 0)

(* The abstract window refuses c. *)
Refused(acc, c) == acc[c] > 0 \/ \E a \in Counters : acc[a] > 0 /\ a - c >= Window

(* The window hi, bm marks nothing the abstract window would accept. *)
Sound(hi, bm, acc) ==
  /\ acc[hi] > 0 \/ hi = 0
  /\ \A c \in Counters : Marked(hi, bm, c) => Refused(acc, c)

(* The window that decides, the kernel's when there is one, is exact; the local
   one is sound. *)
WindowInv ==
  /\ WindowTypeOK
  /\ offload => Exact(kHi, kWords, accepted)
  /\ ~offload => Exact(counter, words, accepted)
  /\ Sound(counter, words, accepted)

-----------------------------------------------------------------------------
(* Positions and words *)

LEMMA WindowSize == Window \in Nat /\ Window > 0
BY WindowAssumption DEF Window

(* A position is a word and a bit in it, and the other way round. *)
LEMMA Compose ==
  ASSUME NEW w \in WordIndex, NEW b \in 0 .. WordBits - 1
  PROVE  /\ w * WordBits + b \in Bits
         /\ (w * WordBits + b) \div WordBits = w
         /\ (w * WordBits + b) % WordBits = b
<1>0. WordBits \in Nat /\ WordBits > 0 /\ Words \in Nat /\ w \in Nat /\ w <= Words - 1 /\ b \in Nat
  BY WindowAssumption DEF WordIndex
<1>1. w * WordBits \in Nat /\ w * WordBits + WordBits <= WordBits * Words
  <2>1. w * WordBits <= (Words - 1) * WordBits
    BY <1>0
  <2>2. (Words - 1) * WordBits + WordBits = WordBits * Words
    BY <1>0
  <2>3. QED
    BY <1>0, <2>1, <2>2
<1>2. w * WordBits + b \in Bits
  BY <1>0, <1>1 DEF Bits, Window
<1>3. (w * WordBits + b) \div WordBits = w /\ (w * WordBits + b) % WordBits = b
  BY <1>0, <1>1
<1>4. QED
  BY <1>2, <1>3

LEMMA Decompose ==
  ASSUME NEW i \in Bits
  PROVE  /\ i \in Nat
         /\ i \div WordBits \in WordIndex
         /\ i % WordBits \in 0 .. WordBits - 1
         /\ i = (i \div WordBits) * WordBits + (i % WordBits)
<1>0. /\ WordBits \in Nat /\ WordBits > 0 /\ Words \in Nat
      /\ i \in Nat /\ i < WordBits * Words
  BY WindowAssumption DEF Bits, Window
<1>1. /\ i \div WordBits \in Nat
      /\ i % WordBits \in 0 .. WordBits - 1
      /\ i = (i \div WordBits) * WordBits + (i % WordBits)
  BY <1>0
<1>2. i \div WordBits < Words
  <2> SUFFICES ASSUME i \div WordBits >= Words PROVE FALSE
    BY <1>0, <1>1
  <2>1. (i \div WordBits) * WordBits >= Words * WordBits
    BY <1>0, <1>1
  <2>2. Words * WordBits = WordBits * Words
    BY <1>0
  <2>3. QED
    BY <1>0, <1>1, <2>1, <2>2
<1>3. QED
  BY <1>0, <1>1, <1>2 DEF WordIndex

LEMMA Monotone ==
  ASSUME NEW a \in Nat, NEW b \in Nat, a < b
  PROVE  /\ (a + 1) * WordBits <= b * WordBits
         /\ (a + 1) * WordBits = a * WordBits + WordBits
         /\ a * WordBits \in Nat
BY WindowAssumption

LEMMA Difference ==
  ASSUME NEW a \in Nat, NEW b \in Nat, NEW x \in Nat, NEW y \in Nat, b <= a
  PROVE  /\ (a * WordBits + x) - (b * WordBits + y) = (a - b) * WordBits + (x - y)
         /\ (a - b) * WordBits \in Nat
         /\ a * WordBits \in Nat /\ b * WordBits \in Nat
BY WindowAssumption

-----------------------------------------------------------------------------
(* The bitmap *)

LEMMA PlaceBit ==
  ASSUME NEW bm, NEW w \in WordIndex, NEW b \in 0 .. WordBits - 1
  PROVE  GetBit(bm, w * WordBits + b) <=> b \in bm[w]
<1>1. /\ w * WordBits + b \in Bits
      /\ (w * WordBits + b) \div WordBits = w
      /\ (w * WordBits + b) % WordBits = b
  BY Compose
<1>2. w * WordBits + b < Window
  BY <1>1, WindowSize DEF Bits
<1>3. QED
  BY <1>1, <1>2 DEF GetBit

LEMMA NoBitsBits == NoBits \in Bitmap /\ \A i \in Bits : ~GetBit(NoBits, i)
BY Decompose DEF NoBits, Bitmap, Word, GetBit

(* set_bit sets the bit it is given and no other (session.rs, set_bit). *)
LEMMA SetBitBits ==
  ASSUME NEW bm \in Bitmap, NEW k \in Bits, NEW i \in Bits
  PROVE  /\ SetBit(bm, k) \in Bitmap
         /\ GetBit(SetBit(bm, k), i) <=> (i = k \/ GetBit(bm, i))
<1> DEFINE W(j) == j \div WordBits
           B(j) == j % WordBits
<1>1. /\ W(k) \in WordIndex /\ B(k) \in 0 .. WordBits - 1 /\ k = W(k) * WordBits + B(k)
      /\ W(i) \in WordIndex /\ B(i) \in 0 .. WordBits - 1 /\ i = W(i) * WordBits + B(i)
  BY Decompose
<1>2. k \in Nat /\ i \in Nat /\ k < Window /\ i < Window /\ Window \in Nat
  BY WindowSize, Decompose DEF Bits
<1>3. SetBit(bm, k) = [bm EXCEPT ![W(k)] = @ \cup {B(k)}]
  BY <1>2 DEF SetBit
<1>4. GetBit(bm, i) <=> B(i) \in bm[W(i)]
  BY <1>2 DEF GetBit
<1>5. GetBit(SetBit(bm, k), i) <=> B(i) \in SetBit(bm, k)[W(i)]
  BY <1>2 DEF GetBit
<1>6. (W(i) = W(k) /\ B(i) = B(k)) <=> i = k
  BY <1>1
<1> HIDE DEF W, B
<1>7. SetBit(bm, k) \in Bitmap
  BY <1>1, <1>3, SMTT(30) DEF Bitmap, Word
<1>8. B(i) \in SetBit(bm, k)[W(i)] <=> ((W(i) = W(k) /\ B(i) = B(k)) \/ B(i) \in bm[W(i)])
  BY <1>1, <1>3, SMTT(30) DEF Bitmap
<1>9. QED
  BY <1>4, <1>5, <1>6, <1>7, <1>8, Zenon

(* Pack builds the bitmap with the given positions (policy.h, aivpn_replay_set,
   and kernel_accel.rs, merge_replay_window). *)
LEMMA PackBits ==
  ASSUME NEW S, NEW i \in Bits
  PROVE  /\ Pack(S) \in Bitmap
         /\ GetBit(Pack(S), i) <=> i \in S
<1>1. /\ i \div WordBits \in WordIndex /\ i % WordBits \in 0 .. WordBits - 1
      /\ i = (i \div WordBits) * WordBits + (i % WordBits)
  BY Decompose
<1>2. i \in Nat /\ i < Window
  BY WindowSize, Decompose DEF Bits
<1>3. Pack(S) \in Bitmap
  BY DEF Pack, Bitmap, Word
<1>4. QED
  BY <1>1, <1>2, <1>3 DEF Pack, GetBit

(* shift_left moves every bit up across the words and drops what leaves the
   window (session.rs, shift_left). *)
LEMMA ShiftLeftBits ==
  ASSUME NEW bm \in Bitmap, NEW shift \in Nat, NEW i \in Bits
  PROVE  /\ ShiftLeft(bm, shift) \in Bitmap
         /\ GetBit(ShiftLeft(bm, shift), i) <=> (i >= shift /\ GetBit(bm, i - shift))
<1>0. i \in Nat /\ i < Window /\ Window \in Nat /\ WordBits \in Nat /\ WordBits > 0
  BY WindowSize, WindowAssumption, Decompose DEF Bits
<1>1. CASE shift = 0
  BY <1>0, <1>1, SMTT(30) DEF ShiftLeft
<1>2. CASE shift >= Window
  BY <1>0, <1>2, NoBitsBits, SMTT(30) DEF ShiftLeft
<1>3. CASE shift # 0 /\ shift < Window
  <2> DEFINE ws == shift \div WordBits
             bs == shift % WordBits
             iw == i \div WordBits
             ib == i % WordBits
             word(j) == IF j < ws THEN {}
                        ELSE IF bs = 0 THEN bm[j - ws]
                        ELSE WordShl(bm[j - ws], bs)
                             \cup (IF j > ws THEN WordShr(bm[j - ws - 1], WordBits - bs)
                                  ELSE {})
  <2>1. shift \in Bits
    BY <1>0, <1>3 DEF Bits
  <2>2. /\ ws \in WordIndex /\ bs \in 0 .. WordBits - 1 /\ shift = ws * WordBits + bs
        /\ iw \in WordIndex /\ ib \in 0 .. WordBits - 1 /\ i = iw * WordBits + ib
    BY <2>1, Decompose
  <2>3. ShiftLeft(bm, shift) = [j \in WordIndex |-> word(j)]
    BY <1>0, <1>3, SMTT(30) DEF ShiftLeft
  <2> HIDE DEF ws, bs, iw, ib
  <2>4. ASSUME NEW j \in WordIndex PROVE word(j) \in Word
    <3>1. CASE j < ws
      BY <3>1, SMTT(30) DEF Word
    <3>2. CASE ~(j < ws) /\ bs = 0
      <4>1. j - ws \in WordIndex
        BY <3>2, <2>2, WindowAssumption DEF WordIndex
      <4>2. QED
        BY <3>2, <4>1 DEF Bitmap
    <3>3. CASE ~(j < ws) /\ bs # 0
      BY <3>3 DEF WordShl, WordShr, Word
    <3>4. QED
      BY <3>1, <3>2, <3>3, Zenon
  <2>5. ShiftLeft(bm, shift) \in Bitmap
    BY <2>3, <2>4, Zenon DEF Bitmap
  <2>6. GetBit(ShiftLeft(bm, shift), i) <=> ib \in word(iw)
    <3>1. GetBit(ShiftLeft(bm, shift), i) <=> ib \in ShiftLeft(bm, shift)[iw]
      BY <1>0 DEF GetBit, ib, iw
    <3>2. QED
      BY <2>2, <2>3, <3>1, Zenon
  <2>7. ib \in word(iw) <=> (i >= shift /\ GetBit(bm, i - shift))
    <3>0. /\ ws \in Nat /\ bs \in Nat /\ bs < WordBits /\ ws < Words /\ Words \in Nat
          /\ iw \in Nat /\ ib \in Nat /\ ib < WordBits /\ iw < Words
      BY <1>0, <2>2, WindowAssumption DEF WordIndex
    <3>1. CASE iw < ws
      <4>1. (iw + 1) * WordBits <= ws * WordBits /\ (iw + 1) * WordBits = iw * WordBits + WordBits
        BY <1>0, <3>0, <3>1, Monotone
      <4>2. i < shift
        BY <1>0, <2>2, <3>0, <4>1
      <4>3. ib \notin word(iw) /\ ~(i >= shift)
        BY <1>0, <3>1, <4>2
      <4>4. QED
        BY <4>3, Zenon
    <3>2. CASE iw >= ws /\ bs = 0
      <4>1. iw - ws \in WordIndex /\ ib \in 0 .. WordBits - 1
        BY <1>0, <3>0, <3>2 DEF WordIndex
      <4>2. i - shift = (iw - ws) * WordBits + ib /\ i >= shift
        BY <1>0, <2>2, <3>0, <3>2, Difference, SMTT(30)
      <4>3. GetBit(bm, i - shift) <=> ib \in bm[iw - ws]
        BY <4>1, <4>2, PlaceBit
      <4>4. QED
        BY <3>0, <3>2, <4>2, <4>3, SMTT(30)
    <3>3. CASE iw >= ws /\ bs # 0 /\ ib >= bs
      <4>1. iw - ws \in WordIndex /\ ib - bs \in 0 .. WordBits - 1
        BY <1>0, <3>0, <3>3 DEF WordIndex
      <4>2. i - shift = (iw - ws) * WordBits + (ib - bs) /\ i >= shift
        BY <1>0, <2>2, <3>0, <3>3, Difference
      <4>3. GetBit(bm, i - shift) <=> ib - bs \in bm[iw - ws]
        BY <4>1, <4>2, PlaceBit, SMTT(30)
      <4>4. ib \in WordShl(bm[iw - ws], bs) <=> ib - bs \in bm[iw - ws]
        BY <2>2 DEF WordShl
      <4>5. iw > ws => ib \notin WordShr(bm[iw - ws - 1], WordBits - bs)
        <5>1. iw > ws => bm[iw - ws - 1] \subseteq 0 .. WordBits - 1
          BY <3>0 DEF Bitmap, Word, WordIndex
        <5>2. ib + (WordBits - bs) \notin 0 .. WordBits - 1
          BY <1>0, <3>0, <3>3
        <5>3. QED
          BY <5>1, <5>2 DEF WordShr
      <4>6. QED
        BY <3>0, <3>3, <4>2, <4>3, <4>4, <4>5, SMTT(30)
    <3>4. CASE iw > ws /\ bs # 0 /\ ib < bs
      <4>1. iw - ws - 1 \in WordIndex /\ ib + (WordBits - bs) \in 0 .. WordBits - 1
        BY <1>0, <3>0, <3>4 DEF WordIndex
      <4>2. i - shift = (iw - ws - 1) * WordBits + (ib + (WordBits - bs)) /\ i >= shift
        <5>1. i - shift = (iw - ws) * WordBits + (ib - bs)
          BY <1>0, <2>2, <3>0, <3>4, Difference, SMTT(30)
        <5>2. (iw - ws) * WordBits = (iw - ws - 1) * WordBits + WordBits
          BY <1>0, <3>0
        <5>3. (iw - ws - 1) * WordBits \in Nat
          BY <1>0, <3>0, <3>4
        <5>4. QED
          BY <1>0, <3>0, <3>4, <5>1, <5>2, <5>3
      <4>3. GetBit(bm, i - shift) <=> ib + (WordBits - bs) \in bm[iw - ws - 1]
        BY <4>1, <4>2, PlaceBit
      <4>4. ib \in WordShr(bm[iw - ws - 1], WordBits - bs)
              <=> ib + (WordBits - bs) \in bm[iw - ws - 1]
        BY <2>2 DEF WordShr
      <4>5. ib \notin WordShl(bm[iw - ws], bs)
        <5>1. bm[iw - ws] \subseteq 0 .. WordBits - 1
          BY <3>0, <3>4 DEF Bitmap, Word, WordIndex
        <5>2. ib - bs \notin 0 .. WordBits - 1
          BY <3>0, <3>4
        <5>3. QED
          BY <5>1, <5>2 DEF WordShl
      <4>6. QED
        BY <3>0, <3>4, <4>2, <4>3, <4>4, <4>5, SMTT(30)
    <3>5. CASE iw = ws /\ bs # 0 /\ ib < bs
      <4>1. i < shift
        BY <1>0, <2>2, <3>0, <3>5
      <4>2. ib \notin WordShl(bm[iw - ws], bs)
        <5>1. bm[iw - ws] \subseteq 0 .. WordBits - 1
          BY <3>0, <3>5 DEF Bitmap, Word, WordIndex
        <5>2. ib - bs \notin 0 .. WordBits - 1
          BY <3>0, <3>5
        <5>3. QED
          BY <5>1, <5>2 DEF WordShl
      <4>3. QED
        BY <1>0, <3>0, <3>5, <4>1, <4>2, SMTT(30)
    <3>6. \/ iw < ws
          \/ iw >= ws /\ bs = 0
          \/ iw >= ws /\ bs # 0 /\ ib >= bs
          \/ iw > ws /\ bs # 0 /\ ib < bs
          \/ iw = ws /\ bs # 0 /\ ib < bs
      <4> HIDE DEF iw, ib, ws, bs
      <4> QED BY <3>0
    <3>7. QED
      BY <3>1, <3>2, <3>3, <3>4, <3>5, <3>6, Zenon
  <2>8. QED
    BY <2>5, <2>6, <2>7, Zenon
<1>4. QED
  BY <1>0, <1>1, <1>2, <1>3, SMTT(30)

-----------------------------------------------------------------------------
(* Marking a counter *)

(* The window after c was marked: it ends at the newer of hi and c, and the marks
   it still covers are the old ones and c. *)
Advanced(hi, bm, c, hi2, bm2) ==
  /\ hi2 = MaxOf(hi, c) /\ bm2 \in Bitmap
  /\ \A d \in Counters :
       Marked(hi2, bm2, d) <=> InWindow(hi2, d) /\ (d = c \/ Marked(hi, bm, d))

LEMMA MarkedBits ==
  ASSUME NEW bm, NEW hi \in Counters, NEW c \in Counters
  PROVE  /\ Marked(hi, bm, c) <=> InWindow(hi, c) /\ GetBit(bm, hi - c)
         /\ InWindow(hi, c) <=> hi - c \in Bits
<1>1. hi \in Nat /\ c \in Nat /\ Window \in Nat
  BY WindowSize, WindowAssumption DEF Counters
<1>2. QED
  BY <1>1, SMTT(30) DEF Marked, InWindow, GetBit, Bits

(* A mark inside the window sets one bit. *)
LEMMA MarkInside ==
  ASSUME NEW hi \in Counters, NEW bm \in Bitmap, NEW c \in Counters, ~(c > hi)
  PROVE  Advanced(hi, bm, c, hi, IF hi - c < Window THEN SetBit(bm, hi - c) ELSE bm)
<1>0. hi \in Nat /\ c \in Nat /\ MaxOf(hi, c) = hi /\ Window \in Nat
  BY WindowSize, WindowAssumption DEF Counters, MaxOf
<1>1. CASE hi - c < Window
  <2>1. hi - c \in Bits
    BY <1>0, <1>1 DEF Bits
  <2>2. SetBit(bm, hi - c) \in Bitmap
    BY <2>1, SetBitBits
  <2>3. ASSUME NEW d \in Counters
        PROVE  Marked(hi, SetBit(bm, hi - c), d) <=> InWindow(hi, d) /\ (d = c \/ Marked(hi, bm, d))
    <3>1. CASE InWindow(hi, d)
      <4>1. hi - d \in Bits
        BY <3>1, MarkedBits
      <4>2. hi - d = hi - c <=> d = c
        BY <1>0 DEF Counters
      <4>3. GetBit(SetBit(bm, hi - c), hi - d) <=> (d = c \/ GetBit(bm, hi - d))
        BY <2>1, <4>1, <4>2, SetBitBits
      <4>4. QED
        BY <3>1, <4>3, MarkedBits, SMTT(30)
    <3>2. QED
      BY <3>1, MarkedBits
  <2>4. QED
    BY <1>0, <1>1, <2>2, <2>3, SMTT(30) DEF Advanced
<1>2. CASE ~(hi - c < Window)
  <2>1. ASSUME NEW d \in Counters
        PROVE  Marked(hi, bm, d) <=> InWindow(hi, d) /\ (d = c \/ Marked(hi, bm, d))
    BY <1>2, MarkedBits DEF InWindow
  <2>2. QED
    BY <1>0, <1>2, <2>1 DEF Advanced
<1>3. QED
  BY <1>1, <1>2

(* A mark ahead of the window moves it: what it means for a bitmap to be moved
   and marked, whichever way it is computed. *)
LEMMA MarkAhead ==
  ASSUME NEW hi \in Counters, NEW bm \in Bitmap, NEW c \in Counters, c > hi,
         NEW moved \in Bitmap,
         \A i \in Bits : i <= c =>
           (GetBit(moved, i) <=> (i >= c - hi /\ GetBit(bm, i - (c - hi))))
  PROVE  Advanced(hi, bm, c, c, SetBit(moved, 0))
<1>0. hi \in Nat /\ c \in Nat /\ MaxOf(hi, c) = c /\ Window \in Nat /\ 0 \in Bits
  BY WindowSize, WindowAssumption DEF Counters, MaxOf, Bits
<1>1. SetBit(moved, 0) \in Bitmap
  BY <1>0, SetBitBits
<1>2. ASSUME NEW d \in Counters
      PROVE  Marked(c, SetBit(moved, 0), d) <=> InWindow(c, d) /\ (d = c \/ Marked(hi, bm, d))
  <2>1. CASE InWindow(c, d)
    <3>1. c - d \in Bits /\ c - d <= c /\ d \in Nat
      BY <1>0, <2>1, MarkedBits, WindowAssumption, SMTT(30) DEF Counters
    <3>2. GetBit(SetBit(moved, 0), c - d) <=> (c - d = 0 \/ GetBit(moved, c - d))
      BY <1>0, <3>1, SetBitBits
    <3>3. c - d = 0 <=> d = c
      BY <1>0, <3>1
    <3>4. GetBit(moved, c - d) <=> (c - d >= c - hi /\ GetBit(bm, (c - d) - (c - hi)))
      BY <3>1
    <3>5. (c - d) - (c - hi) = hi - d /\ (c - d >= c - hi <=> d <= hi)
      BY <1>0, <3>1
    <3>6. d <= hi => InWindow(hi, d)
      BY <1>0, <2>1, <3>1 DEF InWindow
    <3>7. Marked(hi, bm, d) <=> d <= hi /\ GetBit(bm, hi - d)
      BY <3>6, MarkedBits DEF InWindow
    <3>8. QED
      BY <2>1, <3>2, <3>3, <3>4, <3>5, <3>7, MarkedBits, SMTT(30)
  <2>2. QED
    BY <2>1, MarkedBits, SMTT(30)
<1>3. QED
  BY <1>0, <1>1, <1>2, SMTT(30) DEF Advanced

(* mark_tag_received (session.rs). *)
LEMMA MarkTagAdvances ==
  ASSUME WindowTypeOK, NEW c \in Counters, MarkTagReceived(c)
  PROVE  Advanced(counter, words, c, counter', words')
<1>0. counter \in Counters /\ words \in Bitmap /\ counter \in Nat /\ c \in Nat
  BY WindowAssumption DEF WindowTypeOK, Counters
<1>1. CASE c > counter
  <2>1. c - counter \in Nat
    BY <1>0, <1>1
  <2>2. ShiftLeft(words, c - counter) \in Bitmap
    <3>1. 0 \in Bits
      BY WindowSize DEF Bits
    <3>2. QED
      BY <1>0, <2>1, <3>1, ShiftLeftBits
  <2>3. \A i \in Bits : GetBit(ShiftLeft(words, c - counter), i)
                          <=> (i >= c - counter /\ GetBit(words, i - (c - counter)))
    BY <1>0, <2>1, ShiftLeftBits
  <2>4. words' = SetBit(ShiftLeft(words, c - counter), 0) /\ counter' = c
    BY <1>1 DEF MarkTagReceived
  <2>5. QED
    BY <1>0, <1>1, <2>2, <2>3, <2>4, MarkAhead, SMTT(30)
<1>2. CASE ~(c > counter)
  BY <1>0, <1>2, MarkInside DEF MarkTagReceived
<1>3. QED
  BY <1>1, <1>2

(* aivpn_replay_set (policy.h). *)
LEMMA ReplaySetAdvances ==
  ASSUME WindowTypeOK, NEW c \in Counters, ReplaySet(c)
  PROVE  Advanced(kHi, kWords, c, kHi', kWords')
<1>0. kHi \in Counters /\ kWords \in Bitmap /\ kHi \in Nat /\ c \in Nat /\ Window \in Nat
  BY WindowAssumption, WindowSize DEF WindowTypeOK, Counters
<1>1. CASE c > kHi
  <2> DEFINE diff == c - kHi
             moved == IF diff >= Window THEN {}
                      ELSE {i + diff : i \in {j \in Bits :
                              /\ j + diff < Window /\ j <= kHi
                              /\ Marked(kHi, kWords, kHi - j)}}
  <2>1. kWords' = SetBit(Pack(moved), 0) /\ kHi' = c
    BY <1>1, Zenon DEF ReplaySet
  <2>2. 0 \in Bits /\ diff \in Nat
    BY <1>0, <1>1, WindowSize DEF Bits
  <2>3. ASSUME NEW i \in Bits, i <= c
        PROVE  i \in moved <=> (i >= diff /\ GetBit(kWords, i - diff))
    <3>0. i \in Nat /\ i < Window
      BY <1>0 DEF Bits
    <3>1. CASE i < diff
      <4>1. i \notin moved
        BY <1>0, <2>2, <3>0, <3>1 DEF Bits
      <4>2. QED
        BY <2>2, <3>0, <3>1, <4>1, SMTT(30)
    <3>2. CASE i >= diff
      <4>1. /\ i - diff \in Bits /\ (i - diff) + diff = i /\ diff < Window
            /\ i - diff <= kHi /\ kHi - (i - diff) \in Counters
            /\ kHi - (kHi - (i - diff)) = i - diff
        BY <1>0, <2>2, <2>3, <3>0, <3>2, WindowAssumption DEF Bits, Counters
      <4>2. Marked(kHi, kWords, kHi - (i - diff)) <=> GetBit(kWords, i - diff)
        BY <1>0, <4>1, MarkedBits, Zenon
      <4>3. i \in moved <=> Marked(kHi, kWords, kHi - (i - diff))
        <5>1. ASSUME NEW j \in Bits, i = j + diff PROVE j = i - diff
          BY <1>0, <2>2, <5>1 DEF Bits
        <5>2. i \in moved <=> \E j \in Bits : /\ i = j + diff /\ j + diff < Window /\ j <= kHi
                                             /\ Marked(kHi, kWords, kHi - j)
          BY <2>2, <4>1, <1>0, SMTT(30)
        <5> HIDE DEF moved
        <5>3. (i - diff) + diff < Window
          BY <3>0, <4>1
        <5>4. QED
          BY <4>1, <5>1, <5>2, <5>3
      <4>4. QED
        BY <3>2, <4>2, <4>3, SMTT(30)
    <3>3. QED
      BY <2>2, <3>0, <3>1, <3>2, SMTT(30)
  <2> HIDE DEF moved
  <2>4. Pack(moved) \in Bitmap
    BY <2>2, PackBits
  <2>5. \A i \in Bits : GetBit(Pack(moved), i) <=> i \in moved
    BY PackBits
  <2>6. \A i \in Bits : i <= c =>
           (GetBit(Pack(moved), i) <=> (i >= c - kHi /\ GetBit(kWords, i - (c - kHi))))
    BY <2>3, <2>5
  <2>7. QED
    BY <1>0, <1>1, <2>1, <2>4, <2>6, MarkAhead
<1>2. CASE ~(c > kHi)
  BY <1>0, <1>2, MarkInside, Zenon DEF ReplaySet
<1>3. QED
  BY <1>1, <1>2

(* A snapshot that is merged (kernel_accel.rs, merge_replay_window): the window
   ends at the newer of the two and covers the marks of both. *)
LEMMA MergedMarks ==
  ASSUME NEW hi \in Counters, NEW bm \in Bitmap, NEW hi2 \in Counters, NEW bm2 \in Bitmap
  PROVE  /\ Merged(hi, bm, hi2, bm2) \in Bitmap
         /\ \A d \in Counters :
              Marked(MaxOf(hi, hi2), Merged(hi, bm, hi2, bm2), d)
                => Marked(hi, bm, d) \/ Marked(hi2, bm2, d)
<1> DEFINE top == MaxOf(hi, hi2)
           S == {i \in Bits : /\ i <= top
                              /\ Marked(hi, bm, top - i) \/ Marked(hi2, bm2, top - i)}
<1>1. Merged(hi, bm, hi2, bm2) = Pack(S)
  BY DEF Merged
<1>2. top \in Counters /\ top \in Nat /\ 0 \in Bits
  BY WindowAssumption, WindowSize DEF MaxOf, Counters, Bits
<1> HIDE DEF top
<1>3. Pack(S) \in Bitmap
  BY <1>2, PackBits
<1>4. ASSUME NEW d \in Counters, Marked(top, Pack(S), d)
      PROVE  Marked(hi, bm, d) \/ Marked(hi2, bm2, d)
  <2>1. top - d \in Bits /\ GetBit(Pack(S), top - d)
    BY <1>2, <1>4, MarkedBits
  <2>2. top - d \in S
    BY <2>1, PackBits
  <2>3. top - (top - d) = d
    BY <1>2 DEF Counters
  <2>4. QED
    BY <2>2, <2>3
<1>5. QED
  BY <1>1, <1>3, <1>4, Zenon DEF top

-----------------------------------------------------------------------------
(* The windows and the history *)

Counted(acc, c) == [acc EXCEPT ![c] = @ + 1]

LEMMA CountedOnce ==
  ASSUME NEW acc \in [Counters -> Nat], NEW c \in Counters
  PROVE  /\ Counted(acc, c) \in [Counters -> Nat]
         /\ \A d \in Counters : Counted(acc, c)[d] > 0 <=> (d = c \/ acc[d] > 0)
BY DEF Counted

(* An exact window stays exact when a counter it does not refuse is delivered. *)
LEMMA ExactAdvances ==
  ASSUME NEW hi \in Counters, NEW bm, NEW acc \in [Counters -> Nat], NEW c \in Counters,
         NEW hi2, NEW bm2, Exact(hi, bm, acc), Advanced(hi, bm, c, hi2, bm2),
         c > hi \/ hi - c < Window
  PROVE  Exact(hi2, bm2, Counted(acc, c))
<1>0. /\ hi \in Nat /\ c \in Nat /\ Window \in Nat
      /\ hi2 = (IF hi >= c THEN hi ELSE c) /\ hi2 \in Counters
  BY WindowSize, WindowAssumption DEF Counters, Advanced, MaxOf
<1>1. ASSUME NEW d \in Counters, Counted(acc, c)[d] > 0 PROVE d <= hi2
  <2>1. d = c \/ acc[d] > 0
    BY <1>1, CountedOnce
  <2>2. d = c \/ d <= hi
    BY <2>1 DEF Exact
  <2>3. QED
    BY <1>0, <2>2 DEF Counters
<1>2. Counted(acc, c)[hi2] > 0 \/ hi2 = 0
  BY <1>0, CountedOnce DEF Exact
<1>3. ASSUME NEW d \in Counters, InWindow(hi2, d)
      PROVE  Marked(hi2, bm2, d) <=> Counted(acc, c)[d] > 0
  <2>1. Marked(hi2, bm2, d) <=> (d = c \/ Marked(hi, bm, d))
    BY <1>3 DEF Advanced
  <2>2. CASE d <= hi
    <3>1. InWindow(hi, d)
      BY <1>0, <1>3, <2>2 DEF InWindow, Counters
    <3>2. QED
      BY <2>1, <3>1, CountedOnce, ZenonT(60) DEF Exact
  <2>3. CASE ~(d <= hi)
    BY <2>1, <2>3, CountedOnce, Zenon DEF Exact, Marked
  <2>4. QED
    BY <2>2, <2>3
<1>4. QED
  BY <1>1, <1>2, <1>3, SMTT(30) DEF Exact

(* What the abstract window refuses it refuses for good. *)
LEMMA RefusedStays ==
  ASSUME NEW acc \in [Counters -> Nat], NEW c \in Counters, NEW d \in Counters,
         Refused(acc, d)
  PROVE  Refused(Counted(acc, c), d)
BY CountedOnce DEF Refused

(* A sound window stays sound when it marks what is delivered or refused. *)
LEMMA SoundAdvances ==
  ASSUME NEW hi \in Counters, NEW bm, NEW acc \in [Counters -> Nat], NEW c \in Counters,
         NEW hi2, NEW bm2, Advanced(hi, bm, c, hi2, bm2),
         acc[hi] > 0 \/ hi = 0, c > hi => acc[c] > 0,
         \A d \in Counters : Marked(hi, bm, d) => Refused(acc, d),
         Refused(acc, c)
  PROVE  Sound(hi2, bm2, acc)
<1>1. hi2 = (IF hi >= c THEN hi ELSE c) /\ hi \in Int /\ c \in Int
  BY WindowAssumption DEF Counters, Advanced, MaxOf
<1>2. acc[hi2] > 0 \/ hi2 = 0
  BY <1>1
<1>3. QED
  BY <1>2, Zenon DEF Sound, Advanced

(* What a sound window refuses, the abstract window refuses (session.rs,
   counter_is_fresh). *)
LEMMA SoundRefuses == WindowInv => LocalNeverStricter
<1> SUFFICES ASSUME WindowInv, NEW c \in Counters, ~CounterIsFresh(c)
             PROVE  Refused(accepted, c)
  BY DEF LocalNeverStricter, Refused
<1>0. counter \in Counters /\ counter \in Nat /\ c \in Nat /\ Window \in Nat /\ Window > 0
  BY WindowSize, WindowAssumption DEF WindowInv, WindowTypeOK, Counters
<1>1. ~(c > counter) /\ (~(counter - c < Window) \/ GetBit(words, counter - c))
  BY DEF CounterIsFresh
<1>2. CASE counter - c < Window
  BY <1>0, <1>1, <1>2, MarkedBits DEF InWindow, WindowInv, Sound
<1>3. CASE ~(counter - c < Window)
  BY <1>0, <1>3 DEF WindowInv, Sound, Refused
<1>4. QED
  BY <1>2, <1>3

(* A counter that an exact window lets through is one the abstract window accepts. *)
LEMMA ExactAccepts ==
  ASSUME NEW hi \in Counters, NEW bm, Exact(hi, bm, accepted), accepted \in [Counters -> Nat],
         NEW c \in Counters, c > hi \/ (hi - c < Window /\ ~Marked(hi, bm, c)),
         Deliver(c)
  PROVE  Abstract!Accept(c)
<1>0. hi \in Nat /\ c \in Nat /\ Window \in Nat /\ Window > 0 /\ Counters \subseteq Int
  BY WindowSize, WindowAssumption DEF Counters
<1>1. ~(accepted[c] > 0)
  BY <1>0 DEF Exact, InWindow
<1>2. \A s \in Counters : accepted[s] > 0 => s - c < Window
  BY <1>0 DEF Exact
<1>3. QED
  BY <1>1, <1>2 DEF Abstract!Accept, Abstract!Fresh, Abstract!Seen, Deliver

-----------------------------------------------------------------------------
(* The steps *)

LEMMA InitWindow == WindowInit => WindowInv
<1> SUFFICES ASSUME WindowInit PROVE WindowInv
  OBVIOUS
<1>1. 0 \in Counters
  BY WindowAssumption DEF Counters
<1>2. ASSUME NEW c \in Counters PROVE ~Marked(0, NoBits, c)
  BY <1>1, MarkedBits, NoBitsBits
<1>3. accepted \in [Counters -> Nat] /\ \A c \in Counters : ~(accepted[c] > 0)
  BY DEF WindowInit
<1>4. Exact(0, NoBits, accepted) /\ Sound(0, NoBits, accepted)
  BY <1>2, <1>3 DEF Exact, Sound
<1>5. QED
  BY <1>1, <1>3, <1>4, NoBitsBits DEF WindowInit, WindowInv, WindowTypeOK

(* What the kernel answers to a claim (policy.h, aivpn_replay_observe). *)
LEMMA Observed ==
  ASSUME NEW c \in Counters, WindowTypeOK
  PROVE  /\ ReplayObserve(c) = "ok" => c > kHi \/ (kHi - c < Window /\ ~Marked(kHi, kWords, c))
         /\ ReplayObserve(c) # "ok" => ~(c > kHi) /\ (kHi - c >= Window \/ Marked(kHi, kWords, c))
<1>1. kHi \in Nat /\ c \in Nat /\ Window \in Nat /\ Window > 0
  BY WindowAssumption, WindowSize DEF WindowTypeOK, Counters
<1>2. Marked(kHi, kWords, c) => ~(c > kHi) /\ kHi - c < Window
  BY <1>1 DEF Marked
<1>3. CASE c > kHi
  BY <1>1, <1>2, <1>3 DEF ReplayObserve
<1>4. CASE kHi - c >= Window
  BY <1>1, <1>2, <1>4 DEF ReplayObserve
<1>5. CASE Marked(kHi, kWords, c)
  BY <1>1, <1>2, <1>5 DEF ReplayObserve
<1>6. CASE ~(c > kHi) /\ ~(kHi - c >= Window) /\ ~Marked(kHi, kWords, c)
  BY <1>1, <1>6 DEF ReplayObserve
<1>7. QED
  BY <1>3, <1>4, <1>5, <1>6, Zenon

LEMMA AdvancedTyped ==
  ASSUME NEW hi \in Counters, NEW bm, NEW c \in Counters, NEW hi2, NEW bm2,
         Advanced(hi, bm, c, hi2, bm2)
  PROVE  hi2 \in Counters /\ bm2 \in Bitmap
BY DEF Advanced, MaxOf

LEMMA UserDeliverHolds ==
  ASSUME WindowInv, NEW c \in Counters, UserDeliver(c)
  PROVE  WindowInv' /\ Abstract!Accept(c)
<1>0. /\ WindowTypeOK /\ counter \in Counters /\ words \in Bitmap /\ kHi \in Counters
      /\ kWords \in Bitmap /\ accepted \in [Counters -> Nat] /\ offload \in BOOLEAN
      /\ counter \in Nat /\ c \in Nat /\ Window \in Nat
  BY WindowAssumption, WindowSize, SMTT(30) DEF WindowInv, WindowTypeOK, Counters
<1>1. Advanced(counter, words, c, counter', words')
  BY <1>0, MarkTagAdvances, SMTT(30) DEF UserDeliver
<1>2. accepted' = Counted(accepted, c) /\ offload' = offload /\ Deliver(c)
  BY SMTT(30) DEF UserDeliver, Deliver, Counted
<1>3. c > counter \/ (counter - c < Window /\ ~Marked(counter, words, c))
  BY <1>0, MarkedBits, SMTT(30) DEF UserDeliver, CounterIsFresh
<1>4. accepted' \in [Counters -> Nat] /\ accepted'[c] > 0
  BY <1>0, <1>2, CountedOnce, SMTT(30)
<1>5. Sound(counter', words', accepted')
  <2>1. \A d \in Counters : Marked(counter, words, d) => Refused(accepted', d)
    BY <1>0, <1>2, RefusedStays, SMTT(30) DEF WindowInv, Sound
  <2>2. accepted'[counter] > 0 \/ counter = 0
    BY <1>0, <1>2, CountedOnce, SMTT(30) DEF WindowInv, Sound
  <2>3. Refused(accepted', c)
    BY <1>4 DEF Refused
  <2>4. QED
    BY <1>0, <1>1, <1>4, <2>1, <2>2, <2>3, SoundAdvances, SMTT(30)
<1>6. counter' \in Counters /\ words' \in Bitmap
  BY <1>0, <1>1, AdvancedTyped, SMTT(30)
<1>7. CASE offload
  <2>1. Exact(kHi, kWords, accepted)
    BY <1>7 DEF WindowInv
  <2>2. c > kHi \/ (kHi - c < Window /\ ~Marked(kHi, kWords, c))
    BY <1>0, <1>7, Observed, SMTT(30) DEF UserDeliver
  <2>3. Advanced(kHi, kWords, c, kHi', kWords')
    BY <1>0, <1>7, ReplaySetAdvances, SMTT(30) DEF UserDeliver
  <2>4. Exact(kHi', kWords', accepted')
    BY <1>0, <1>2, <2>1, <2>2, <2>3, ExactAdvances, SMTT(30)
  <2>5. kHi' \in Counters /\ kWords' \in Bitmap
    BY <1>0, <2>3, AdvancedTyped
  <2>6. Abstract!Accept(c)
    BY <1>0, <1>2, <2>1, <2>2, ExactAccepts, SMTT(30)
  <2>7. QED
    BY <1>0, <1>2, <1>4, <1>5, <1>6, <1>7, <2>4, <2>5, <2>6, Zenon DEF WindowInv, WindowTypeOK
<1>8. CASE ~offload
  <2>1. Exact(counter, words, accepted)
    BY <1>8 DEF WindowInv
  <2>2. Exact(counter', words', accepted')
    BY <1>0, <1>1, <1>2, <1>3, <2>1, ExactAdvances, Zenon
  <2>3. kHi' = kHi /\ kWords' = kWords
    BY <1>8 DEF UserDeliver
  <2>4. Abstract!Accept(c)
    BY <1>0, <1>2, <1>3, <2>1, ExactAccepts, SMTT(30)
  <2>5. QED
    BY <1>0, <1>2, <1>4, <1>5, <1>6, <1>8, <2>2, <2>3, <2>4, SMTT(30) DEF WindowInv, WindowTypeOK
<1>9. QED
  BY <1>7, <1>8

LEMMA KernelDeliverHolds ==
  ASSUME WindowInv, NEW c \in Counters, KernelDeliver(c)
  PROVE  WindowInv' /\ Abstract!Accept(c)
<1>0. /\ WindowTypeOK /\ kHi \in Counters /\ kWords \in Bitmap /\ counter \in Counters
      /\ accepted \in [Counters -> Nat] /\ offload
  BY SMTT(30) DEF WindowInv, WindowTypeOK, KernelDeliver
<1>1. Advanced(kHi, kWords, c, kHi', kWords')
  BY <1>0, ReplaySetAdvances, SMTT(30) DEF KernelDeliver
<1>2. /\ accepted' = Counted(accepted, c) /\ offload' = offload /\ Deliver(c)
      /\ counter' = counter /\ words' = words
  BY SMTT(30) DEF KernelDeliver, Deliver, Counted
<1>3. c > kHi \/ (kHi - c < Window /\ ~Marked(kHi, kWords, c))
  BY <1>0, Observed, SMTT(30) DEF KernelDeliver
<1>4. Exact(kHi, kWords, accepted)
  BY <1>0, SMTT(30) DEF WindowInv
<1>5. Exact(kHi', kWords', accepted')
  BY <1>0, <1>1, <1>2, <1>3, <1>4, ExactAdvances, Zenon
<1>6. kHi' \in Counters /\ kWords' \in Bitmap /\ accepted' \in [Counters -> Nat]
  BY <1>0, <1>1, <1>2, AdvancedTyped, CountedOnce, Zenon
<1>7. Sound(counter, words, accepted')
  <2>1. \A d \in Counters : Marked(counter, words, d) => Refused(accepted', d)
    BY <1>0, <1>2, RefusedStays, Zenon DEF WindowInv, Sound
  <2>2. accepted'[counter] > 0 \/ counter = 0
    BY <1>0, <1>2, CountedOnce, SMTT(30) DEF WindowInv, Sound
  <2>3. QED
    BY <2>1, <2>2 DEF Sound
<1>8. Abstract!Accept(c)
  BY <1>0, <1>2, <1>3, <1>4, ExactAccepts
<1>9. QED
  BY <1>0, <1>2, <1>5, <1>6, <1>7, <1>8, Zenon DEF WindowInv, WindowTypeOK

LEMMA UserRejectedHolds ==
  ASSUME WindowInv, NEW c \in Counters, UserRejected(c)
  PROVE  WindowInv'
<1>0. /\ WindowTypeOK /\ counter \in Counters /\ kHi \in Counters /\ offload
      /\ accepted \in [Counters -> Nat]
      /\ kHi \in Nat /\ c \in Nat /\ Window \in Nat /\ Window > 0
  BY WindowAssumption, WindowSize, SMTT(30) DEF WindowInv, WindowTypeOK, UserRejected, Counters
<1>1. offload' = offload /\ kHi' = kHi /\ kWords' = kWords /\ accepted' = accepted
  BY DEF UserRejected
<1>2. CASE c > counter
  <2>1. counter' = counter /\ words' = words
    BY <1>2 DEF UserRejected
  <2>2. QED
    BY <1>0, <1>1, <2>1, SMTT(30) DEF WindowInv, WindowTypeOK
<1>3. CASE ~(c > counter)
  <2>1. Advanced(counter, words, c, counter', words')
    BY <1>0, <1>3, MarkTagAdvances, SMTT(30) DEF UserRejected
  <2>2. Refused(accepted, c)
    <3>1. ~(c > kHi) /\ (kHi - c >= Window \/ Marked(kHi, kWords, c))
      BY <1>0, Observed, SMTT(30) DEF UserRejected
    <3>2. Exact(kHi, kWords, accepted)
      BY <1>0 DEF WindowInv
    <3>3. CASE kHi - c >= Window
      BY <1>0, <3>2, <3>3 DEF Exact, Refused
    <3>4. CASE Marked(kHi, kWords, c)
      BY <1>0, <3>2, <3>4, MarkedBits, SMTT(30) DEF Exact, Refused
    <3>5. QED
      BY <3>1, <3>3, <3>4
  <2>3. Sound(counter', words', accepted)
    BY <1>0, <1>3, <2>1, <2>2, SoundAdvances, Zenon DEF WindowInv, Sound
  <2>4. counter' \in Counters /\ words' \in Bitmap
    BY <1>0, <2>1, AdvancedTyped, SMTT(30)
  <2>5. QED
    BY <1>0, <1>1, <2>3, <2>4, SMTT(30) DEF WindowInv, WindowTypeOK
<1>4. QED
  BY <1>2, <1>3

LEMMA HarvestHolds ==
  ASSUME WindowInv, Harvest
  PROVE  WindowInv'
<1>0. /\ counter \in Counters /\ words \in Bitmap /\ kHi \in Counters /\ kWords \in Bitmap
      /\ offload
  BY SMTT(30) DEF WindowInv, WindowTypeOK, Harvest
<1>1. /\ offload' = offload /\ kHi' = kHi /\ kWords' = kWords /\ accepted' = accepted
      /\ words' = Merged(counter, words, kHi, kWords) /\ counter' = MaxOf(counter, kHi)
  BY DEF Harvest
<1>2. words' \in Bitmap /\ counter' \in Counters
  BY <1>0, <1>1, MergedMarks, SMTT(30) DEF MaxOf
<1>3. \A d \in Counters : Marked(counter', words', d)
                             => Marked(counter, words, d) \/ Marked(kHi, kWords, d)
  BY <1>0, <1>1, MergedMarks, SMTT(30)
<1>4. Exact(kHi, kWords, accepted) /\ Sound(counter, words, accepted)
  BY <1>0 DEF WindowInv
<1>5. ASSUME NEW d \in Counters, Marked(kHi, kWords, d)
      PROVE  Refused(accepted, d)
  BY <1>0, <1>4, <1>5, MarkedBits, SMTT(30) DEF Exact, Refused
<1>6. Sound(counter', words', accepted)
  <2>1. accepted[counter'] > 0 \/ counter' = 0
    BY <1>1, <1>4, SMTT(30) DEF MaxOf, Exact, Sound
  <2>2. QED
    BY <1>3, <1>4, <1>5, <2>1, SMTT(30) DEF Sound
<1>7. QED
  BY <1>0, <1>1, <1>2, <1>4, <1>6, SMTT(30) DEF WindowInv, WindowTypeOK

LEMMA StepWindow ==
  WindowInv /\ [WindowNext]_windowVars => WindowInv' /\ [Abstract!Next]_accepted
<1> SUFFICES ASSUME WindowInv, [WindowNext]_windowVars
             PROVE  WindowInv' /\ [Abstract!Next]_accepted
  OBVIOUS
<1>1. ASSUME NEW c \in Counters, UserDeliver(c) \/ KernelDeliver(c)
      PROVE  WindowInv' /\ Abstract!Next
  BY <1>1, UserDeliverHolds, KernelDeliverHolds DEF Abstract!Next
<1>2. ASSUME NEW c \in Counters, UserRejected(c)
      PROVE  WindowInv' /\ accepted' = accepted
  BY <1>2, UserRejectedHolds, SMTT(30) DEF UserRejected
<1>3. CASE Harvest
  BY <1>3, HarvestHolds, SMTT(30) DEF Harvest
<1>4. CASE UNCHANGED windowVars
  BY <1>4, SMTT(30) DEF windowVars, WindowInv, WindowTypeOK
<1>5. QED
  BY <1>1, <1>2, <1>3, <1>4 DEF WindowNext

(* For every width, number of words and largest counter, with and without the
   kernel: a counter is delivered at most once by the two data paths together and
   never from behind the window, and the local window refuses only what the
   abstract window refuses (mark_tag_received, counter_is_fresh, shift_left,
   kernel_note_rejected, absorb_shared_replay, aivpn_replay_set). *)
THEOREM WindowsDoAgree == WindowSpec => []WindowTypeOK /\ WindowsAgree
<1>1. WindowInit => Abstract!Init
  BY DEF WindowInit, Abstract!Init
<1>2. WindowInv => WindowTypeOK
  BY DEF WindowInv
<1>3. QED
  BY InitWindow, StepWindow, SoundRefuses, <1>1, <1>2, PTL
     DEF WindowSpec, WindowsAgree, ImplementsSlidingWindow, Abstract!Spec
=============================================================================
