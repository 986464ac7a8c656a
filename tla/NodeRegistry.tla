---------------------------- MODULE NodeRegistry ----------------------------
(***************************************************************************)
(* The registry of pool nodes (node_registry.rs): which key an identity is *)
(* bound to, and which identities are revoked.  The daemon and command     *)
(* line processes share one file; every operation takes the file's lock    *)
(* and reads the file first, so one operation is one step.  Locking or     *)
(* writing may fail, and the file may be damaged or removed by others.     *)
(***************************************************************************)
EXTENDS Naturals

CONSTANTS Procs,    \* processes that have the registry open
          AutoAdd,  \* those with allow_auto_add
          NodeIds, Keys,
          MaxDamage \* bound on interference with the file

VARIABLES
  registry, \* the registry file
  mem,      \* process -> RegistryState
  session,  \* process -> identities verified on its sessions
  damage,   \* how often the file was interfered with
  banned,   \* revoked for every process: the revocation is on disk
  distrust  \* process -> revoked there, the write having failed

registryVars == <<registry, mem, session, damage, banned, distrust>>

NoNodes == [n \in NodeIds |-> {}]
Fresh == [nodes |-> NoNodes, revoked |-> {}, unsaved |-> {}, existed |-> FALSE, poisoned |-> FALSE]
Faults == {"none", "lock", "write"}
Bindings == [NodeIds -> {{}} \union {{k} : k \in Keys}]

Memory == [nodes : Bindings, revoked : SUBSET NodeIds, unsaved : SUBSET NodeIds,
           existed : BOOLEAN, poisoned : BOOLEAN]
RegistryFile == [is : {"absent", "good", "bad"}, nodes : Bindings, revoked : SUBSET NodeIds]

(* Every part of the state has its type. *)
RegistryTypeOK ==
  /\ registry \in RegistryFile
  /\ mem \in [Procs -> Memory]
  /\ session \in [Procs -> SUBSET (NodeIds \X Keys)]
  /\ banned \in SUBSET NodeIds /\ distrust \in [Procs -> SUBSET NodeIds]

RegistryInit ==
  /\ registry = [is |-> "absent", nodes |-> NoNodes, revoked |-> {}]
  /\ mem = [p \in Procs |-> Fresh]
  /\ session = [p \in Procs |-> {}]
  /\ damage = 0
  /\ banned = {}
  /\ distrust = [p \in Procs |-> {}]

-----------------------------------------------------------------------------

(* The state a process works with after reading the file; an unreadable file
   closes the registry for good *)
refresh(m) ==
  IF m.poisoned \/ (registry.is = "absent" /\ ~m.existed) THEN m
  ELSE IF registry.is # "good" THEN [m EXCEPT !.poisoned = TRUE]
  ELSE [m EXCEPT !.nodes = registry.nodes, !.revoked = registry.revoked \union m.unsaved,
                 !.existed = TRUE]

persist(m) == registry' = [is |-> "good", nodes |-> m.nodes, revoked |-> m.revoked]

is_authorized(m, n, k) ==
  ~m.poisoned /\ m.nodes[n] = {k} /\ n \notin m.revoked

Load(p) ==
  /\ mem' = [mem EXCEPT ![p] = refresh(Fresh)]
  /\ session' = [session EXCEPT ![p] = {}]
  /\ distrust' = [distrust EXCEPT ![p] = {}]
  /\ UNCHANGED <<registry, damage, banned>>

\* Mutant: an identity that is bound is bound anew to the key it shows.
AuthenticateMutantRebinds(p, n, k, fault) ==
  LET m == IF fault = "lock" THEN mem[p] ELSE refresh(mem[p])
      bound == [m EXCEPT !.nodes[n] = {k}, !.existed = TRUE]
      bind == fault = "none" /\ ~m.poisoned /\ n \notin m.revoked /\ p \in AutoAdd
  IN /\ mem' = [mem EXCEPT ![p] = IF bind THEN bound ELSE m]
     /\ IF bind THEN persist(bound) ELSE UNCHANGED registry
     /\ session' = IF bind THEN [session EXCEPT ![p] = @ \union {<<n, k>>}] ELSE session
     /\ UNCHANGED <<damage, banned, distrust>>

(* A node proves that it holds key k: trust on first use, then only this key *)
authenticate(p, n, k, fault) ==
  LET m == IF fault = "lock" THEN mem[p] ELSE refresh(mem[p])
      open == fault # "lock" /\ ~m.poisoned /\ n \notin m.revoked
      verified == open /\ m.nodes[n] = {k}
      bind == open /\ m.nodes[n] = {} /\ p \in AutoAdd /\ fault # "write"
      bound == [m EXCEPT !.nodes[n] = {k}, !.existed = TRUE]
  IN /\ mem' = [mem EXCEPT ![p] = IF bind THEN bound ELSE m]
     /\ IF bind THEN persist(bound) ELSE UNCHANGED registry
     /\ session' = IF verified \/ bind
                   THEN [session EXCEPT ![p] = @ \union {<<n, k>>}] ELSE session
     /\ UNCHANGED <<damage, banned, distrust>>

(* A revocation that fails holds in this process *)
try_revoke(p, n, fault) ==
  LET m == IF fault = "lock" THEN mem[p] ELSE refresh(mem[p])
      out == [m EXCEPT !.nodes[n] = {}, !.revoked = @ \union {n}]
  IN /\ IF fault = "none" /\ ~m.poisoned
        THEN /\ persist(out)
             /\ mem' = [mem EXCEPT ![p] = [out EXCEPT !.existed = TRUE, !.unsaved = @ \ {n}]]
             /\ banned' = banned \union {n}
             /\ distrust' = [distrust EXCEPT ![p] = @ \ {n}]
        ELSE /\ mem' = [mem EXCEPT ![p] = [out EXCEPT !.unsaved = @ \union {n}]]
             /\ distrust' = [distrust EXCEPT ![p] = @ \union {n}]
             /\ UNCHANGED <<registry, banned>>
     /\ UNCHANGED <<session, damage>>

try_unrevoke(p, n, fault) ==
  LET m == IF fault = "lock" THEN mem[p] ELSE refresh(mem[p])
      out == [m EXCEPT !.revoked = @ \ {n}]
  IN /\ IF fault = "none" /\ ~m.poisoned /\ n \in m.revoked
        THEN /\ persist(out)
             /\ mem' = [mem EXCEPT ![p] = [out EXCEPT !.existed = TRUE, !.unsaved = @ \ {n}]]
             /\ banned' = banned \ {n}
             /\ distrust' = [distrust EXCEPT ![p] = @ \ {n}]
        ELSE /\ mem' = [mem EXCEPT ![p] = m]
             /\ UNCHANGED <<registry, banned, distrust>>
     /\ UNCHANGED <<session, damage>>

(* check_health, list and list_revoked only read the file *)
check_health(p) ==
  /\ mem' = [mem EXCEPT ![p] = refresh(@)]
  /\ UNCHANGED <<registry, session, damage, banned, distrust>>

(* Someone damages or removes the file.  A process that has never seen the file
   starts from nothing, so only processes that have are looked at from then on. *)
Interfere(as) ==
  /\ damage < MaxDamage /\ registry.is = "good"
  /\ \A p \in Procs : mem[p].existed
  /\ registry' = [is |-> as, nodes |-> NoNodes, revoked |-> {}]
  /\ damage' = damage + 1
  /\ UNCHANGED <<mem, session, banned, distrust>>

RegistryNext ==
  \/ \E p \in Procs :
       \/ damage = 0 /\ Load(p)
       \/ check_health(p)
       \/ \E n \in NodeIds, fault \in Faults :
            \/ \E k \in Keys : authenticate(p, n, k, fault)
            \/ try_revoke(p, n, fault)
            \/ try_unrevoke(p, n, fault)
  \/ \E as \in {"absent", "bad"} : Interfere(as)

RegistrySpec == RegistryInit /\ [][RegistryNext]_registryVars

-----------------------------------------------------------------------------
(* Properties *)

(* What a control message of a session is answered with: the gateway and the
   dialer ask is_authorized before each one. *)
Trusts(p, n, k) == <<n, k>> \in session[p] /\ is_authorized(refresh(mem[p]), n, k)

(* A session of a revoked node has no rights left, in any process when the
   revocation is on disk and in the process that failed to write it, whatever
   is written, read or damaged afterwards, until the revocation is lifted. *)
RevokedDistrusted ==
  \A p \in Procs, n \in NodeIds, k \in Keys :
    Trusts(p, n, k) => n \notin banned \union distrust[p]

(* A binding is replaced by another only through a revocation. *)
KeepsBindings ==
  \A n \in NodeIds : registry.nodes[n] # {} /\ registry'.is = "good" =>
    registry'.nodes[n] = registry.nodes[n] \/ n \in registry'.revoked
BindingKept == [][KeepsBindings]_registryVars

(* A process that has seen the file does not come to trust anybody new once the
   file is gone or damaged. *)
TrustsNobodyNew ==
  \A p \in Procs : mem[p].existed /\ registry.is # "good" => session'[p] \subseteq session[p]
NoTrustFromNothing == [][TrustsNobodyNew]_registryVars

(* What the registry is for (node_registry.rs, refresh, authenticate, try_revoke):
   a session of a revoked node has no rights left, in any process once the
   revocation is on disk and at once in the process that revoked it, whether or
   not it could be saved; an identity keeps the key it was first bound to until
   it is revoked; and a registry that was damaged or removed does not start trust
   on first use anew. *)
TrustKept == []RevokedDistrusted /\ BindingKept /\ NoTrustFromNothing

(* A revocation does not create the registry. *)
RevokeMakesNoFile ==
  [][\A n \in NodeIds : registry.is = "absent" /\ n \notin banned /\ n \in banned' => registry'.is = "absent"]_registryVars
=============================================================================
