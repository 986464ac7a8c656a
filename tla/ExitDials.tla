----------------------------- MODULE ExitDials -----------------------------
(***************************************************************************)
(* Which peers a node dials and how its traffic reaches an exit.           *)
(* pool_dialer.rs keeps one reconnecting dial loop per address; addresses  *)
(* come from the start-up configuration or from the exit nodes of clients  *)
(* and of the node, which management requests and pool merges change at    *)
(* run time (gateway/exit_routing.rs).  A loop removed and added again has *)
(* a new generation while the old one is still winding down.               *)
(***************************************************************************)
EXTENDS Naturals

CONSTANTS Addrs,
          Startup,    \* addresses dialed by start()
          Clients,
          Workers,    \* management requests and merges handled at a time
          Modes,      \* how exits change: mgmt, rest, merge, reload
          MaxChanges    \* bound on changes of exits

ASSUME DialsAssumption == MaxChanges \in Nat /\ Startup \subseteq Addrs

VARIABLES
  exit,      \* client -> set of its exit node ({} or one address)
  global,    \* masked_exit_addr ({} or one address)
  dialed,    \* dialed_peers
  runtime,   \* runtime_exit_peers
  gen,       \* address -> generation of its latest loop, 0 if none
  stopped,   \* <<a, g>> whose stop flag is set
  loop,      \* where each dial loop <<a, g>> that was started is
  sender,    \* peer_senders: address -> generation of the session, 0 if none
  connected, \* pool_status: address -> connected
  task,      \* worker -> what it is doing
  changes,
  cache,     \* exit_route_cache: client -> its resolved exit, or Miss
  pkt        \* a client packet between resolution, decision and sending

dialsVars == <<exit, global, dialed, runtime, gen, stopped, loop, sender, connected,
          task, changes, cache, pkt>>
packet == <<cache, pkt>>
dialer == <<dialed, runtime, gen, stopped, loop, sender, connected>>

Started == UNION {{a} \X (1..gen[a]) : a \in Addrs}
Phases == {"dial", "open", "live", "closing", "backoff", "done"}
AtRest == [at |-> "idle", mode |-> "none", snap |-> {}, todo |-> {}]
NoPkt == [at |-> "none", of |-> {}, own |-> {}, had |-> {}, to |-> {}, fallback |-> FALSE]
Miss == {"miss"}
Referenced == UNION {exit[c] : c \in Clients}

Choices == {{}} \union {{a} : a \in Addrs}
DialTask == [at : {"idle", "swap", "clear", "edited", "listed", "add", "prune"},
         mode : Modes \union {"none", "mgmt"}, snap : SUBSET Addrs, todo : SUBSET Addrs]
Packet == [at : {"none", "read", "resolved", "decided", "sent", "local", "dropped"},
           of : SUBSET Clients, own : Choices, had : Choices, to : Choices, fallback : BOOLEAN]

(* Every part of the state has its type, and the loops are the generations of
   the addresses. *)
DialTypeOK ==
  /\ exit \in [Clients -> Choices] /\ global \in Choices
  /\ runtime \subseteq dialed /\ dialed \subseteq Addrs
  /\ gen \in [Addrs -> Nat] /\ sender \in [Addrs -> Nat]
  /\ loop \in [Started -> Phases] /\ stopped \subseteq Started
  /\ connected \in [Addrs -> BOOLEAN]
  /\ task \in [Workers -> DialTask] /\ changes \in 0..MaxChanges
  /\ cache \in [Clients -> Choices \union {Miss}] /\ pkt \in Packet

-----------------------------------------------------------------------------
(* spawn_dial_loop and remove_peer, each one critical section of
   topology_lock *)

spawn_dial_loop(a, isRuntime) ==
  IF a \in dialed
  THEN UNCHANGED dialer
  ELSE /\ dialed' = dialed \union {a}
       /\ runtime' = IF isRuntime THEN runtime \union {a} ELSE runtime
       /\ gen' = [gen EXCEPT ![a] = @ + 1]
       /\ loop' = [l \in DOMAIN loop \union {<<a, gen[a] + 1>>} |->
                      IF l \in DOMAIN loop THEN loop[l] ELSE "dial"]
       /\ UNCHANGED <<stopped, sender, connected>>

remove_peer(a) ==
  IF a \notin runtime THEN UNCHANGED dialer
  ELSE /\ runtime' = runtime \ {a}
       /\ stopped' = stopped \union {<<a, gen[a]>>}
       /\ dialed' = dialed \ {a}
       /\ sender' = [sender EXCEPT ![a] = 0]
       /\ connected' = [connected EXCEPT ![a] = FALSE]
       /\ UNCHANGED <<gen, loop>>

DialsInit ==
  /\ exit = [c \in Clients |-> {}]
  /\ global = {}
  /\ dialed = Startup
  /\ runtime = {}
  /\ gen = [a \in Addrs |-> IF a \in Startup THEN 1 ELSE 0]
  /\ stopped = {}
  /\ loop = [l \in Startup \X {1} |-> "dial"]
  /\ sender = [a \in Addrs |-> 0]
  /\ connected = [a \in Addrs |-> FALSE]
  /\ task = [w \in Workers |-> AtRest]
  /\ changes = 0
  /\ cache = [c \in Clients |-> Miss]
  /\ pkt = NoPkt

-----------------------------------------------------------------------------
(* Requests of administrators and changes that come from elsewhere.  An
   in-tunnel request ("mgmt") clears the exit cache when everything else is
   done, a REST request ("rest") and a pool merge ("merge") before the dials
   are looked at; a merge only adds dials, and a changed clients file
   ("reload") only clears the cache. *)

ChangeExit(w, c, e, m) ==
  /\ task[w].at = "idle" /\ changes < MaxChanges /\ exit[c] # e
  /\ exit' = [exit EXCEPT ![c] = e]
  /\ changes' = changes + 1
  /\ task' = [task EXCEPT ![w] =
       [AtRest EXCEPT !.at = IF m = "mgmt" THEN "edited" ELSE "clear", !.mode = m]]
  /\ UNCHANGED <<dialer, global, packet>>

(* apply_global_exit_and_teardown: the swap, its dial, then the clients *)
SwapGlobal(w, e) ==
  /\ task[w].at = "idle" /\ changes < MaxChanges /\ global # e
  /\ global' = e
  /\ changes' = changes + 1
  /\ task' = [task EXCEPT ![w] = [AtRest EXCEPT !.at = "swap", !.mode = "mgmt", !.todo = e]]
  /\ UNCHANGED <<dialer, exit, packet>>

ClearCache(w) ==
  /\ task[w].at = "clear"
  /\ cache' = [c \in Clients |-> Miss]
  /\ task' = [task EXCEPT ![w] =
       IF task[w].mode \in {"mgmt", "reload"} THEN AtRest ELSE [@ EXCEPT !.at = "edited"]]
  /\ UNCHANGED <<dialer, exit, global, changes, pkt>>

ListClients(w) ==
  /\ task[w].at = "edited" \/ (task[w].at = "swap" /\ task[w].todo = {})
  /\ task' = [task EXCEPT ![w].at = "listed", ![w].snap = Referenced]
  /\ UNCHANGED <<dialer, exit, global, changes, packet>>

(* exits_needing_dial: the exits of the clients that are not dialed *)
FindMissing(w) ==
  /\ task[w].at = "listed"
  /\ task' = [task EXCEPT ![w].at = "add", ![w].todo = task[w].snap \ dialed]
  /\ UNCHANGED <<dialer, exit, global, changes, packet>>

AddPeer(w, a) ==
  /\ task[w].at \in {"swap", "add"} /\ a \in task[w].todo
  /\ spawn_dial_loop(a, TRUE)
  /\ task' = [task EXCEPT ![w].todo = @ \ {a}]
  /\ UNCHANGED <<exit, global, changes, packet>>

(* teardown_unused_exit_dials_for: what is needed, against what is dialed *)
FindUnused(w) ==
  /\ task[w].at = "add" /\ task[w].todo = {}
  /\ task' = [task EXCEPT ![w] =
       IF task[w].mode = "merge" THEN AtRest
       ELSE [@ EXCEPT !.at = "prune", !.todo = runtime \ (task[w].snap \union global)]]
  /\ UNCHANGED <<dialer, exit, global, changes, packet>>

RemoveUnused(w, a) ==
  /\ task[w].at = "prune" /\ a \in task[w].todo
  /\ remove_peer(a)
  /\ task' = [task EXCEPT ![w].todo = @ \ {a}]
  /\ UNCHANGED <<exit, global, changes, packet>>

RequestDone(w) ==
  /\ task[w].at = "prune" /\ task[w].todo = {}
  /\ task' = [task EXCEPT ![w] =
       IF task[w].mode = "mgmt" THEN [AtRest EXCEPT !.at = "clear", !.mode = "mgmt"] ELSE AtRest]
  /\ UNCHANGED <<dialer, exit, global, changes, packet>>

-----------------------------------------------------------------------------
(* dial_loop and run_one_session of generation l[2] of address l[1] *)

Stays == UNCHANGED <<exit, global, dialed, runtime, gen, stopped, task, changes, packet>>

StartSession(l) ==
  /\ loop[l] = "dial"
  /\ IF l \in stopped
     THEN loop' = [loop EXCEPT ![l] = "done"] /\ UNCHANGED connected
     ELSE /\ loop' = [loop EXCEPT ![l] = "open"]
          /\ connected' = IF sender[l[1]] = 0
                          THEN [connected EXCEPT ![l[1]] = FALSE] ELSE connected
  /\ UNCHANGED sender /\ Stays

(* The first message of the peer: with_active registers the sender *)
Promote(l) ==
  /\ loop[l] = "open"
  /\ IF l \in stopped
     THEN loop' = [loop EXCEPT ![l] = "closing"] /\ UNCHANGED <<sender, connected>>
     ELSE /\ loop' = [loop EXCEPT ![l] = "live"]
          /\ sender' = [sender EXCEPT ![l[1]] = l[2]]
          /\ connected' = [connected EXCEPT ![l[1]] = TRUE]
  /\ Stays

(* The session ends: the link fails, or the stop flag is seen *)
EndSession(l) ==
  /\ loop[l] \in {"open", "live"}
  /\ loop' = [loop EXCEPT ![l] = "closing"]
  /\ UNCHANGED <<sender, connected>> /\ Stays

\* Mutant: the cleanup removes whatever sender is registered.
CleanupMutantUnguarded(l) ==
  /\ loop[l] = "closing"
  /\ sender' = [sender EXCEPT ![l[1]] = 0]
  /\ connected' = [connected EXCEPT ![l[1]] = FALSE]
  /\ loop' = [loop EXCEPT ![l] = IF l \in stopped THEN "done" ELSE "backoff"]
  /\ Stays

\* Mutant: a session that ends is not dialed again.
CleanupMutantGivesUp(l) ==
  /\ loop[l] = "closing"
  /\ IF sender[l[1]] = l[2]
     THEN /\ sender' = [sender EXCEPT ![l[1]] = 0]
          /\ connected' = [connected EXCEPT ![l[1]] = FALSE]
     ELSE UNCHANGED <<sender, connected>>
  /\ loop' = [loop EXCEPT ![l] = "done"]
  /\ Stays

(* The registry forgets this session, unless another has replaced it *)
Cleanup(l) ==
  /\ loop[l] = "closing"
  /\ IF sender[l[1]] = l[2]
     THEN /\ sender' = [sender EXCEPT ![l[1]] = 0]
          /\ connected' = [connected EXCEPT ![l[1]] = FALSE]
     ELSE UNCHANGED <<sender, connected>>
  /\ loop' = [loop EXCEPT ![l] = IF l \in stopped THEN "done" ELSE "backoff"]
  /\ Stays

Redial(l) ==
  /\ loop[l] = "backoff"
  /\ loop' = [loop EXCEPT ![l] = IF l \in stopped THEN "done" ELSE "dial"]
  /\ UNCHANGED <<sender, connected>> /\ Stays

-----------------------------------------------------------------------------
(* A packet of a client: resolve_client_exit_addr reads the cache or else the
   database and fills the cache, then choose_exit, then forward_via_exit *)

Resolve(c) ==
  /\ pkt.at \in {"none", "sent", "local", "dropped"}
  /\ pkt' = IF cache[c] # Miss
            THEN [NoPkt EXCEPT !.at = "resolved", !.own = cache[c]]
            ELSE [NoPkt EXCEPT !.at = "read", !.of = {c}, !.own = exit[c]]
  /\ UNCHANGED <<dialer, exit, global, task, changes, cache>>

FillCache(c) ==
  /\ pkt.at = "read" /\ pkt.of = {c}
  /\ cache' = [cache EXCEPT ![c] = pkt.own]
  /\ pkt' = [pkt EXCEPT !.at = "resolved", !.of = {}]
  /\ UNCHANGED <<dialer, exit, global, task, changes>>

choose_exit(own, g, live) ==
  IF own # {} /\ own \subseteq live THEN [to |-> own, fallback |-> TRUE]
  ELSE [to |-> g, fallback |-> own # {}]

DecideExit ==
  LET d == choose_exit(pkt.own, global, {a \in Addrs : sender[a] # 0})
  IN /\ pkt.at = "resolved"
     /\ pkt' = [pkt EXCEPT !.at = "decided", !.had = global,
                           !.to = d.to, !.fallback = d.fallback]
     /\ UNCHANGED <<dialer, exit, global, task, changes, cache>>

ForwardViaExit ==
  /\ pkt.at = "decided"
  /\ pkt' = [pkt EXCEPT !.at =
       IF pkt.to = {} THEN "local"
       ELSE IF \A a \in pkt.to : sender[a] # 0 THEN "sent"
       ELSE IF pkt.fallback THEN "local" ELSE "dropped"]
  /\ UNCHANGED <<dialer, exit, global, task, changes, cache>>

-----------------------------------------------------------------------------
Loop(l) ==
  StartSession(l) \/ Promote(l) \/ EndSession(l) \/ Cleanup(l) \/ Redial(l)
Proceeds(l) ==
  /\ l \in DOMAIN loop
  /\ StartSession(l) \/ Cleanup(l) \/ Redial(l) \/ (l \in stopped /\ EndSession(l))
Work(w) ==
  \/ ClearCache(w) \/ ListClients(w) \/ FindMissing(w) \/ FindUnused(w) \/ RequestDone(w)
  \/ \E a \in Addrs : AddPeer(w, a) \/ RemoveUnused(w, a)
Packets ==
  (\E c \in Clients : Resolve(c) \/ FillCache(c)) \/ DecideExit \/ ForwardViaExit

Control ==
  \/ \E w \in Workers, e \in Choices :
       SwapGlobal(w, e) \/ \E c \in Clients, m \in Modes : ChangeExit(w, c, e, m)
  \/ \E w \in Workers : Work(w)
  \/ \E l \in DOMAIN loop : Loop(l)

DialsNext == Control \/ Packets

(* The tasks of the runtime run on; a session that was told to stop ends (the
   watcher polls the flag); a peer that can be dialed again and again answers
   some time.  A loop is started where none is, so all but one of an address'
   loops were removed, each by a request of its own: MaxGen of them are all. *)
MaxGen == MaxChanges + 1
Answers(a) == \E g \in 1..gen[a] : Promote(<<a, g>>)
DialsFairness ==
  /\ \A w \in Workers : WF_dialsVars(Work(w))
  /\ \A l \in Addrs \X (1..MaxGen) : WF_dialsVars(Proceeds(l))
  /\ \A a \in Addrs : SF_dialsVars(Answers(a))

DialsSpec == DialsInit /\ [][DialsNext]_dialsVars /\ DialsFairness

-----------------------------------------------------------------------------
(* Properties *)

(* The registered sender of an address belongs to its current loop: a loop
   that was removed can neither stay reachable nor come back. *)
SenderCurrent ==
  \A a \in Addrs : sender[a] # 0 =>
    a \in dialed /\ sender[a] = gen[a] /\ <<a, sender[a]>> \notin stopped

(* A live session that was not told to stop is reachable, whatever older
   session of the same address ends meanwhile. *)
LiveReachable ==
  \A l \in DOMAIN loop : loop[l] = "live" /\ l \notin stopped => sender[l[1]] = l[2]

(* The status shown to the operator says connected exactly when the address
   can be sent to. *)
StatusTracksSender == \A a \in Addrs : connected[a] <=> sender[a] # 0

(* Every dialed address has exactly one loop that may go on, its latest, and no
   other address has any; the start-up peers are never given up. *)
OneLoopEach ==
  /\ Startup \subseteq dialed
  /\ \A a \in Addrs :
       {g \in 1..gen[a] : loop[<<a, g>>] # "done" /\ <<a, g>> \notin stopped}
         = IF a \in dialed THEN {gen[a]} ELSE {}

(* A packet of a client without an exit of its own never leaves through this
   node when the node has an exit, up or down. *)
NodeExitNotBypassed ==
  pkt.at = "local" => pkt.own # {} \/ pkt.had = {}

(* What the dialer of a node is for (spawn_dial_loop, remove_peer,
   run_one_session, choose_exit): the registered sender of an exit belongs to its
   current dial, a live session of the current dial is registered, the status
   shown follows the sender, an address has one loop, and a packet of a client
   without an exit of its own never leaves through this node when the node has an
   exit, up or down, although exits are dropped and dialed again by several
   requests at once while old sessions wind down. *)
ExitsSound ==
  /\ DialTypeOK /\ SenderCurrent /\ LiveReachable
  /\ StatusTracksSender /\ OneLoopEach /\ NodeExitNotBypassed

(* When no request is in progress, every address some client or the node
   names as its exit is dialed. *)
ReferencedDialed ==
  (\A w \in Workers : task[w].at = "idle")
    => Referenced \union global \subseteq dialed

(* When no request and no packet is in progress, the exit cache says what the
   database says. *)
CacheFresh ==
  (\A w \in Workers : task[w].at = "idle") /\ pkt.at # "read"
    => \A c \in Clients : cache[c] \in {Miss, exit[c]}

(* An exit that stays referenced is connected again and again, through any
   number of failed sessions. *)
ExitGoesLive ==
  \A a \in Addrs :
    <>[](a \in Referenced \union global) => []<>(sender[a] # 0)
=============================================================================
