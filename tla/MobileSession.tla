---------------------------- MODULE MobileSession ----------------------------
(***************************************************************************)
(* Start and stop of a mobile tunnel.  A session passes through its set-up *)
(* (stop signal, name lookup, socket, handshake, TUN) on one thread, while *)
(* the platform calls stop_active_tunnel on others; both own and close the *)
(* same descriptors.  A stop may meet a session at any step, no session at *)
(* all, or a session that a newer one has replaced.  One atomic operation  *)
(* of the code is one step.                                                *)
(***************************************************************************)
EXTENDS Naturals, FiniteSets

CONSTANTS
  Sessions,  \* calls of run_tunnel_generic, any number of them at once
  Stops      \* calls of stop_active_tunnel

None == "none"

ASSUME MobileAssumption == None \notin Sessions /\ None \notin Stops

VARIABLES
  at,        \* the step each session is at
  active,    \* ACTIVE_SESSION
  lock,      \* the stop that holds the lock of ACTIVE_SESSION
  stopPending,   \* STOP_PENDING
  stop,      \* stop_requested of each session
  control,   \* the descriptors each session still owns, by kind
  open,      \* the descriptors of each session that are open
  signalled, \* sessions whose stop signal was written
  shut,      \* sessions whose socket was shut down
  tun,       \* SessionTun of each session: "new", "open" or "closed"
  stopCall,      \* each stop: its step, its session, the descriptors it took
  misused,   \* a descriptor was closed or written after it was closed
  late       \* readiness was announced after a stop had returned

mobileVars == <<at, active, lock, stopPending, stop, control, open, signalled, shut, tun,
          stopCall, misused, late>>
fds == <<control, open, signalled, shut, misused>>

IdleStop == [at |-> "new", session |-> None, took |-> {}]

MobileInit ==
  /\ at = [s \in Sessions |-> "new"]
  /\ active = None /\ lock = None /\ stopPending = FALSE
  /\ stop = [s \in Sessions |-> FALSE]
  /\ control = [s \in Sessions |-> {}] /\ open = [s \in Sessions |-> {}]
  /\ signalled = {} /\ shut = {}
  /\ tun = [s \in Sessions |-> "new"]
  /\ stopCall = [k \in Stops |-> IdleStop]
  /\ misused = FALSE /\ late = FALSE

Moves(s, step) == at' = [at EXCEPT ![s] = step]
(* Return from run_tunnel_generic: the guard is dropped. *)
Ends(s) == Moves(s, "close_tun")

-----------------------------------------------------------------------------
(* A session's set-up and loop.                                            *)

activate_session(s) ==
  /\ at[s] = "new" /\ lock = None
  /\ IF active # None /\ ~stop[active]
     THEN Moves(s, "gone") /\ UNCHANGED <<active, stopPending, stop>>
     ELSE /\ stop' = [stop EXCEPT ![s] = stopPending]
          /\ stopPending' = FALSE /\ active' = s
          /\ Moves(s, "signal")
  /\ UNCHANGED <<lock, tun, stopCall, late, fds>>

Creates(s, kind) ==
  /\ control' = [control EXCEPT ![s] = @ \union {kind}]
  /\ open' = [open EXCEPT ![s] = @ \union {kind}]
  /\ UNCHANGED <<signalled, shut, misused>>

create_stop_signal(s) ==
  /\ at[s] = "signal"
  /\ Creates(s, "signal") /\ Moves(s, "arm")
  /\ UNCHANGED <<active, lock, stopPending, stop, tun, stopCall, late>>

ArmMutantNever(s) ==
  /\ at[s] = "arm" /\ Moves(s, "dns")
  /\ UNCHANGED <<active, lock, stopPending, stop, tun, stopCall, late, fds>>

(* A stop that came before the signal existed is signalled now. *)
Arm(s) ==
  /\ at[s] = "arm" /\ Moves(s, "dns")
  /\ signalled' = IF stop[s] THEN signalled \union {s} ELSE signalled
  /\ UNCHANGED <<active, lock, stopPending, stop, control, open, shut, misused, tun,
                 stopCall, late>>

(* The waits of a session; what they wait for may fail or never come. *)
Waits == [dns |-> "before_udp", handshake |-> "before_tun"]

wait_for_stop(s) ==
  /\ at[s] \in {"dns", "handshake", "main"}
  /\ s \in signalled
  /\ Ends(s)
  /\ UNCHANGED <<active, lock, stopPending, stop, tun, stopCall, late, fds>>

Arrives(s) ==
  /\ at[s] \in DOMAIN Waits /\ (at[s] = "dns" => s \notin signalled)
  /\ Moves(s, Waits[at[s]])
  /\ UNCHANGED <<active, lock, stopPending, stop, tun, stopCall, late, fds>>

Fails(s) ==
  /\ at[s] \in {"dns", "udp", "handshake", "tun", "main"}
  /\ Ends(s)
  /\ UNCHANGED <<active, lock, stopPending, stop, tun, stopCall, late, fds>>

(* The socket was shut down, or the TUN closed under its reader. *)
ReadFails(s) ==
  /\ \/ at[s] \in {"handshake", "main"} /\ s \in shut
     \/ at[s] = "main" /\ tun[s] = "closed"
  /\ Ends(s)
  /\ UNCHANGED <<active, lock, stopPending, stop, tun, stopCall, late, fds>>

(* The handshake's retry timer also looks at stop_requested. *)
Retry(s) ==
  /\ at[s] = "handshake" /\ stop[s]
  /\ Ends(s)
  /\ UNCHANGED <<active, lock, stopPending, stop, tun, stopCall, late, fds>>

Checks == [before_udp |-> "udp", after_udp |-> "handshake", before_tun |-> "tun",
           before_ready |-> "ready"]

(* stop_requested is read between the phases. *)
Check(s) ==
  /\ at[s] \in DOMAIN Checks
  /\ IF stop[s] THEN Ends(s) ELSE Moves(s, Checks[at[s]])
  /\ UNCHANGED <<active, lock, stopPending, stop, tun, stopCall, late, fds>>

create_udp_socket(s) ==
  /\ at[s] = "udp"
  /\ Creates(s, "udp") /\ Moves(s, "after_udp")
  /\ UNCHANGED <<active, lock, stopPending, stop, tun, stopCall, late>>

InstallMutantUnchecked(s) ==
  /\ at[s] = "tun"
  /\ tun' = [tun EXCEPT ![s] = "open"] /\ Moves(s, "before_ready")
  /\ UNCHANGED <<active, lock, stopPending, stop, stopCall, late, fds>>

install(s) ==
  /\ at[s] = "tun"
  /\ IF tun[s] = "closed" \/ stop[s]
     THEN Ends(s) /\ UNCHANGED tun
     ELSE tun' = [tun EXCEPT ![s] = "open"] /\ Moves(s, "before_ready")
  /\ UNCHANGED <<active, lock, stopPending, stop, stopCall, late, fds>>

notify_ready(s) ==
  /\ at[s] = "ready" /\ Moves(s, "main")
  /\ late' = (late \/ \E k \in Stops : stopCall[k].session = s /\ stopCall[k].at = "done")
  /\ UNCHANGED <<active, lock, stopPending, stop, tun, stopCall, fds>>

-----------------------------------------------------------------------------
(* ActiveSessionGuard::drop.                                               *)

CloseTun(s) ==
  /\ at[s] = "close_tun"
  /\ tun' = [tun EXCEPT ![s] = "closed"] /\ Moves(s, "close_udp")
  /\ UNCHANGED <<active, lock, stopPending, stop, stopCall, late, fds>>

(* swap(-1): only an owned descriptor is closed. *)
Close(s, kind) ==
  /\ control' = [control EXCEPT ![s] = @ \ {kind}]
  /\ open' = IF kind \in control[s] THEN [open EXCEPT ![s] = @ \ {kind}] ELSE open
  /\ misused' = (misused \/ kind \in control[s] \ open[s])

Drops == [close_udp |-> "udp", close_signal |-> "signal"]

CloseFd(s) ==
  /\ at[s] \in DOMAIN Drops
  /\ Close(s, Drops[at[s]])
  /\ Moves(s, IF at[s] = "close_udp" THEN "close_signal" ELSE "clear")
  /\ UNCHANGED <<active, lock, stopPending, stop, signalled, shut, tun, stopCall, late>>

(* Only the session that is still the active one is cleared. *)
Clear(s) ==
  /\ at[s] = "clear" /\ lock = None
  /\ active' = IF active = s THEN None ELSE active
  /\ Moves(s, "gone")
  /\ UNCHANGED <<lock, stopPending, stop, tun, stopCall, late, fds>>

-----------------------------------------------------------------------------
(* stop_active_tunnel.                                                     *)

Stop(k) ==
  /\ stopCall[k].at = "new" /\ lock = None
  /\ IF active = None
     THEN /\ stopPending' = TRUE
          /\ stopCall' = [stopCall EXCEPT ![k].at = "done"]
          /\ UNCHANGED <<lock, stop>>
     ELSE /\ lock' = k
          /\ stop' = [stop EXCEPT ![active] = TRUE]
          /\ stopCall' = [stopCall EXCEPT ![k].at = "take_udp", ![k].session = active]
          /\ UNCHANGED stopPending
  /\ UNCHANGED <<at, active, tun, late, fds>>

Take(k, kind, step) ==
  LET s == stopCall[k].session IN
  /\ stopCall' = [stopCall EXCEPT ![k].at = step, ![k].took = @ \union (control[s] \intersect {kind})]
  /\ control' = [control EXCEPT ![s] = @ \ {kind}]

TakeUdp(k) ==
  /\ stopCall[k].at = "take_udp" /\ Take(k, "udp", "take_signal")
  /\ UNCHANGED <<at, active, lock, stopPending, stop, open, signalled, shut, misused, tun, late>>

TakeSignal(k) ==
  /\ stopCall[k].at = "take_signal" /\ Take(k, "signal", "stop_tun") /\ lock' = None
  /\ UNCHANGED <<at, active, stopPending, stop, open, signalled, shut, misused, tun, late>>

request_stop(k) ==
  /\ stopCall[k].at = "stop_tun"
  /\ tun' = [tun EXCEPT ![stopCall[k].session] = "closed"]
  /\ stopCall' = [stopCall EXCEPT ![k].at = "write"]
  /\ UNCHANGED <<at, active, lock, stopPending, stop, late, fds>>

(* Write or shut down a descriptor this stop took, and close it. *)
Uses(k, kind) ==
  LET s == stopCall[k].session IN
  /\ open' = IF kind \in stopCall[k].took THEN [open EXCEPT ![s] = @ \ {kind}] ELSE open
  /\ misused' = (misused \/ kind \in stopCall[k].took \ open[s])

Write(k) ==
  /\ stopCall[k].at = "write" /\ Uses(k, "signal")
  /\ signalled' = IF "signal" \in stopCall[k].took
                  THEN signalled \union {stopCall[k].session} ELSE signalled
  /\ stopCall' = [stopCall EXCEPT ![k].at = "shutdown"]
  /\ UNCHANGED <<at, active, lock, stopPending, stop, control, shut, tun, late>>

Shutdown(k) ==
  /\ stopCall[k].at = "shutdown" /\ Uses(k, "udp")
  /\ shut' = IF "udp" \in stopCall[k].took THEN shut \union {stopCall[k].session} ELSE shut
  /\ stopCall' = [stopCall EXCEPT ![k].at = "done"]
  /\ UNCHANGED <<at, active, lock, stopPending, stop, control, signalled, tun, late>>

clear_pending_stop ==
  /\ stopPending /\ stopPending' = FALSE
  /\ UNCHANGED <<at, active, lock, stop, tun, stopCall, late, fds>>

-----------------------------------------------------------------------------
(* Steps a session takes by itself. *)
Runs(s) ==
  \/ create_stop_signal(s) \/ Arm(s) \/ wait_for_stop(s) \/ ReadFails(s)
  \/ Retry(s) \/ Check(s) \/ create_udp_socket(s) \/ install(s) \/ notify_ready(s)
  \/ CloseTun(s) \/ CloseFd(s) \/ Clear(s)

Stopping(k) ==
  TakeUdp(k) \/ TakeSignal(k) \/ request_stop(k) \/ Write(k) \/ Shutdown(k)

MobileNext ==
  \/ \E s \in Sessions : activate_session(s) \/ Runs(s) \/ Arrives(s) \/ Fails(s)
  \/ \E k \in Stops : Stop(k) \/ Stopping(k)
  \/ clear_pending_stop

MobileFairness ==
  /\ \A s \in Sessions : WF_mobileVars(Runs(s))
  /\ \A k \in Stops : WF_mobileVars(Stopping(k))

MobileSpec == MobileInit /\ [][MobileNext]_mobileVars
FairMobileSpec == MobileSpec /\ MobileFairness

-----------------------------------------------------------------------------
LiveSession(s) == at[s] \notin {"new", "gone"}

(* A session that runs and was not told to stop is the one the next stop   *)
(* will reach: a replaced session that ends late does not take its         *)
(* successor's place away (ActiveSessionGuard::drop, activate_session).    *)
Reachable == \A s \in Sessions : LiveSession(s) /\ ~stop[s] => active = s

(* No descriptor is closed twice, or written or shut down once closed,     *)
(* when stops and the end of a session overlap (ownership by swap(-1)).    *)
NeverMisused == ~misused

(* When a session and the stops that reached it are over, all of its       *)
(* descriptors are closed, whichever phase it was stopped in.              *)
NothingLeft ==
  \A s \in Sessions :
    at[s] = "gone" /\ (\A k \in Stops : stopCall[k].session = s => stopCall[k].at = "done")
      => open[s] = {} /\ tun[s] # "open"

(* Once a stop has closed the TUN of a session, it stays closed: a session *)
(* still in its set-up does not install one afterwards (SessionTun).       *)
TunStaysClosed == [][\A s \in Sessions : tun[s] = "closed" => tun'[s] = "closed"]_mobileVars

(* The descriptors of a session have one owner at a time and a stop finds  *)
(* the session that runs, whatever stops and replacements meet it in its   *)
(* set-up (activate_session, ActiveSessionGuard, stop_active_tunnel).      *)
DescriptorsOwned == [](Reachable /\ NeverMisused /\ NothingLeft) /\ TunStaysClosed

(* A session told to stop ends, wherever it is: also while a name lookup,  *)
(* a handshake or the traffic it waits for never comes (create_stop_signal *)
(* and its second look at stop_requested, wait_for_stop).                  *)
StopEnds == \A s \in Sessions : stop[s] ~> at[s] = "gone"

(* A session does not announce readiness after the stop that ends it has   *)
(* returned to the platform (the check before notify_ready).               *)
NeverLate == ~late
=============================================================================
