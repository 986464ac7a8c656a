---------------------------- MODULE ClientProofs ----------------------------
(***************************************************************************)
(* What the client keeps right for every size of its parts.                *)
(* MobileSession: a descriptor has one owner until it is closed.           *)
(* RecvWindow: the bitmap is faithful to the history, and the window       *)
(* implements SlidingWindow.                                               *)
(***************************************************************************)
EXTENDS RecvWindow, MobileSession, TLAPS

-----------------------------------------------------------------------------
(* Descriptors of a mobile session *)

Kinds == {"udp", "signal"}
BeforeUdp == {"new", "signal", "arm", "dns", "before_udp", "udp"}
Phases == BeforeUdp \union
  {"after_udp", "handshake", "before_tun", "tun", "before_ready", "ready", "main",
   "close_tun", "close_udp", "close_signal", "clear", "gone"}
StopPhases == {"new", "take_udp", "take_signal", "stop_tun", "write", "shutdown", "done"}

MobileTypeOK ==
  /\ at \in [Sessions -> Phases]
  /\ active \in Sessions \union {None} /\ lock \in Stops \union {None}
  /\ stopPending \in BOOLEAN /\ stop \in [Sessions -> BOOLEAN]
  /\ control \in [Sessions -> SUBSET Kinds] /\ open \in [Sessions -> SUBSET Kinds]
  /\ signalled \subseteq Sessions /\ shut \subseteq Sessions
  /\ tun \in [Sessions -> {"new", "open", "closed"}]
  /\ stopCall \in [Stops -> [at : StopPhases, session : Sessions \union {None}, took : SUBSET Kinds]]
  /\ misused \in BOOLEAN /\ late \in BOOLEAN

(* What a stop in a given phase has taken and not yet closed. *)
Keeps(c) ==
  IF c.at \in {"take_udp", "take_signal", "stop_tun", "write"} THEN c.took
  ELSE IF c.at = "shutdown" THEN c.took \intersect {"udp"} ELSE {}
Owned(k) == Keeps(stopCall[k])

(* An open descriptor has one owner, the session or one of the stops that met it,
   and only open descriptors are owned. *)
SessionOwns == \A s \in Sessions : control[s] \subseteq open[s]

StopsOwn ==
  \A k \in Stops : stopCall[k].session # None =>
    /\ Owned(k) \subseteq open[stopCall[k].session]
    /\ Owned(k) \intersect control[stopCall[k].session] = {}

StopsApart ==
  \A j, k \in Stops : j # k /\ stopCall[j].session = stopCall[k].session =>
    Owned(j) \intersect Owned(k) = {}

AllOwned ==
  \A s \in Sessions : \A x \in open[s] \ control[s] :
    \E k \in Stops : stopCall[k].session = s /\ x \in Owned(k)

OneHolder == ~misused /\ SessionOwns /\ StopsOwn /\ StopsApart /\ AllOwned

(* How far a session has come says what it may have. *)
PhasesOK ==
  /\ \A k \in Stops :
       /\ stopCall[k].at = "new" => stopCall[k].session = None /\ stopCall[k].took = {}
       /\ stopCall[k].at \notin {"new", "done"} => stopCall[k].session # None
       /\ stopCall[k].session # None => at[stopCall[k].session] # "new"
  /\ active # None => at[active] # "new"
  /\ \A s \in Sessions :
       /\ at[s] \in {"new", "signal"} => open[s] = {}
       /\ at[s] \in BeforeUdp => "udp" \notin open[s]
       /\ at[s] \in {"close_signal", "clear", "gone"} => "udp" \notin control[s]
       /\ at[s] \in {"clear", "gone"} => control[s] = {}
       /\ at[s] \in {"new", "close_udp", "close_signal", "clear", "gone"} => tun[s] # "open"

MobileInv == MobileTypeOK /\ OneHolder /\ PhasesOK /\ Reachable

LEMMA InitMobile == MobileInit => MobileInv
<1> SUFFICES ASSUME MobileInit PROVE MobileInv
  OBVIOUS
<1>1. MobileTypeOK
  BY Zenon DEF MobileInit, MobileTypeOK, IdleStop, Phases, BeforeUdp, StopPhases
<1>2. \A k \in Stops : stopCall[k] = IdleStop /\ Owned(k) = {}
  BY DEF MobileInit, Owned, Keeps, IdleStop
<1>3. OneHolder
  BY <1>2, Zenon DEF MobileInit, OneHolder, SessionOwns, StopsOwn, StopsApart, AllOwned, IdleStop
<1>4. PhasesOK
  BY <1>2 DEF MobileInit, PhasesOK, IdleStop
<1>5. Reachable
  BY DEF MobileInit, Reachable, LiveSession
<1>6. QED
  BY <1>1, <1>3, <1>4, <1>5 DEF MobileInv

LEMMA HoldersKept ==
  ASSUME OneHolder, UNCHANGED <<control, open, stopCall, misused>>
  PROVE  OneHolder'
BY SMTT(30) DEF OneHolder, SessionOwns, StopsOwn, StopsApart, AllOwned, Owned, Keeps

(* A session goes on within its life, from the signal to the guard's drop. *)
LEMMA MovesOn ==
  ASSUME MobileInv, NEW s \in Sessions, NEW x \in Phases, Moves(s, x),
         at[s] \notin {"new", "gone"},
         x \notin {"new", "signal", "close_udp", "close_signal", "clear", "gone"},
         x \in BeforeUdp => at[s] \in BeforeUdp,
         tun' \in [Sessions -> {"new", "open", "closed"}],
         \A t \in Sessions \ {s} : tun'[t] = tun[t],
         signalled' \subseteq Sessions, late' \in BOOLEAN,
         UNCHANGED <<active, lock, stopPending, stop, control, open, shut, misused, stopCall>>
  PROVE  MobileInv'
<1>1. MobileTypeOK /\ OneHolder /\ PhasesOK /\ Reachable
  BY DEF MobileInv
<1>2. at' = [at EXCEPT ![s] = x] /\ at \in [Sessions -> Phases]
  BY <1>1 DEF Moves, MobileTypeOK
<1>3. MobileTypeOK'
  BY <1>1, <1>2 DEF MobileTypeOK
<1>4. PhasesOK'
  <2>1. ASSUME NEW k \in Stops
        PROVE  /\ stopCall[k].at = "new" => stopCall[k].session = None /\ stopCall[k].took = {}
               /\ stopCall[k].at \notin {"new", "done"} => stopCall[k].session # None
               /\ stopCall[k].session # None => at'[stopCall[k].session] # "new"
    <3>1. stopCall[k].session \in Sessions \union {None}
      BY <1>1 DEF MobileTypeOK
    <3>2. QED
      BY <1>1, <1>2, <3>1 DEF PhasesOK
  <2>2. active # None => at'[active] # "new"
    BY <1>1, <1>2 DEF PhasesOK, MobileTypeOK
  <2>3. ASSUME NEW t \in Sessions
        PROVE  /\ at'[t] \in {"new", "signal"} => open[t] = {}
               /\ at'[t] \in BeforeUdp => "udp" \notin open[t]
               /\ at'[t] \in {"close_signal", "clear", "gone"} => "udp" \notin control[t]
               /\ at'[t] \in {"clear", "gone"} => control[t] = {}
               /\ at'[t] \in {"new", "close_udp", "close_signal", "clear", "gone"} => tun'[t] # "open"
    <3>1. CASE t = s
      BY <1>1, <1>2, <3>1 DEF PhasesOK
    <3>2. CASE t # s
      BY <1>1, <1>2, <3>2 DEF PhasesOK
    <3>3. QED
      BY <3>1, <3>2
  <2>4. QED
    BY <2>1, <2>2, <2>3 DEF PhasesOK
<1>5. Reachable'
  BY <1>1, <1>2, Zenon DEF Reachable, LiveSession
<1>6. QED
  BY <1>1, <1>3, <1>4, <1>5, HoldersKept DEF MobileInv

(* The set-up, the loop and its ends. *)
LEMMA SessionMoves ==
  ASSUME MobileInv, NEW s \in Sessions,
         \/ Arm(s) \/ wait_for_stop(s) \/ Arrives(s) \/ Fails(s) \/ ReadFails(s) \/ Retry(s)
         \/ Check(s) \/ install(s) \/ notify_ready(s)
  PROVE  MobileInv'
<1>0. /\ tun \in [Sessions -> {"new", "open", "closed"}] /\ signalled \subseteq Sessions
      /\ late \in BOOLEAN /\ "close_tun" \in Phases
  BY DEF MobileInv, MobileTypeOK, Phases
<1>1. CASE Arm(s)
  BY <1>0, <1>1, MovesOn DEF Arm, Phases, BeforeUdp
<1>2. CASE wait_for_stop(s)
  BY <1>0, <1>2, MovesOn DEF wait_for_stop, Ends, BeforeUdp, fds
<1>3. CASE Arrives(s)
  <2>1. CASE at[s] = "dns"
    BY <1>0, <1>3, <2>1, MovesOn DEF Arrives, Waits, Phases, BeforeUdp, fds
  <2>2. CASE at[s] = "handshake"
    BY <1>0, <1>3, <2>2, MovesOn DEF Arrives, Waits, Phases, BeforeUdp, fds
  <2>3. QED
    BY <1>3, <2>1, <2>2 DEF Arrives, Waits
<1>4. CASE Fails(s)
  BY <1>0, <1>4, MovesOn DEF Fails, Ends, BeforeUdp, fds
<1>5. CASE ReadFails(s)
  BY <1>0, <1>5, MovesOn DEF ReadFails, Ends, BeforeUdp, fds
<1>6. CASE Retry(s)
  BY <1>0, <1>6, MovesOn DEF Retry, Ends, BeforeUdp, fds
<1>7. CASE Check(s)
  <2>1. CASE stop[s]
    <3>1. Moves(s, "close_tun") /\ at[s] \notin {"new", "gone"}
      BY <1>7, <2>1 DEF Check, Checks, Ends
    <3>2. QED
      BY <1>0, <1>7, <3>1, MovesOn DEF Check, BeforeUdp, fds
  <2>2. CASE ~stop[s] /\ at[s] = "before_udp"
    BY <1>0, <1>7, <2>2, MovesOn DEF Check, Checks, Phases, BeforeUdp, fds
  <2>3. CASE ~stop[s] /\ at[s] = "after_udp"
    BY <1>0, <1>7, <2>3, MovesOn DEF Check, Checks, Phases, BeforeUdp, fds
  <2>4. CASE ~stop[s] /\ at[s] = "before_tun"
    BY <1>0, <1>7, <2>4, MovesOn DEF Check, Checks, Phases, BeforeUdp, fds
  <2>5. CASE ~stop[s] /\ at[s] = "before_ready"
    BY <1>0, <1>7, <2>5, MovesOn DEF Check, Checks, Phases, BeforeUdp, fds
  <2>6. QED
    BY <1>7, <2>1, <2>2, <2>3, <2>4, <2>5 DEF Check, Checks
<1>8. CASE install(s)
  <2>1. CASE tun[s] = "closed" \/ stop[s]
    BY <1>0, <1>8, <2>1, MovesOn, SMTT(30) DEF install, Ends, BeforeUdp, fds
  <2>2. CASE ~(tun[s] = "closed" \/ stop[s])
    BY <1>0, <1>8, <2>2, MovesOn, SMTT(30) DEF install, Phases, BeforeUdp, fds
  <2>3. QED
    BY <2>1, <2>2
<1>9. CASE notify_ready(s)
  BY <1>0, <1>9, MovesOn DEF notify_ready, Phases, BeforeUdp, fds
<1>10. QED
  BY <1>1, <1>2, <1>3, <1>4, <1>5, <1>6, <1>7, <1>8, <1>9

(* A session that activates itself, or is refused because another one runs. *)
LEMMA ActivateHolds ==
  ASSUME MobileInv, NEW s \in Sessions, activate_session(s)
  PROVE  MobileInv'
<1>1. MobileTypeOK /\ OneHolder /\ PhasesOK /\ Reachable
  BY DEF MobileInv
<1>2. /\ at[s] = "new" /\ at \in [Sessions -> Phases] /\ stop \in [Sessions -> BOOLEAN]
      /\ stopPending \in BOOLEAN /\ active \in Sessions \union {None}
      /\ UNCHANGED <<lock, tun, stopCall, late, control, open, signalled, shut, misused>>
  BY <1>1 DEF activate_session, MobileTypeOK, fds
<1>3. /\ open[s] = {} /\ control[s] = {} /\ tun[s] # "open" /\ active # s
      /\ \A k \in Stops : stopCall[k].session # s
  BY <1>1, <1>2, MobileAssumption, SMTT(30) DEF PhasesOK, OneHolder, SessionOwns, MobileTypeOK
<1>4. CASE active # None /\ ~stop[active]
  <2>1. at' = [at EXCEPT ![s] = "gone"] /\ UNCHANGED <<active, stopPending, stop>>
    BY <1>4 DEF activate_session, Moves
  <2>2. MobileTypeOK'
    BY <1>1, <1>2, <2>1 DEF MobileTypeOK, Phases, BeforeUdp
  <2>3. \A t \in Sessions : at'[t] = IF t = s THEN "gone" ELSE at[t]
    BY <1>2, <2>1
  <2>4. PhasesOK'
    BY <1>1, <1>2, <1>3, <2>1, <2>3 DEF PhasesOK, BeforeUdp, MobileTypeOK
  <2>5. Reachable'
    BY <1>1, <2>1, <2>3 DEF Reachable, LiveSession
  <2>6. QED
    BY <1>1, <1>2, <2>2, <2>4, <2>5, HoldersKept DEF MobileInv
<1>5. CASE ~(active # None /\ ~stop[active])
  <2>1. /\ at' = [at EXCEPT ![s] = "signal"] /\ stop' = [stop EXCEPT ![s] = stopPending]
        /\ stopPending' = FALSE /\ active' = s
    BY <1>5 DEF activate_session, Moves
  <2>2. MobileTypeOK'
    BY <1>1, <1>2, <2>1, Zenon DEF MobileTypeOK, Phases, BeforeUdp
  <2>3. \A t \in Sessions : /\ at'[t] = IF t = s THEN "signal" ELSE at[t]
                            /\ t # s => stop'[t] = stop[t]
    BY <1>2, <2>1
  <2>4. PhasesOK'
    BY <1>1, <1>2, <1>3, <2>1, <2>3 DEF PhasesOK, BeforeUdp, MobileTypeOK
  <2>5. Reachable'
    BY <1>1, <1>2, <1>5, <2>1, <2>3, MobileAssumption DEF Reachable, LiveSession
  <2>6. QED
    BY <1>1, <1>2, <2>2, <2>4, <2>5, HoldersKept DEF MobileInv
<1>6. QED
  BY <1>4, <1>5

(* A descriptor is created: there was none of its kind. *)
LEMMA CreateHolds ==
  ASSUME MobileInv, NEW s \in Sessions, create_stop_signal(s) \/ create_udp_socket(s)
  PROVE  MobileInv'
<1>1. MobileTypeOK /\ OneHolder /\ PhasesOK /\ Reachable
  BY DEF MobileInv
<1>2. PICK kind \in Kinds, x \in {"arm", "after_udp"} :
        /\ at' = [at EXCEPT ![s] = x] /\ Creates(s, kind) /\ kind \notin open[s]
        /\ at[s] \in {"signal", "udp"} /\ (x = "arm" => kind = "signal" /\ at[s] = "signal")
  BY <1>1 DEF create_stop_signal, create_udp_socket, Moves, Kinds, PhasesOK, BeforeUdp
<1>3. /\ control' = [control EXCEPT ![s] = control[s] \union {kind}]
      /\ open' = [open EXCEPT ![s] = open[s] \union {kind}]
      /\ UNCHANGED <<signalled, shut, misused, active, lock, stopPending, stop, tun, stopCall, late>>
  BY <1>2 DEF Creates, create_stop_signal, create_udp_socket
<1>4. MobileTypeOK'
  BY <1>1, <1>2, <1>3 DEF MobileTypeOK, Phases, BeforeUdp
<1>5. \A t \in Sessions :
        /\ at'[t] = IF t = s THEN x ELSE at[t]
        /\ control'[t] = IF t = s THEN control[s] \union {kind} ELSE control[t]
        /\ open'[t] = IF t = s THEN open[s] \union {kind} ELSE open[t]
  BY <1>1, <1>2, <1>3 DEF MobileTypeOK
<1>6. OneHolder'
  <2>1. \A k \in Stops : Owned(k)' = Owned(k) /\ stopCall'[k] = stopCall[k]
    BY <1>3 DEF Owned, Keeps
  <2>2. \A k \in Stops : stopCall[k].session \in Sessions \union {None}
    BY <1>1 DEF MobileTypeOK
  <2>3. ASSUME NEW k \in Stops, stopCall[k].session # None
        PROVE  /\ Owned(k) \subseteq open'[stopCall[k].session]
               /\ Owned(k) \intersect control'[stopCall[k].session] = {}
    BY <1>1, <1>2, <1>5, <2>2, <2>3, SMTT(30) DEF OneHolder, StopsOwn
  <2>4. ASSUME NEW t \in Sessions, NEW y \in open'[t] \ control'[t]
        PROVE  \E k \in Stops : stopCall[k].session = t /\ y \in Owned(k)
    BY <1>1, <1>5, <2>4, SMTT(30) DEF OneHolder, AllOwned
  <2>5. QED
    BY <1>1, <1>3, <1>5, <2>1, <2>3, <2>4, SMTT(30) DEF OneHolder, SessionOwns, StopsOwn, StopsApart, AllOwned
<1>7. PhasesOK'
  BY <1>1, <1>2, <1>3, <1>5 DEF PhasesOK, BeforeUdp, MobileTypeOK, Kinds
<1>8. Reachable'
  BY <1>1, <1>2, <1>3, <1>5 DEF Reachable, LiveSession
<1>9. QED
  BY <1>4, <1>6, <1>7, <1>8 DEF MobileInv

(* ActiveSessionGuard::drop closes the TUN, closes what the session still owns, and
   clears the entry of the session. *)
LEMMA CloseTunHolds ==
  ASSUME MobileInv, NEW s \in Sessions, CloseTun(s)
  PROVE  MobileInv'
<1>1. MobileTypeOK /\ OneHolder /\ PhasesOK /\ Reachable
  BY DEF MobileInv
<1>2. /\ at[s] = "close_tun" /\ at' = [at EXCEPT ![s] = "close_udp"]
      /\ tun' = [tun EXCEPT ![s] = "closed"]
      /\ UNCHANGED <<active, lock, stopPending, stop, stopCall, late, control, open, signalled,
                     shut, misused>>
  BY DEF CloseTun, Moves, fds
<1>3. MobileTypeOK'
  BY <1>1, <1>2 DEF MobileTypeOK, Phases, BeforeUdp
<1>4. \A t \in Sessions : /\ at'[t] = IF t = s THEN "close_udp" ELSE at[t]
                          /\ tun'[t] = IF t = s THEN "closed" ELSE tun[t]
  BY <1>1, <1>2 DEF MobileTypeOK
<1>5. PhasesOK'
  BY <1>1, <1>2, <1>4 DEF PhasesOK, BeforeUdp, MobileTypeOK
<1>6. Reachable'
  BY <1>1, <1>2, <1>4 DEF Reachable, LiveSession
<1>7. QED
  BY <1>1, <1>2, <1>3, <1>5, <1>6, HoldersKept DEF MobileInv

LEMMA CloseFdHolds ==
  ASSUME MobileInv, NEW s \in Sessions, CloseFd(s)
  PROVE  MobileInv'
<1>1. MobileTypeOK /\ OneHolder /\ PhasesOK /\ Reachable
  BY DEF MobileInv
<1>2. PICK kind \in Kinds, x \in {"close_signal", "clear"} :
        /\ Close(s, kind) /\ at' = [at EXCEPT ![s] = x]
        /\ at[s] \in {"close_udp", "close_signal"} /\ (x = "close_signal" <=> at[s] = "close_udp")
        /\ (kind = "udp" <=> at[s] = "close_udp")
  <2>1. CASE at[s] = "close_udp"
    <3>1. Close(s, "udp") /\ at' = [at EXCEPT ![s] = "close_signal"]
      BY <2>1 DEF CloseFd, Drops, Moves
    <3>2. QED
      BY <2>1, <3>1 DEF Kinds
  <2>2. CASE at[s] = "close_signal"
    <3>1. Close(s, "signal") /\ at' = [at EXCEPT ![s] = "clear"]
      BY <2>2 DEF CloseFd, Drops, Moves
    <3>2. QED
      BY <2>2, <3>1 DEF Kinds
  <2>3. QED
    BY <2>1, <2>2 DEF CloseFd, Drops
<1>3. /\ control' = [control EXCEPT ![s] = control[s] \ {kind}]
      /\ open' = (IF kind \in control[s] THEN [open EXCEPT ![s] = open[s] \ {kind}] ELSE open)
      /\ misused' = (misused \/ kind \in control[s] \ open[s])
      /\ UNCHANGED <<active, lock, stopPending, stop, signalled, shut, tun, stopCall, late>>
  BY <1>2, Zenon DEF CloseFd, Close
<1>4. ~misused' /\ misused' \in BOOLEAN
  <2>1. kind \notin control[s] \ open[s] /\ ~misused
    BY <1>1, Zenon DEF OneHolder, SessionOwns
  <2>2. QED
    BY <1>3, <2>1, Zenon
<1>5. MobileTypeOK'
  BY <1>1, <1>2, <1>3, <1>4 DEF MobileTypeOK, Phases, BeforeUdp
<1>6. \A t \in Sessions :
        /\ at'[t] = IF t = s THEN x ELSE at[t]
        /\ control'[t] = IF t = s THEN control[s] \ {kind} ELSE control[t]
        /\ open'[t] = IF t = s /\ kind \in control[s] THEN open[s] \ {kind} ELSE open[t]
  BY <1>1, <1>2, <1>3 DEF MobileTypeOK
<1>7. OneHolder'
  <2>1. \A k \in Stops : Owned(k)' = Owned(k) /\ stopCall'[k] = stopCall[k]
    BY <1>3, Zenon DEF Owned, Keeps
  <2>2. \A k \in Stops : stopCall[k].session \in Sessions \union {None}
    BY <1>1 DEF MobileTypeOK
  <2>3. ASSUME NEW k \in Stops, stopCall[k].session # None
        PROVE  /\ Owned(k) \subseteq open'[stopCall[k].session]
               /\ Owned(k) \intersect control'[stopCall[k].session] = {}
    BY <1>1, <1>6, <2>2, <2>3, SMTT(30) DEF OneHolder, StopsOwn
  <2>4. ASSUME NEW t \in Sessions, NEW y \in open'[t] \ control'[t]
        PROVE  \E k \in Stops : stopCall[k].session = t /\ y \in Owned(k)
    <3>1. y \in open[t] \ control[t]
      BY <1>6, <2>4
    <3>2. QED
      BY <1>1, <3>1, SMTT(30) DEF OneHolder, AllOwned
  <2>5. QED
    BY <1>1, <1>4, <1>6, <2>1, <2>3, <2>4, SMTT(30) DEF OneHolder, SessionOwns, StopsOwn, StopsApart, AllOwned
<1>8. PhasesOK'
  BY <1>1, <1>2, <1>3, <1>6, SMTT(30) DEF PhasesOK, BeforeUdp, MobileTypeOK, Kinds
<1>9. Reachable'
  BY <1>1, <1>2, <1>3, <1>6 DEF Reachable, LiveSession
<1>10. QED
  BY <1>5, <1>7, <1>8, <1>9 DEF MobileInv

LEMMA ClearHolds ==
  ASSUME MobileInv, NEW s \in Sessions, Clear(s)
  PROVE  MobileInv'
<1>1. MobileTypeOK /\ OneHolder /\ PhasesOK /\ Reachable
  BY DEF MobileInv
<1>2. /\ at[s] = "clear" /\ at' = [at EXCEPT ![s] = "gone"]
      /\ active' = (IF active = s THEN None ELSE active)
      /\ UNCHANGED <<lock, stopPending, stop, tun, stopCall, late, control, open, signalled, shut,
                     misused>>
  BY DEF Clear, Moves, fds
<1>3. MobileTypeOK'
  BY <1>1, <1>2 DEF MobileTypeOK, Phases, BeforeUdp
<1>4. \A t \in Sessions : at'[t] = IF t = s THEN "gone" ELSE at[t]
  BY <1>1, <1>2 DEF MobileTypeOK
<1>5. PhasesOK'
  BY <1>1, <1>2, <1>4 DEF PhasesOK, BeforeUdp, MobileTypeOK
<1>6. Reachable'
  BY <1>1, <1>2, <1>4 DEF Reachable, LiveSession
<1>7. QED
  BY <1>1, <1>2, <1>3, <1>5, <1>6, HoldersKept DEF MobileInv

(* A stop finds the active session, or leaves a note for the next one. *)
LEMMA StopHolds ==
  ASSUME MobileInv, NEW k \in Stops, Stop(k)
  PROVE  MobileInv'
<1>1. MobileTypeOK /\ OneHolder /\ PhasesOK /\ Reachable
  BY DEF MobileInv
<1>2. /\ stopCall[k].at = "new" /\ stopCall[k].session = None /\ stopCall[k].took = {}
      /\ stopCall[k] \in [at : StopPhases, session : Sessions \union {None}, took : SUBSET Kinds]
      /\ UNCHANGED <<at, active, tun, late, control, open, signalled, shut, misused>>
  BY <1>1 DEF Stop, PhasesOK, fds, MobileTypeOK
<1>3. PICK c \in [at : StopPhases, session : Sessions \union {None}, took : SUBSET Kinds] :
        /\ stopCall' = [stopCall EXCEPT ![k] = c] /\ c.took = {} /\ c.at # "new"
        /\ c.session # None => c.session = active /\ active # None
        /\ c.at # "done" => c.session # None
        /\ lock' \in Stops \union {None} /\ stopPending' \in BOOLEAN
        /\ stop' \in [Sessions -> BOOLEAN] /\ \A s \in Sessions : stop[s] => stop'[s]
  <2>1. CASE active = None
    <3>1. stopCall' = [stopCall EXCEPT ![k] = [stopCall[k] EXCEPT !.at = "done"]]
      BY <1>1, <2>1 DEF Stop, MobileTypeOK
    <3>2. /\ [stopCall[k] EXCEPT !.at = "done"] \in
               [at : StopPhases, session : Sessions \union {None}, took : SUBSET Kinds]
          /\ [stopCall[k] EXCEPT !.at = "done"].took = {}
          /\ [stopCall[k] EXCEPT !.at = "done"].session = None
          /\ [stopCall[k] EXCEPT !.at = "done"].at = "done"
      BY <1>2 DEF StopPhases
    <3>3. lock' = lock /\ stopPending' = TRUE /\ stop' = stop
      BY <2>1 DEF Stop
    <3>4. QED
      BY <1>1, <3>1, <3>2, <3>3, Zenon DEF MobileTypeOK
  <2>2. CASE active # None
    <3> DEFINE d == [stopCall[k] EXCEPT !.at = "take_udp", !.session = active]
    <3>1. stopCall' = [stopCall EXCEPT ![k] = d]
      BY <1>1, <2>2, Zenon DEF Stop, MobileTypeOK
    <3>2. /\ d \in [at : StopPhases, session : Sessions \union {None}, took : SUBSET Kinds]
          /\ d.at = "take_udp" /\ d.session = active /\ d.took = {}
      BY <1>1, <1>2, Zenon DEF StopPhases, MobileTypeOK
    <3> HIDE DEF d
    <3>3. lock' = k /\ stop' = [stop EXCEPT ![active] = TRUE] /\ stopPending' = stopPending
      BY <2>2 DEF Stop
    <3>4. stop' \in [Sessions -> BOOLEAN] /\ \A s \in Sessions : stop[s] => stop'[s]
      BY <1>1, <3>3, Zenon DEF MobileTypeOK
    <3>5. QED
      BY <1>1, <2>2, <3>1, <3>2, <3>3, <3>4, Zenon DEF MobileTypeOK
  <2>3. QED
    BY <2>1, <2>2
<1>4. MobileTypeOK'
  BY <1>1, <1>2, <1>3 DEF MobileTypeOK
<1>5. \A j \in Stops : stopCall'[j] = IF j = k THEN c ELSE stopCall[j]
  BY <1>1, <1>3 DEF MobileTypeOK
<1>6. Owned(k)' = {} /\ \A j \in Stops : j # k => Owned(j)' = Owned(j)
  <2>1. stopCall'[k].took = {}
    BY <1>3, <1>5
  <2>2. QED
    BY <1>5, <2>1 DEF Owned, Keeps
<1>7. Owned(k) = {}
  BY <1>2 DEF Owned, Keeps
<1>8. OneHolder'
  BY <1>1, <1>2, <1>3, <1>5, <1>6, <1>7, SMTT(30) DEF OneHolder, SessionOwns, StopsOwn, StopsApart, AllOwned
<1>9. PhasesOK'
  BY <1>1, <1>2, <1>3, <1>5, SMTT(30) DEF PhasesOK
<1>10. Reachable'
  BY <1>1, <1>2, <1>3, Zenon DEF Reachable, LiveSession
<1>11. QED
  BY <1>4, <1>8, <1>9, <1>10 DEF MobileInv

(* A stop takes a descriptor over from the session. *)
LEMMA TakeHolds ==
  ASSUME MobileInv, NEW k \in Stops, TakeUdp(k) \/ TakeSignal(k)
  PROVE  MobileInv'
<1>1. MobileTypeOK /\ OneHolder /\ PhasesOK /\ Reachable
  BY DEF MobileInv
<1> DEFINE s == stopCall[k].session
<1>2. PICK kind \in Kinds, x \in {"take_signal", "stop_tun"} :
        /\ stopCall[k].at \in {"take_udp", "take_signal"} /\ Take(k, kind, x)
        /\ lock' \in Stops \union {None}
        /\ UNCHANGED <<at, active, stopPending, stop, open, signalled, shut, misused, tun, late>>
  BY <1>1 DEF TakeUdp, TakeSignal, Kinds, MobileTypeOK
<1> DEFINE d == [stopCall[k] EXCEPT !.at = x,
                   !.took = stopCall[k].took \union (control[s] \intersect {kind})]
<1>3. /\ stopCall' = [stopCall EXCEPT ![k] = d]
      /\ control' = [control EXCEPT ![s] = control[s] \ {kind}]
  BY <1>1, <1>2, Zenon DEF Take, MobileTypeOK
<1>4. s \in Sessions /\ s # None /\ at[s] # "new"
  BY <1>1, <1>2 DEF PhasesOK, MobileTypeOK
<1>5b. /\ d \in [at : StopPhases, session : Sessions \union {None}, took : SUBSET Kinds]
       /\ d.at = x /\ d.session = s
       /\ d.took = stopCall[k].took \union (control[s] \intersect {kind})
  <2>1. stopCall[k].took \union (control[s] \intersect {kind}) \in SUBSET Kinds
    BY <1>1 DEF MobileTypeOK
  <2>2. stopCall[k] \in [at : StopPhases, session : Sessions \union {None}, took : SUBSET Kinds]
    BY <1>1 DEF MobileTypeOK
  <2>3. QED
    BY <2>1, <2>2, Zenon DEF StopPhases
<1> HIDE DEF d
<1>5. MobileTypeOK'
  BY <1>1, <1>2, <1>3, <1>4, <1>5b DEF MobileTypeOK
<1>6. /\ \A j \in Stops : j # k => stopCall'[j] = stopCall[j]
      /\ stopCall'[k] = d
  BY <1>1, <1>3 DEF MobileTypeOK
<1>7. /\ \A j \in Stops : j # k => Owned(j)' = Owned(j)
      /\ Owned(k)' = Owned(k) \union (control[s] \intersect {kind})
  BY <1>2, <1>5b, <1>6, Zenon DEF Owned, Keeps
<1>8. \A t \in Sessions : control'[t] = IF t = s THEN control[s] \ {kind} ELSE control[t]
  BY <1>1, <1>3 DEF MobileTypeOK
<1>9. \A j \in Stops : stopCall'[j].session = stopCall[j].session
                       /\ stopCall[j].session \in Sessions \union {None}
  BY <1>1, <1>5b, <1>6, SMTT(30) DEF MobileTypeOK
<1>10. OneHolder'
  <2>1. ASSUME NEW t \in Sessions
        PROVE  control'[t] \subseteq open[t]
    <3>1. control[t] \subseteq open[t]
      BY <1>1, Zenon DEF OneHolder, SessionOwns
    <3>2. control'[t] \subseteq control[t]
      BY <1>8, Zenon
    <3>3. QED
      BY <3>1, <3>2, Zenon
  <2>2. ASSUME NEW j \in Stops, stopCall[j].session # None
        PROVE  /\ Owned(j)' \subseteq open[stopCall[j].session]
               /\ Owned(j)' \intersect control'[stopCall[j].session] = {}
    <3>1. CASE j = k
      BY <1>1, <1>4, <1>7, <1>8, <2>2, <3>1, Zenon DEF OneHolder, SessionOwns, StopsOwn
    <3>2. CASE j # k
      BY <1>1, <1>4, <1>7, <1>8, <1>9, <2>2, <3>2, SMTT(30) DEF OneHolder, StopsOwn
    <3>3. QED
      BY <3>1, <3>2
  <2>3. ASSUME NEW i \in Stops, NEW j \in Stops, i # j, stopCall[i].session = stopCall[j].session
        PROVE  Owned(i)' \intersect Owned(j)' = {}
    <3>1. CASE i # k /\ j # k
      BY <1>1, <1>7, <2>3, <3>1, SMTT(30) DEF OneHolder, StopsApart
    <3>2. CASE i = k
      BY <1>1, <1>4, <1>7, <2>3, <3>2, SMTT(30) DEF OneHolder, StopsOwn, StopsApart
    <3>3. CASE j = k
      BY <1>1, <1>4, <1>7, <2>3, <3>3, SMTT(30) DEF OneHolder, StopsOwn, StopsApart
    <3>4. QED
      BY <3>1, <3>2, <3>3
  <2>4. ASSUME NEW t \in Sessions, NEW y \in open[t] \ control'[t]
        PROVE  \E j \in Stops : stopCall[j].session = t /\ y \in Owned(j)'
    <3>1. CASE y \in control[t]
      BY <1>4, <1>7, <1>8, <2>4, <3>1
    <3>2. CASE y \notin control[t]
      BY <1>1, <1>7, <2>4, <3>2, SMTT(30) DEF OneHolder, AllOwned
    <3>3. QED
      BY <3>1, <3>2
  <2>5. SessionOwns' /\ ~misused'
    BY <1>1, <1>2, <2>1, Zenon DEF OneHolder, SessionOwns
  <2>6. StopsOwn'
    BY <1>2, <1>9, <2>2, Zenon DEF StopsOwn
  <2>7. StopsApart'
    BY <1>9, <2>3, Zenon DEF StopsApart
  <2>8. AllOwned'
    BY <1>2, <1>9, <2>4, SMTT(30) DEF AllOwned
  <2>9. QED
    BY <2>5, <2>6, <2>7, <2>8, Zenon DEF OneHolder
<1>11. PhasesOK'
  <2>1. \A j \in Stops : stopCall'[j].at = "new" => j # k
    BY <1>5b, <1>6, Zenon
  <2>2. QED
    BY <1>1, <1>2, <1>4, <1>5b, <1>6, <1>8, <2>1, SMTT(30) DEF PhasesOK
<1>12. Reachable'
  BY <1>1, <1>2, Zenon DEF Reachable, LiveSession
<1>13. QED
  BY <1>5, <1>10, <1>11, <1>12 DEF MobileInv

LEMMA RequestStopHolds ==
  ASSUME MobileInv, NEW k \in Stops, request_stop(k)
  PROVE  MobileInv'
<1>1. MobileTypeOK /\ OneHolder /\ PhasesOK /\ Reachable
  BY DEF MobileInv
<1> DEFINE s == stopCall[k].session
<1>2. /\ stopCall[k].at = "stop_tun" /\ tun' = [tun EXCEPT ![s] = "closed"]
      /\ stopCall' = [stopCall EXCEPT ![k] = [stopCall[k] EXCEPT !.at = "write"]]
      /\ UNCHANGED <<at, active, lock, stopPending, stop, late, control, open, signalled, shut,
                     misused>>
  BY <1>1 DEF request_stop, fds, MobileTypeOK
<1>3. s \in Sessions /\ s # None
  BY <1>1, <1>2 DEF PhasesOK, MobileTypeOK
<1>4. \A j \in Stops :
        /\ j # k => stopCall'[j] = stopCall[j]
        /\ stopCall'[k] = [stopCall[k] EXCEPT !.at = "write"]
  BY <1>1, <1>2 DEF MobileTypeOK
<1>5. stopCall'[k].session = s /\ stopCall'[k].took = stopCall[k].took /\ stopCall'[k].at = "write"
  BY <1>1, <1>4 DEF MobileTypeOK
<1>6. MobileTypeOK'
  <2>1. [stopCall[k] EXCEPT !.at = "write"] \in
          [at : StopPhases, session : Sessions \union {None}, took : SUBSET Kinds]
    BY <1>1 DEF MobileTypeOK, StopPhases
  <2>2. QED
    BY <1>1, <1>2, <2>1, Zenon DEF MobileTypeOK
<1>7. \A j \in Stops : Owned(j)' = Owned(j) /\ stopCall'[j].session = stopCall[j].session
  BY <1>2, <1>4, <1>5 DEF Owned, Keeps
<1>8. OneHolder'
  BY <1>1, <1>2, <1>7, SMTT(30) DEF OneHolder, SessionOwns, StopsOwn, StopsApart, AllOwned
<1>9. \A t \in Sessions : tun'[t] = IF t = s THEN "closed" ELSE tun[t]
  BY <1>1, <1>2 DEF MobileTypeOK
<1>10. PhasesOK'
  BY <1>1, <1>2, <1>3, <1>4, <1>5, <1>9 DEF PhasesOK
<1>11. Reachable'
  BY <1>1, <1>2, Zenon DEF Reachable, LiveSession
<1>12. QED
  BY <1>6, <1>8, <1>10, <1>11 DEF MobileInv

(* A stop writes or shuts down what it took, which is open still, and closes it. *)
LEMMA UsesHolds ==
  ASSUME MobileInv, NEW k \in Stops, Write(k) \/ Shutdown(k)
  PROVE  MobileInv'
<1>1. MobileTypeOK /\ OneHolder /\ PhasesOK /\ Reachable
  BY DEF MobileInv
<1> DEFINE s == stopCall[k].session
<1>2. PICK kind \in Kinds, x \in {"shutdown", "done"} :
        /\ Uses(k, kind) /\ stopCall' = [stopCall EXCEPT ![k].at = x]
        /\ \/ kind = "signal" /\ stopCall[k].at = "write" /\ x = "shutdown"
           \/ kind = "udp" /\ stopCall[k].at = "shutdown" /\ x = "done"
        /\ UNCHANGED <<at, active, lock, stopPending, stop, control, tun, late>>
  BY DEF Write, Shutdown, Kinds
<1>3. s \in Sessions /\ s # None
  BY <1>1, <1>2 DEF PhasesOK, MobileTypeOK
<1>4. signalled' \subseteq Sessions /\ shut' \subseteq Sessions
  BY <1>1, <1>3 DEF Write, Shutdown, MobileTypeOK
<1>5. stopCall' = [stopCall EXCEPT ![k] = [stopCall[k] EXCEPT !.at = x]]
  BY <1>1, <1>2 DEF MobileTypeOK
<1>6. /\ \A j \in Stops : j # k => stopCall'[j] = stopCall[j]
      /\ stopCall'[k].session = s /\ stopCall'[k].took = stopCall[k].took /\ stopCall'[k].at = x
  BY <1>1, <1>5 DEF MobileTypeOK
<1>7. kind \in stopCall[k].took <=> kind \in Owned(k)
  BY <1>2 DEF Owned, Keeps
<1>8. kind \in Owned(k) => kind \in open[s]
  BY <1>1, <1>3, SMTT(30) DEF OneHolder, StopsOwn
<1>9. \A t \in Sessions : open'[t] = IF t = s /\ kind \in Owned(k) THEN open[s] \ {kind} ELSE open[t]
  BY <1>1, <1>2, <1>7 DEF Uses, MobileTypeOK
<1>10. ~misused' /\ misused' \in BOOLEAN
  <2>1. misused' = (misused \/ kind \in stopCall[k].took \ open[s]) /\ ~misused
    BY <1>1, <1>2, SMTT(30) DEF Uses, OneHolder
  <2>2. kind \notin stopCall[k].took \ open[s]
    BY <1>7, <1>8
  <2>3. QED
    BY <2>1, <2>2, Zenon
<1>11. /\ \A j \in Stops : j # k => Owned(j)' = Owned(j)
       /\ Owned(k)' = Owned(k) \ {kind}
  <2>1. stopCall[k].took \subseteq Kinds
    BY <1>1 DEF MobileTypeOK
  <2>2. QED
    BY <1>2, <1>6, <2>1 DEF Owned, Keeps, Kinds
<1>12. MobileTypeOK'
  <2>1. [stopCall[k] EXCEPT !.at = x] \in
          [at : StopPhases, session : Sessions \union {None}, took : SUBSET Kinds]
    BY <1>1 DEF MobileTypeOK, StopPhases
  <2>2. open' \in [Sessions -> SUBSET Kinds]
    BY <1>1, <1>2, Zenon DEF Uses, MobileTypeOK
  <2>3. QED
    BY <1>1, <1>2, <1>4, <1>5, <1>10, <2>1, <2>2 DEF MobileTypeOK
<1>13. \A j \in Stops : stopCall'[j].session = stopCall[j].session
                        /\ stopCall[j].session \in Sessions \union {None}
  BY <1>1, <1>6, SMTT(30) DEF MobileTypeOK
<1>14. OneHolder'
  <2>1. \A t \in Sessions : control[t] \subseteq open'[t]
    BY <1>1, <1>3, <1>9, Zenon DEF OneHolder, SessionOwns, StopsOwn
  <2>2. ASSUME NEW j \in Stops, stopCall[j].session # None
        PROVE  /\ Owned(j)' \subseteq open'[stopCall[j].session]
               /\ Owned(j)' \intersect control[stopCall[j].session] = {}
    <3>1. CASE j = k
      BY <1>1, <1>3, <1>9, <1>11, <2>2, <3>1, SMTT(30) DEF OneHolder, StopsOwn
    <3>2. CASE j # k
      BY <1>1, <1>3, <1>9, <1>11, <1>13, <2>2, <3>2, SMTT(30) DEF OneHolder, StopsOwn, StopsApart
    <3>3. QED
      BY <3>1, <3>2, SMTT(30)
  <2>3. ASSUME NEW i \in Stops, NEW j \in Stops, i # j, stopCall[i].session = stopCall[j].session
        PROVE  Owned(i)' \intersect Owned(j)' = {}
    BY <1>1, <1>11, <2>3, SMTT(30) DEF OneHolder, StopsApart
  <2>4. ASSUME NEW t \in Sessions, NEW y \in open'[t] \ control[t]
        PROVE  \E j \in Stops : stopCall[j].session = t /\ y \in Owned(j)'
    <3>1. y \in open[t] \ control[t] /\ (t = s /\ kind \in Owned(k) => y # kind)
      BY <1>9, <2>4, SMTT(30)
    <3>2. PICK j \in Stops : stopCall[j].session = t /\ y \in Owned(j)
      BY <1>1, <3>1, SMTT(30) DEF OneHolder, AllOwned
    <3>3. QED
      BY <1>11, <3>1, <3>2, SMTT(30)
  <2>5. QED
    BY <1>2, <1>10, <1>13, <2>1, <2>2, <2>3, <2>4, SMTT(30) DEF OneHolder, SessionOwns, StopsOwn, StopsApart, AllOwned
<1>15. PhasesOK'
  BY <1>1, <1>2, <1>3, <1>6, <1>9 DEF PhasesOK
<1>16. Reachable'
  BY <1>1, <1>2, Zenon DEF Reachable, LiveSession
<1>17. QED
  BY <1>12, <1>14, <1>15, <1>16 DEF MobileInv

LEMMA StepMobile == MobileInv /\ [MobileNext]_mobileVars => MobileInv'
<1> SUFFICES ASSUME MobileInv, [MobileNext]_mobileVars PROVE MobileInv'
  OBVIOUS
<1>1. ASSUME UNCHANGED <<at, active, lock, stop, tun, stopCall, late, fds>>, stopPending' \in BOOLEAN
      PROVE  MobileInv'
  BY <1>1, HoldersKept, Zenon DEF MobileInv, MobileTypeOK, PhasesOK, Reachable, LiveSession, fds
<1>2. CASE UNCHANGED mobileVars
  <2>1. stopPending \in BOOLEAN
    BY DEF MobileInv, MobileTypeOK
  <2>2. QED
    BY <1>1, <1>2, <2>1 DEF mobileVars, fds
<1>3. CASE clear_pending_stop
  BY <1>1, <1>3, Zenon DEF clear_pending_stop
<1>4. ASSUME NEW s \in Sessions, activate_session(s) \/ Runs(s) \/ Arrives(s) \/ Fails(s)
      PROVE  MobileInv'
  BY <1>4, ActivateHolds, SessionMoves, CreateHolds, CloseTunHolds, CloseFdHolds, ClearHolds DEF Runs
<1>5. ASSUME NEW k \in Stops, Stop(k) \/ Stopping(k)
      PROVE  MobileInv'
  BY <1>5, StopHolds, TakeHolds, RequestStopHolds, UsesHolds DEF Stopping
<1>6. QED
  BY <1>2, <1>3, <1>4, <1>5 DEF MobileNext

(* No step opens a TUN that was closed. *)
LEMMA TunStep ==
  ASSUME MobileInv, [MobileNext]_mobileVars, NEW t \in Sessions, tun[t] = "closed"
  PROVE  tun'[t] = "closed"
<1>1. tun \in [Sessions -> {"new", "open", "closed"}]
  BY DEF MobileInv, MobileTypeOK
<1>2. \/ UNCHANGED tun
      \/ \E s \in Sessions : install(s) \/ CloseTun(s)
      \/ \E k \in Stops : request_stop(k)
  BY ZenonT(60) DEF MobileNext, mobileVars, activate_session, Runs, create_stop_signal, Arm, wait_for_stop,
         ReadFails, Retry, Check, create_udp_socket, notify_ready, CloseFd, Clear, Arrives, Fails,
         Stop, Stopping, TakeUdp, TakeSignal, Write, Shutdown, clear_pending_stop
<1>3. ASSUME NEW s \in Sessions, install(s)
      PROVE  tun'[t] = "closed"
  BY <1>1, <1>3, SMTT(30) DEF install
<1>4. ASSUME NEW s \in Sessions, CloseTun(s)
      PROVE  tun'[t] = "closed"
  BY <1>1, <1>4 DEF CloseTun
<1>5. ASSUME NEW k \in Stops, request_stop(k)
      PROVE  tun'[t] = "closed"
  BY <1>1, <1>5 DEF request_stop
<1>6. QED
  BY <1>2, <1>3, <1>4, <1>5

(* For any sessions and stops: a running session that nobody stopped is the one a stop
   finds, a descriptor is closed once and used only while it is open, none is left when
   session and stops are over, and a closed TUN stays closed (activate_session,
   ActiveSessionGuard, stop_active_tunnel, SessionTun). *)
THEOREM DescriptorsHaveOneOwner == MobileSpec => []MobileTypeOK /\ DescriptorsOwned
<1>1. MobileInv => Reachable /\ NeverMisused /\ NothingLeft /\ MobileTypeOK
  <2> SUFFICES ASSUME MobileInv PROVE Reachable /\ NeverMisused /\ NothingLeft /\ MobileTypeOK
    OBVIOUS
  <2>1. MobileTypeOK /\ OneHolder /\ PhasesOK /\ Reachable
    BY DEF MobileInv
  <2>2. ASSUME NEW s \in Sessions, at[s] = "gone",
               \A k \in Stops : stopCall[k].session = s => stopCall[k].at = "done"
        PROVE  open[s] = {} /\ tun[s] # "open"
    <3>1. \A k \in Stops : stopCall[k].session = s => Owned(k) = {}
      BY <2>2 DEF Owned, Keeps
    <3>2. control[s] = {} /\ tun[s] # "open"
      BY <2>1, <2>2, SMTT(30) DEF PhasesOK
    <3>3. QED
      BY <2>1, <3>1, <3>2, Zenon DEF OneHolder, AllOwned
  <2>3. QED
    BY <2>1, <2>2, SMTT(30) DEF NothingLeft, NeverMisused, OneHolder
<1>2. MobileInv /\ [MobileNext]_mobileVars =>
        [\A s \in Sessions : tun[s] = "closed" => tun'[s] = "closed"]_mobileVars
  BY TunStep
<1>3. QED
  BY InitMobile, StepMobile, <1>1, <1>2, PTL DEF MobileSpec, DescriptorsOwned, TunStaysClosed

-----------------------------------------------------------------------------
(* The receive window *)

Positions == 0 .. Window - 1

\* The strengthening that is inductive: the bitmap is the history seen from
\* its newest counter, which is itself accepted.
IInv ==
  /\ TypeOK
  /\ highest = NoCounter => Seen = {}
  /\ highest # NoCounter => highest \in Seen
  /\ \A a \in Seen : a <= highest
  /\ \A i \in Positions : GetBit(bitmap, i) <=> highest - i \in Seen

-----------------------------------------------------------------------------
(* Bitset256 *)

\* set_bit sets the bit it is given and no other (client_wire.rs, set_bit).
LEMMA SetBitBits ==
  ASSUME NEW b \in Bitset, NEW k \in Positions, NEW i \in Positions
  PROVE  /\ SetBit(b, k) \in Bitset
         /\ GetBit(SetBit(b, k), i) <=> (i = k \/ GetBit(b, i))
BY WindowAssumption DEF Bitset, Bits, Positions, SetBit, GetBit, Window

\* shl moves every bit up by shift across the two halves and drops what
\* leaves the window (client_wire.rs, shl).
LEMMA ShlBits ==
  ASSUME NEW b \in Bitset, NEW shift \in Nat, NEW i \in Positions
  PROVE  /\ Shl(b, shift) \in Bitset
         /\ GetBit(Shl(b, shift), i) <=> (i >= shift /\ GetBit(b, i - shift))
<1>1. CASE shift >= Window
  BY <1>1, WindowAssumption, SMTT(30) DEF Bitset, Bits, Positions, Shl, GetBit, Window, NoBits
<1>2. CASE shift = 0
  BY <1>2, WindowAssumption, SMTT(30) DEF Bitset, Bits, Positions, Shl, GetBit, Window
<1>3. CASE shift >= Half /\ shift < Window /\ shift # 0
  BY <1>3, WindowAssumption, SMTT(30)
     DEF Bitset, Bits, Positions, Shl, ShiftUp, GetBit, Window
<1>4. CASE shift < Half /\ shift # 0
  BY <1>4, WindowAssumption, SMTT(30)
     DEF Bitset, Bits, Positions, Shl, ShiftUp, ShiftDown, GetBit, Window
<1>5. QED
  BY <1>1, <1>2, <1>3, <1>4, WindowAssumption DEF Window

-----------------------------------------------------------------------------
(* The invariant *)

\* Marking adds the counter to the history (client_wire.rs, mark).
LEMMA SeenAfterMark ==
  ASSUME TypeOK, NEW c \in Counters, Mark(c)
  PROVE  Seen' = Seen \cup {c} /\ accepted' \in [Counters -> Nat]
BY DEF TypeOK, Mark, Seen

\* Marking a counter that is_new lets through keeps bitmap and history in step.
LEMMA MarkPreserves ==
  ASSUME IInv, NEW c \in Counters, IsNew(c), Mark(c), budgetReady' \in BOOLEAN
  PROVE  IInv'
<1> USE WindowAssumption DEF Counters, NoCounter
<1>t. TypeOK
  BY DEF IInv
<1>1. CASE c > highest
  <2> DEFINE shift == IF highest = NoCounter THEN Window ELSE c - highest
             base == IF shift >= Window THEN NoBits ELSE Shl(bitmap, shift)
  <2>1. /\ bitmap' = SetBit(base, 0) /\ highest' = c
        /\ hint' = NoCounter /\ Seen' = Seen \cup {c} /\ accepted' \in [Counters -> Nat]
    BY <1>1, <1>t, SeenAfterMark, Zenon DEF Mark
  <2>2. shift \in Nat \ {0}
    BY <1>1, <1>t DEF TypeOK, Window
  <2>3. 0 \in Positions
    BY DEF Positions, Window
  <2>4. /\ base \in Bitset
        /\ \A i \in Positions :
             GetBit(base, i) <=> (shift < Window /\ i >= shift /\ GetBit(bitmap, i - shift))
    <3>1. CASE shift >= Window
      BY <3>1, <2>2, SMTT(30) DEF Bitset, NoBits, GetBit, Window
    <3>2. CASE shift < Window
      <4>1. base = Shl(bitmap, shift)
        BY <3>2, <2>2 DEF Window
      <4>2. bitmap \in Bitset /\ shift \in Nat
        BY <2>2, <1>t DEF TypeOK
      <4> HIDE DEF shift
      <4>3. Positions # {} /\ Shl(bitmap, shift) \in Bitset
        BY <4>2, <2>3, ShlBits
      <4>4. \A i \in Positions :
              GetBit(Shl(bitmap, shift), i) <=> (i >= shift /\ GetBit(bitmap, i - shift))
        BY <4>2, ShlBits
      <4> HIDE DEF base
      <4>5. QED
        BY <4>1, <4>3, <4>4, <3>2
    <3>3. QED
      BY <3>1, <3>2, <2>2, SMTT(30) DEF Window
  <2>5. /\ bitmap' \in Bitset
        /\ \A i \in Positions : GetBit(bitmap', i) <=> (i = 0 \/ GetBit(base, i))
    BY <2>1, <2>3, <2>4, SetBitBits, SMTT(30)
  <2>6. TypeOK'
    BY <2>1, <2>5, <1>t, SMTT(30) DEF TypeOK
  <2>7. \A i \in Positions : GetBit(bitmap', i) <=> highest' - i \in Seen'
    <3> SUFFICES ASSUME NEW i \in Positions
                 PROVE  GetBit(bitmap', i) <=> c - i \in Seen \cup {c}
      BY <2>1
    <3>1. CASE i = 0
      BY <3>1, <2>5
    <3>2. CASE i # 0 /\ highest = NoCounter
      <4>1. Seen = {} /\ shift >= Window
        BY <3>2 DEF IInv, Window
      <4>2. QED
        BY <4>1, <3>2, <2>4, <2>5, <2>2, SMTT(30) DEF Positions, Window
    <3>3. CASE i # 0 /\ highest # NoCounter
      <4>1. shift = c - highest /\ highest \in Counters
        BY <3>3, <1>t DEF TypeOK
      <4>2. GetBit(bitmap', i) <=> (shift < Window /\ i >= shift /\ GetBit(bitmap, i - shift))
        BY <3>3, <2>4, <2>5
      <4>3. CASE i >= shift
        <5>1. i - shift \in Positions /\ shift < Window
          BY <4>3, <2>2 DEF Positions, Window
        <5>2. GetBit(bitmap, i - shift) <=> highest - (i - shift) \in Seen
          BY <5>1 DEF IInv
        <5>3. highest - (i - shift) = c - i
          BY <4>1, <1>1 DEF Positions, Window
        <5>4. QED
          BY <5>1, <5>2, <5>3, <4>2, <4>3, <3>3, SMTT(30) DEF Positions, Window
      <4>4. CASE i < shift
        <5>1. c - i > highest
          BY <4>1, <4>4 DEF Positions, Window
        <5>2. c - i \notin Seen
          BY <5>1, <1>t, <4>1 DEF IInv, TypeOK, Positions, Window
        <5>3. QED
          BY <5>2, <4>2, <4>4, <3>3, <2>2 DEF Positions, Window
      <4>5. QED
        BY <4>3, <4>4, <2>2 DEF Positions, Window
    <3>4. QED
      BY <3>1, <3>2, <3>3
  <2>8. /\ highest' # NoCounter /\ highest' \in Seen'
        /\ \A a \in Seen' : a <= highest'
    <3>1. Seen \subseteq Counters /\ highest \in Counters \cup {NoCounter}
      BY <1>t DEF TypeOK, Seen
    <3>2. \A a \in Seen : a <= highest
      BY DEF IInv
    <3>3. QED
      BY <2>1, <1>1, <3>1, <3>2
  <2>9. QED
    BY <2>6, <2>7, <2>8 DEF IInv
<1>2. CASE ~(c > highest)
  <2>1. highest \in Counters /\ highest - c \in Positions
    BY <1>2, <1>t DEF TypeOK, IsNew, Positions, Window
  <2>2. /\ bitmap' = SetBit(bitmap, highest - c) /\ highest' = highest
        /\ hint' = NoCounter /\ Seen' = Seen \cup {c} /\ accepted' \in [Counters -> Nat]
    <3>1. Seen' = Seen \cup {c} /\ accepted' \in [Counters -> Nat]
      BY <1>t, SeenAfterMark
    <3>2. QED
      BY <1>2, <2>1, <3>1 DEF Mark, Positions, Window
  <2>3. /\ bitmap' \in Bitset
        /\ \A i \in Positions :
             GetBit(bitmap', i) <=> (i = highest - c \/ GetBit(bitmap, i))
    BY <2>1, <2>2, <1>t, SetBitBits DEF TypeOK
  <2>4. \A i \in Positions : GetBit(bitmap', i) <=> highest' - i \in Seen'
    <3> SUFFICES ASSUME NEW i \in Positions
                 PROVE  GetBit(bitmap', i) <=> highest - i \in Seen \cup {c}
      BY <2>2
    <3>1. i = highest - c <=> highest - i = c
      BY <2>1 DEF Positions, Window
    <3>2. QED
      BY <3>1, <2>3 DEF IInv
  <2>5. TypeOK'
    BY <2>2, <2>3, <1>t DEF TypeOK
  <2>6. /\ highest' # NoCounter /\ highest' \in Seen'
        /\ \A a \in Seen' : a <= highest'
    BY <2>1, <2>2, <1>2 DEF IInv
  <2>7. QED
    BY <2>4, <2>5, <2>6 DEF IInv
<1>3. QED
  BY <1>1, <1>2

\* What the invariant says of is_new (client_wire.rs, is_new).
LEMMA FaithfulFromIInv ==
  ASSUME IInv
  PROVE  WindowFaithful
<1> USE WindowAssumption DEF Counters, NoCounter
<1> SUFFICES ASSUME NEW c \in Counters
             PROVE  IsNew(c) <=> /\ c \notin Seen
                                 /\ \A a \in Seen : a - c < Window
  BY DEF WindowFaithful
<1>1. highest \in Counters \cup {NoCounter} /\ Seen \subseteq Counters
  BY DEF IInv, TypeOK, Seen
<1>2. CASE highest = NoCounter
  BY <1>2 DEF IInv, IsNew
<1>3. CASE highest # NoCounter /\ c > highest
  BY <1>1, <1>3 DEF IInv, IsNew, Window
<1>4. CASE highest # NoCounter /\ ~(c > highest)
  <2>1. highest \in Seen /\ \A a \in Seen : a <= highest
    BY <1>4 DEF IInv
  <2>2. CASE highest - c < Window
    <3>1. highest - c \in Positions /\ highest - (highest - c) = c
      BY <2>2, <1>1, <1>4 DEF Positions, Window
    <3>2. GetBit(bitmap, highest - c) <=> c \in Seen
      BY <3>1 DEF IInv
    <3>3. \A a \in Seen : a - c < Window
      BY <2>1, <2>2, <1>1, <1>4 DEF Window
    <3>4. QED
      BY <3>2, <3>3, <2>2, <1>4 DEF IsNew
  <2>3. CASE ~(highest - c < Window)
    BY <2>1, <2>3, <1>4 DEF IsNew
  <2>4. QED
    BY <2>2, <2>3
<1>5. QED
  BY <1>2, <1>3, <1>4

LEMMA InitIInv ==
  ASSUME Init
  PROVE  IInv
BY WindowAssumption, SMTT(30)
   DEF Init, IInv, TypeOK, NothingAccepted, Seen, NoBits, Bitset, GetBit, NoCounter, Positions, Window

LEMMA NextIInv ==
  ASSUME IInv, [Next]_vars
  PROVE  IInv'
<1> USE DEF NoCounter
<1>1. ASSUME NEW c \in Counters, Decode(c)
      PROVE  IInv'
  BY <1>1, MarkPreserves, Zenon DEF Decode, IInv, TypeOK
<1>2. ASSUME NEW c \in Counters, Recover(c)
      PROVE  IInv'
  <2>1. CASE c \in RecoveryBand /\ IsNew(c)
    BY <1>2, <2>1, MarkPreserves, Zenon DEF Recover
  <2>2. CASE ~(c \in RecoveryBand /\ IsNew(c))
    <3>1. UNCHANGED <<highest, bitmap, hint, accepted>> /\ budgetReady' = FALSE
      BY <1>2, <2>2 DEF Recover
    <3>2. QED
      BY <3>1, Zenon DEF IInv, TypeOK, Seen
  <2>3. QED
    BY <2>1, <2>2
<1>3. ASSUME NEW c \in Counters, ObserveAuthenticatedCounter(c)
      PROVE  IInv'
  BY <1>3 DEF ObserveAuthenticatedCounter, IInv, TypeOK, Seen, MaxOf
<1>4. CASE RecoveryInterval
  BY <1>4 DEF RecoveryInterval, IInv, TypeOK, Seen
<1>5. CASE BeginCounterRecoveryEpoch
  BY <1>5, SMTT(30) DEF BeginCounterRecoveryEpoch, IInv, TypeOK, Seen
<1>6. CASE Reset
  BY <1>6, WindowAssumption, SMTT(30)
     DEF Reset, IInv, TypeOK, NothingAccepted, Seen, NoBits, Bitset, GetBit, Positions, Window
<1>7. CASE UNCHANGED vars
  BY <1>7, SMTT(30) DEF vars, IInv, TypeOK, Seen
<1>8. QED
  BY <1>1, <1>2, <1>3, <1>4, <1>5, <1>6, <1>7 DEF Next

\* The bitmap answers is_new exactly as the full history would, whatever the
\* width, the bands and the largest counter.
THEOREM WindowIsFaithful == Spec => [](TypeOK /\ WindowFaithful)
<1>1. Spec => []IInv
  BY InitIInv, NextIInv, PTL DEF Spec
<1>2. IInv => TypeOK /\ WindowFaithful
  BY FaithfulFromIInv DEF IInv
<1>3. QED
  BY <1>1, <1>2, PTL

-----------------------------------------------------------------------------
(* Refinement *)

\* An accepted packet is one the abstract window accepts.
LEMMA MarkRefines ==
  ASSUME IInv, NEW c \in Counters, IsNew(c), Mark(c)
  PROVE  Abstract!Accept(c)
<1>1. WindowFaithful
  BY FaithfulFromIInv
<1>2. QED
  BY <1>1 DEF WindowFaithful, Mark, Seen, Abstract!Accept, Abstract!Fresh, Abstract!Seen

\* The client's receive window never accepts a counter twice or from behind
\* the window, and only the PFS ratchet's reset forgets one (client_wire.rs,
\* decode_downlink_with_offsets).
THEOREM WindowImplementsSlidingWindow == Spec => ImplementsSlidingWindow
<1>1. Init => Abstract!Init
  BY DEF Init, NothingAccepted, Abstract!Init
<1>2. IInv /\ [Next]_vars => [Abstract!Next]_accepted
  <2> SUFFICES ASSUME IInv, [Next]_vars
               PROVE  [Abstract!Next]_accepted
    OBVIOUS
  <2>1. ASSUME NEW c \in Counters, Decode(c)
        PROVE  Abstract!Next
    BY <2>1, MarkRefines DEF Decode, Abstract!Next
  <2>2. ASSUME NEW c \in Counters, Recover(c)
        PROVE  [Abstract!Next]_accepted
    BY <2>2, MarkRefines DEF Recover, Abstract!Next
  <2>3. CASE Reset
    BY <2>3 DEF Reset, NothingAccepted, Abstract!Next, Abstract!NewKey
  <2>4. QED
    BY <2>1, <2>2, <2>3
       DEF Next, vars, ObserveAuthenticatedCounter, RecoveryInterval,
           BeginCounterRecoveryEpoch
<1>3. Spec => []IInv
  BY InitIInv, NextIInv, PTL DEF Spec
<1>4. QED
  BY <1>1, <1>2, <1>3, PTL DEF Spec, ImplementsSlidingWindow, Abstract!Spec
=============================================================================
