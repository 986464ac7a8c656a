-------------------------- MODULE MCClientProgress --------------------------
(***************************************************************************)
(* What must come about for a client, for TLC: small instances of the      *)
(* components it depends on, with the fairness they state. The parts share *)
(* no variable, so a behaviour of the whole is one behaviour of each; TLC  *)
(* explores those in which one part, chosen at the start, moves.           *)
(***************************************************************************)
EXTENDS Integers, Sequences

VARIABLES part, client, key, net, session, opened, cooldown, credit, scan,
          missed, faults, silenced, mask, pending, waited, slot, task,
          policyDue, cmask, confirmed, sent, sleep, up, down, lost, repushed,
          store, adding, version, versionSent, catalogTask, wire, last, list,
          catalogLost, mode, pc, server, poolMask, failures, age, rtt, rr_idx,
          backoff, handshake_fail_streak, LAST_GOOD_MASK, DATA_STALL_STREAK,
          DATA_EXPLORATION_ROUND, data_plane_proven, poolUp, outages, at,
          active, lock, stopPending, stop, control, open, signalled, shut,
          tun, stopCall, misused, late, call, queue, pause, mgmtPending, seq,
          epoch, channel, mgmtSent, answers, executed, budget, stale, rushed

ingressVars == <<client, key, net, session, opened, cooldown, credit, scan,
                 missed, faults, silenced>>
maskVars == <<mask, pending, waited, slot, task, policyDue, cmask, confirmed,
              sent, sleep, up, down, lost, repushed>>
catalogVars == <<store, adding, version, versionSent, catalogTask, wire, last,
                 list, catalogLost>>
poolVars == <<mode, pc, server, poolMask, failures, age, rtt, rr_idx, backoff,
              handshake_fail_streak, LAST_GOOD_MASK, DATA_STALL_STREAK,
              DATA_EXPLORATION_ROUND, data_plane_proven, poolUp, outages>>
mobileVars == <<at, active, lock, stopPending, stop, control, open, signalled,
                shut, tun, stopCall, misused, late>>
mgmtVars == <<call, queue, pause, mgmtPending, seq, epoch, channel, mgmtSent,
              answers, executed, budget, stale, rushed>>
whole == <<part, ingressVars, maskVars, catalogVars, poolVars, mobileVars,
           mgmtVars>>

(* One client, a restart of the server, two lost packets and an expensive  *)
(* one                                                                     *)
Ingress == INSTANCE HandshakeIngress WITH
  Clients <- {"c"}, Workers <- {"w1", "w2"}, HANDSHAKE_TIMEOUT <- 10,
  FirstInterval <- 1, MAX_RETRY_INTERVAL <- 2, HelloGap <- 1, MaxHellos <- 8,
  LivePause <- 1, BasePause <- 2, MaxCredit <- 1, MaxCost <- 2,
  MaxExpensive <- 1, MaxLosses <- 2, MaxHeld <- 0, MaxRestarts <- 1

(* Preference and policy compete; one packet of the client may be lost     *)
Mask == INSTANCE MaskTransition WITH
  Boot <- "boot", Own <- "own", Policy <- "policy", Stateful <- {"own"},
  CatalogLayout <- {}, Tasks <- {"t1", "t2"}, PolicyOn <- TRUE,
  Losable <- {"preference", "keepalive"}, MaxLosses <- 1, MaxDelay <- 2,
  MaxFlight <- 2

(* Two keepalives at once, two masks added, every list arrives             *)
Catalog == INSTANCE CatalogPush WITH
  task <- catalogTask, lost <- catalogLost, Masks <- {"m1", "m2"},
  Tasks <- {"t1", "t2"}, MaxLosses <- 0, MaxFlight <- 3

(* Two servers in the modes that prefer one; no server can reproduce the   *)
(* cached mask                                                             *)
Pool == INSTANCE ClientLoop WITH
  mask <- poolMask, up <- poolUp, Nodes <- <<"a", "b">>,
  Weight <- [a |-> 2, b |-> 1], Modes <- {"Failover", "LatencyBased"},
  MaxStrikes <- 3, BenchTime <- 30, INITIAL_BACKOFF <- 1, MAX_BACKOFF <- 60,
  HEALTHY_CONNECTION_THRESHOLD <- 30, HANDSHAKE_FALLBACK_THRESHOLD <- 3,
  HEALTHY_SESSION_MIN <- 45, DATA_STALL_EXPLORE_THRESHOLD <- 4, RrMod <- 12,
  Candidates <- 1, Matched <- {}, Throttled <- {}, FailTimes <- {0, 10},
  UpTimes <- {5, 30}, Rtts <- {1, 2}, Stable <- {}, MaxOutages <- 1

(* Two servers in the modes that take turns                                *)
Turns == INSTANCE ClientLoop WITH
  mask <- poolMask, up <- poolUp, Nodes <- <<"a", "b">>,
  Weight <- [a |-> 2, b |-> 1], Modes <- {"RoundRobin", "Weighted"},
  MaxStrikes <- 3, BenchTime <- 30, INITIAL_BACKOFF <- 1, MAX_BACKOFF <- 60,
  HEALTHY_CONNECTION_THRESHOLD <- 30, HANDSHAKE_FALLBACK_THRESHOLD <- 3,
  HEALTHY_SESSION_MIN <- 45, DATA_STALL_EXPLORE_THRESHOLD <- 4, RrMod <- 12,
  Candidates <- 0, Matched <- {}, Throttled <- {}, FailTimes <- {10},
  UpTimes <- {5}, Rtts <- {1}, Stable <- {}, MaxOutages <- 2

(* A server that is always up; of three cached masks only the last carries *)
(* data                                                                    *)
Masks == INSTANCE ClientLoop WITH
  mask <- poolMask, up <- poolUp, Nodes <- <<"a", "b">>,
  Weight <- [a |-> 2, b |-> 1], Modes <- {"Failover"}, MaxStrikes <- 3,
  BenchTime <- 30, INITIAL_BACKOFF <- 1, MAX_BACKOFF <- 60,
  HEALTHY_CONNECTION_THRESHOLD <- 30, HANDSHAKE_FALLBACK_THRESHOLD <- 3,
  HEALTHY_SESSION_MIN <- 45, DATA_STALL_EXPLORE_THRESHOLD <- 4, RrMod <- 12,
  Candidates <- 3, Matched <- {0, 1, 2}, Throttled <- {-1, 0, 1},
  FailTimes <- {10}, UpTimes <- {5, 30}, Rtts <- {1}, Stable <- {"a"},
  MaxOutages <- 1

(* Two sessions and a stop; what a session waits for may never come        *)
Mobile == INSTANCE MobileSession WITH
  Sessions <- {"s1", "s2"}, Stops <- {"k"}

(* A GET and a mutation for one place, over a transport that may stop      *)
(* taking messages                                                         *)
Mgmt == INSTANCE MgmtClient WITH
  pending <- mgmtPending, sent <- mgmtSent, Gets <- {"g"}, Mutations <- {"m"},
  Diagnostics <- {}, Slots <- 1, Timeout <- 1, MaxEpoch <- 1, MaxLosses <- 0,
  MaxBusy <- 0, MaxFull <- 1

WholeInit ==
  /\ part \in {"ingress", "mask", "catalog", "pool", "turns", "masks",
                  "mobile", "mgmt"}
  /\ Ingress!Init
  /\ Mask!Init
  /\ Catalog!Init
  /\ CASE part = "turns" -> Turns!Init
       [] part = "masks" -> Masks!Init
       [] OTHER -> Pool!Init
  /\ part \notin {"pool", "turns", "masks"}
     => mode = "Failover" /\ poolUp = [a |-> TRUE, b |-> TRUE]
  /\ Mobile!MobileInit
  /\ Mgmt!CallsInit

WholeNext ==
  /\ UNCHANGED part
  /\ \/ part = "ingress" /\ Ingress!Next
        /\ UNCHANGED <<maskVars, catalogVars, poolVars, mobileVars, mgmtVars>>
     \/ part = "mask" /\ Mask!Next
        /\ UNCHANGED <<ingressVars, catalogVars, poolVars, mobileVars,
                       mgmtVars>>
     \/ part = "catalog" /\ Catalog!Next
        /\ UNCHANGED <<ingressVars, maskVars, poolVars, mobileVars, mgmtVars>>
     \/ part = "pool" /\ Pool!Next
        /\ UNCHANGED <<ingressVars, maskVars, catalogVars, mobileVars,
                       mgmtVars>>
     \/ part = "turns" /\ Turns!Next
        /\ UNCHANGED <<ingressVars, maskVars, catalogVars, mobileVars,
                       mgmtVars>>
     \/ part = "masks" /\ Masks!Next
        /\ UNCHANGED <<ingressVars, maskVars, catalogVars, mobileVars,
                       mgmtVars>>
     \/ part = "mobile" /\ Mobile!MobileNext
        /\ UNCHANGED <<ingressVars, maskVars, catalogVars, poolVars, mgmtVars>>
     \/ part = "mgmt" /\ Mgmt!CallsNext
        /\ UNCHANGED <<ingressVars, maskVars, catalogVars, poolVars,
                       mobileVars>>

(* One part moves, so that one strong fairness condition can stand for one *)
(* of every part.                                                          *)
Strong1 ==
  \/ part = "pool" /\ Pool!DataRx
  \/ part = "turns" /\ Turns!DataRx
  \/ part = "masks" /\ Masks!DataRx
Strong2 ==
  \/ part = "pool" /\ Pool!Stall
  \/ part = "turns" /\ Turns!Stall
  \/ part = "masks" /\ Masks!Stall

(* Fairness: as in the components, for the part that moves.                *)
WholeFairness ==
  /\ WF_ingressVars(part = "ingress"
       /\ (Ingress!Connect("c") \/ Ingress!Resend("c")))
  /\ WF_ingressVars(part = "ingress" /\ Ingress!SendData("c"))
  /\ WF_ingressVars(part = "ingress" /\ Ingress!RxSilence("c"))
  /\ \A w \in {"w1", "w2"} :
       WF_ingressVars(part = "ingress" /\ Ingress!Work(w))
  /\ WF_ingressVars(part = "ingress" /\ Ingress!Hear)
  /\ WF_ingressVars(part = "ingress" /\ Ingress!Tick)
  /\ \A kind \in Mask!Kinds : WF_maskVars(part = "mask" /\ Mask!Arrive(kind))
  /\ \A t \in {"t1", "t2"} : WF_maskVars(part = "mask" /\ Mask!TaskStep(t))
  /\ WF_maskVars(part = "mask" /\ Mask!SendPreference)
  /\ WF_maskVars(part = "mask" /\ Mask!SendKeepalive)
  /\ WF_maskVars(part = "mask" /\ Mask!Update)
  /\ WF_maskVars(part = "mask" /\ Mask!Tick)
  /\ \A m \in {"m1", "m2"} :
       WF_catalogVars(part = "catalog" /\ Catalog!Add(m))
  /\ \A t \in {"t1", "t2"} :
       WF_catalogVars(part = "catalog" /\ Catalog!Handle(t))
  /\ WF_catalogVars(part = "catalog" /\ Catalog!Count)
  /\ WF_catalogVars(part = "catalog" /\ Catalog!MaskCatalog)
  /\ WF_poolVars(part = "pool" /\ Pool!Proceeds)
  /\ WF_poolVars(part = "turns" /\ Turns!Proceeds)
  /\ WF_poolVars(part = "masks" /\ Masks!Proceeds)
  /\ \A s \in {"s1", "s2"} : WF_mobileVars(part = "mobile" /\ Mobile!Runs(s))
  /\ WF_mobileVars(part = "mobile" /\ Mobile!Stopping("k"))
  /\ \A c \in Mgmt!Callers : WF_mgmtVars(part = "mgmt" /\ Mgmt!Start(c))
  /\ \A c \in Mgmt!Callers : WF_mgmtVars(part = "mgmt" /\ Mgmt!Send(c))
  /\ \A c \in Mgmt!Callers : WF_mgmtVars(part = "mgmt" /\ Mgmt!Answered(c))
  /\ \A c \in Mgmt!Callers : WF_mgmtVars(part = "mgmt" /\ Mgmt!TimesOut(c))
  /\ WF_mgmtVars(part = "mgmt" /\ Mgmt!Tick)
  /\ SF_poolVars(Strong1)
  /\ SF_poolVars(Strong2)

WholeSpec == WholeInit /\ [][WholeNext]_whole /\ WholeFairness

-----------------------------------------------------------------------------
(* Whatever is lost, late, dropped for the lock, the cooldown or the       *)
(* budget, and whatever cooldown a restart has brought on, every client is *)
(* connected in the end.                                                   *)
Reconnects == part = "ingress" => Ingress!Reconnects

(* With no MaskUpdate on its way the client sends with the mask that the   *)
(* server has or is about to have, and both end on one mask with nothing   *)
(* pending, although the policy pushes while the client asks for its own   *)
(* and packets of the client are lost; and when no list is lost the client *)
(* learns of every mask in rotation (on_mask_preference,                   *)
(* commit_pending_mask, the keepalive handler).                            *)
MasksSettle ==
  /\ [](part = "mask" => Mask!FramingAgrees)
  /\ part = "mask" => Mask!Settles
  /\ part = "catalog" => Catalog!Learns

(* In every mode of the pool the client reaches a server that stays up,    *)
(* through a cached mask that no server can reproduce; in the modes that   *)
(* take turns it is connected again and again; and the client leaves a     *)
(* mask on which data stall for one that carries them (next_server,        *)
(* report_failure, note_data_stall_and_maybe_explore).                     *)
LoopReaches ==
  /\ [](part = "pool" => Pool!TypeOK)
  /\ part = "pool" => Pool!Reaches
  /\ part = "turns" => Turns!KeepsReaching
  /\ part = "masks" => Masks!Explores

(* A session told to stop ends, wherever it is: also while a name lookup,  *)
(* a handshake or the traffic it waits for never comes (create_stop_signal *)
(* and its second look at stop_requested, wait_for_stop).                  *)
StopEnds == part = "mobile" => Mobile!StopEnds

(* Every call returns, also when the channel stays full, the queue's       *)
(* holder waits or no answer comes (timeout_at around the whole request).  *)
Returns == part = "mgmt" => Mgmt!Returns

-----------------------------------------------------------------------------
(* Three servers in Failover, of which only the third is sure to answer.   *)
Dead == INSTANCE ClientLoop WITH
  mask <- poolMask, up <- poolUp, Nodes <- <<"a", "b", "c">>,
  Weight <- [a |-> 2, b |-> 1, c |-> 1], Modes <- {"Failover"}, MaxStrikes <- 3,
  BenchTime <- 30, INITIAL_BACKOFF <- 1, MAX_BACKOFF <- 60,
  HEALTHY_CONNECTION_THRESHOLD <- 30, HANDSHAKE_FALLBACK_THRESHOLD <- 3,
  HEALTHY_SESSION_MIN <- 45, DATA_STALL_EXPLORE_THRESHOLD <- 4, RrMod <- 12,
  Candidates <- 0, Matched <- {}, Throttled <- {}, FailTimes <- {10},
  UpTimes <- {30}, Rtts <- {1}, Stable <- {"c"}, MaxOutages <- 0

DeadSpec ==
  /\ part = "dead" /\ Ingress!Init /\ Mask!Init /\ Catalog!Init /\ Dead!Init
  /\ Mobile!MobileInit /\ Mgmt!CallsInit
  /\ [][/\ Dead!Next
        /\ UNCHANGED <<part, ingressVars, maskVars, catalogVars, mobileVars,
                        mgmtVars>>]_whole
  /\ WF_poolVars(Dead!Proceeds)
  /\ SF_poolVars(Dead!DataRx) /\ SF_poolVars(Dead!Stall)

(* The same as Reaches with two dead servers before the one that answers:  *)
(* run.rs says that failures are reported to the pool lest it retry a dead *)
(* primary forever.                                                        *)
DeadReaches == Dead!Reaches
=============================================================================
