----------------------------- MODULE MCPackets ------------------------------
(***************************************************************************)
(* What happens to packets on their way, for TLC: messages in fragments    *)
(* (Fragment), forward error correction (Fec), and the kernel module's     *)
(* share of a session, uplink (KernelOffload) and downlink                 *)
(* (KernelDownlink). The parts share no variable, so a behaviour of the    *)
(* whole is one behaviour of each; TLC explores those in which one part,   *)
(* chosen at the start, moves.                                             *)
(***************************************************************************)
EXTENDS Fragment, KernelDownlink, TLC

CONSTANTS c1, c2, d1, d2, d3, w1, w2

VARIABLES part, sender, resizes, sent, fecNet, fecPending, completed, retired,
          retiredOrder, highest, next_ticket, fecExpired, heard, forwarded,
          again, refused, wire, client, queue, offloadSess, kern, listed,
          hook, worker, job, revoke, failures, offloadDelivered

fecVars == <<sender, resizes, sent, fecNet, fecPending, completed, retired,
             retiredOrder, highest, next_ticket, fecExpired, heard, forwarded,
             again, refused>>
offloadVars == <<wire, client, queue, offloadSess, kern, listed, hook, worker,
                 job, revoke, failures, offloadDelivered>>
whole == <<part, vars, fecVars, offloadVars, downlinkVars>>

(* Two control and three data messages; a data message is in one piece,    *)
(* another belongs to an error correction group.                           *)
AllMessages == {c1, c2, d1, d2, d3}
ControlMessages == {c1, c2}
OneGrouped == [m \in AllMessages |-> IF m = d2 THEN 0 ELSE NoGroup]
MostlyTwo == [m \in AllMessages |-> IF m = d3 THEN 1 ELSE 2]

(* Blocks of two counters, two workers, two keys after the ratchet.        *)
TwoWorkers == {w1, w2}

(* Groups of one or two packets, numbered modulo four; two in progress,    *)
(* three remembered                                                        *)
Fec == INSTANCE Fec WITH
  net <- fecNet, pending <- fecPending, expired <- fecExpired,
  Sizes <- {0, 1, 2}, GroupMod <- 4, MaxPending <- 2, Remembered <- 3,
  Lag <- 3, MaxGap <- 1, MaxGroups <- 4, MaxResizes <- 1

(* A group more than there are numbers                                     *)
Wrap == INSTANCE Fec WITH
  net <- fecNet, pending <- fecPending, expired <- fecExpired, Sizes <- {2},
  GroupMod <- 4, MaxPending <- 2, Remembered <- 3, Lag <- 3, MaxGap <- 1,
  MaxGroups <- 5, MaxResizes <- 0

(* Two workers, two packets and two keys                                   *)
Offload == INSTANCE KernelOffload WITH
  sess <- offloadSess, delivered <- offloadDelivered, Workers <- {w1, w2},
  Cpus <- {"cpu"}, Counters <- 0 .. 1, MaxKey <- 2, MaxFailures <- 0,
  MaxLayouts <- 1, ReplayBits <- 2

(* One worker, one packet, two keys, a change of layout and an ioctl that  *)
(* fails                                                                   *)
Faults == INSTANCE KernelOffload WITH
  sess <- offloadSess, delivered <- offloadDelivered, Workers <- {w1},
  Cpus <- {"cpu"}, Counters <- {0}, MaxKey <- 2, MaxFailures <- 1,
  MaxLayouts <- 2, ReplayBits <- 1

(* One worker, two packets, one key, a change of layout and an ioctl that  *)
(* fails                                                                   *)
Layout == INSTANCE KernelOffload WITH
  sess <- offloadSess, delivered <- offloadDelivered, Workers <- {w1},
  Cpus <- {"cpu"}, Counters <- 0 .. 1, MaxKey <- 1, MaxFailures <- 1,
  MaxLayouts <- 2, ReplayBits <- 1

WholeInit ==
  /\ part \in {"fragments", "fec", "wrap", "offload", "faults", "layout",
                  "downlink"}
  /\ Init
  /\ IF part = "wrap" THEN Wrap!Init ELSE Fec!Init
  /\ part \notin {"fec", "wrap"} => sender.size = 1
  /\ CASE part = "faults" -> Faults!Init
       [] part = "layout" -> Layout!Init
       [] OTHER -> Offload!Init
  /\ DownlinkInit

WholeNext ==
  /\ UNCHANGED part
  /\ \/ part = "fragments" /\ Next
        /\ UNCHANGED <<fecVars, offloadVars, downlinkVars>>
     \/ part = "fec" /\ Fec!Next
        /\ UNCHANGED <<vars, offloadVars, downlinkVars>>
     \/ part = "wrap" /\ Wrap!Next
        /\ UNCHANGED <<vars, offloadVars, downlinkVars>>
     \/ part = "offload" /\ Offload!Next
        /\ UNCHANGED <<vars, fecVars, downlinkVars>>
     \/ part = "faults" /\ Faults!Next
        /\ UNCHANGED <<vars, fecVars, downlinkVars>>
     \/ part = "layout" /\ Layout!Next
        /\ UNCHANGED <<vars, fecVars, downlinkVars>>
     \/ part = "downlink" /\ DownlinkNext
        /\ UNCHANGED <<vars, fecVars, offloadVars>>

WholeSpec == WholeInit /\ [][WholeNext]_whole

Alike == Permutations({w1, w2})

-----------------------------------------------------------------------------
(* A packet rebuilt from a repair packet is one that was sent, a packet is *)
(* forwarded once, rebuilt or original, and an original is refused only if *)
(* it was forwarded, although groups change their size, are given up, and  *)
(* their numbers wrap (FecEncoder, FecDecoder).                            *)
FecFaithful ==
  /\ part = "fec" => Fec!RebuiltIsReal /\ Fec!ForwardedOnce
  /\ part = "wrap" => Wrap!RefusedWasForwarded

(* The kernel module and the userspace of a session deliver a counter of a *)
(* key once between them, a kernel window is only ever used for the key it *)
(* belongs to, and a session whose kernel window was lost delivers nothing *)
(* more, although installation, rotation, claims and the receive hook      *)
(* interleave and ioctls fail (kernel_maintain, kernel_claim_deliver,      *)
(* udp_hook.c).                                                            *)
KernelSound ==
  /\ [](part \in {"offload", "layout"} => Offload!DeliveredOnce)
  /\ [](part = "offload" => Offload!WindowBelongsToKey)
  /\ [](part = "faults" => Faults!DeliveredOnce)
  /\ Faults!FaultedDeliversNothing
=============================================================================
