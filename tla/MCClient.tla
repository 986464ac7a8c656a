------------------------------ MODULE MCClient ------------------------------
(***************************************************************************)
(* The client, for TLC: its receive window (RecvWindow), the kill switch   *)
(* (KillSwitch), the sessions of a mobile app (MobileSession) and the      *)
(* management client (MgmtClient). The parts share no variable, so a       *)
(* behaviour of the whole is one behaviour of each; TLC explores those in  *)
(* which one part, chosen at the start, moves. The window is four counters *)
(* wide and the counters run past it, so that a shift can stay in a half,  *)
(* cross into the other, and clear the window. A session may replace       *)
(* another, and two stops meet them; a GET and a mutation meet a reset, a  *)
(* lost packet and a throttled request.                                    *)
(***************************************************************************)
EXTENDS RecvWindow, MobileSession, MgmtClient

VARIABLES part, hasNft, nft, OUTPUT, AIVPN_KS, script, pc, sealTun, server,
          state, reconnect, shutdown, faults, kills, attempts, owes, clean

sealVars == <<hasNft, nft, OUTPUT, AIVPN_KS, script, pc, sealTun, server,
              state, reconnect, shutdown, faults, kills, attempts, owes, clean>>
whole == <<part, vars, sealVars, mobileVars, callVars>>

(* Two tunnel names, a server of each family, two attempts, two kills and  *)
(* a refused command                                                       *)
Seal == INSTANCE KillSwitch WITH
  tun <- sealTun, Tuns <- {"tun0", "tun1"}, V4 <- {"s4"}, V6 <- {"s6"},
  Steady <- {}, MaxFaults <- 1, MaxKills <- 2, MaxAttempts <- 2

(* The same, but the check for the guard is never refused                  *)
Clean == INSTANCE KillSwitch WITH
  tun <- sealTun, Tuns <- {"tun0", "tun1"}, V4 <- {"s4"}, V6 <- {"s6"},
  Steady <- {"check"}, MaxFaults <- 1, MaxKills <- 2, MaxAttempts <- 2

WholeInit ==
  /\ part \in {"window", "seal", "clean", "mobile", "mgmt"}
  /\ Init
  /\ Seal!Init
  /\ part \notin {"seal", "clean"}
     => hasNft /\ sealTun = "tun0" /\ server = "s4"
  /\ MobileInit
  /\ CallsInit

WholeNext ==
  /\ UNCHANGED part
  /\ \/ part = "window" /\ Next
        /\ UNCHANGED <<sealVars, mobileVars, callVars>>
     \/ part = "seal" /\ Seal!Next /\ UNCHANGED <<vars, mobileVars, callVars>>
     \/ part = "clean" /\ Clean!Next
        /\ UNCHANGED <<vars, mobileVars, callVars>>
     \/ part = "mobile" /\ MobileNext
        /\ UNCHANGED <<vars, sealVars, callVars>>
     \/ part = "mgmt" /\ CallsNext /\ UNCHANGED <<vars, sealVars, mobileVars>>

WholeSpec == WholeInit /\ [][WholeNext]_whole

-----------------------------------------------------------------------------
(* Once the kill switch has been activated the network stays sealed        *)
(* through kills of the client, refused commands and rebuilds, until an    *)
(* intentional exit; while it is active exactly loopback and the tunnel    *)
(* and the server of this attempt are let out; and after an intentional    *)
(* exit, or a clear by the operator, whose commands were not refused       *)
(* nothing is blocked any more (activate, deactivate, clear_for_operator). *)
SealHolds ==
  /\ [](part = "seal" => Seal!LetsOutItsOwn)
  /\ [](part = "clean" => Clean!LeavesNothing)
  /\ Seal!StaysSealed
=============================================================================
