---------------------------- MODULE MCAdmission -----------------------------
(***************************************************************************)
(* The session table (Admission) and a session's replay window             *)
(* (ReplayWindow), for TLC. The table has two instances over the same      *)
(* variables: a client more than there are slots for first-time clients,   *)
(* and clients that move between addresses while sessions of both are      *)
(* admitted and removed. The window shares no variable with it, so TLC     *)
(* explores the behaviours in which one part, chosen at the start, moves.  *)
(* A shift of the window can stay in a word, cross one or two of them, and *)
(* clear it.                                                               *)
(***************************************************************************)
EXTENDS Admission, ReplayWindow, TLC

CONSTANTS c1, c2, c3

VARIABLES part

whole == <<part, vars, windowVars>>

(* Two clients that are given each other's addresses                       *)
Moves == INSTANCE Admission WITH
  Clients <- {c1, c2}, PerSubnet <- 2

WholeInit ==
  /\ part \in {"crowd", "moves", "window"}
  /\ IF part = "moves" THEN Moves!Init ELSE Init
  /\ WindowInit
  /\ part # "window" => offload = FALSE

WholeNext ==
  /\ UNCHANGED part
  /\ \/ part = "crowd" /\ Next /\ UNCHANGED windowVars
     \/ part = "moves" /\ Moves!Next /\ UNCHANGED windowVars
     \/ part = "window" /\ WindowNext /\ UNCHANGED vars

WholeSpec == WholeInit /\ [][WholeNext]_whole

Alike ==
  Permutations(Ids) \union Permutations({c1, c2})
    \union Permutations(SourceIps)
    \union Permutations(VpnIps)

-----------------------------------------------------------------------------
=============================================================================
