------------------------------- MODULE MCPool -------------------------------
(***************************************************************************)
(* The client database for TLC: the records that nodes exchange            *)
(* (PoolSync), the file of one node (ClientDb) and the addresses in the    *)
(* records (AddressPool). The parts share no variable, so a behaviour of   *)
(* the whole is one behaviour of each; TLC explores those in which one     *)
(* part, chosen at the start, moves.                                       *)
(***************************************************************************)
EXTENDS PoolSync, ClientDb, Integers, Sequences

VARIABLES part, ownDb, cursor, ownClock, ownNet, full

addrVars == <<ownDb, cursor, ownClock, ownNet, full>>
whole == <<part, vars, dbVars, addrVars>>

(* A chain of three nodes, the clock of the middle one ahead *)
Dialed == {<<"n1", "n2">>, <<"n3", "n2">>}
OneBucket == <<1>>
MiddleAhead == [n1 |-> 0, n2 |-> 1, n3 |-> 0]

(* A writer in each of two processes that share the file *)
HostOf == [adm |-> "daemon", cmd |-> "cli"]

(* Two nodes with a slice each                                             *)
Own == INSTANCE AddressPool WITH
  db <- ownDb, clock <- ownClock, net <- ownNet, Nodes <- {"n1", "n2"},
  Ids <- {1, 2, 3}, MaxHost <- 3, NumPartitions <- 2,
  IndexOf <- [n1 |-> 0, n2 |-> 1], ServerIp <- [n1 |-> 0, n2 |-> 0],
  Seed <- <<3, 6, 9>>, Legacy <- [n1 |-> <<>>, n2 |-> <<>>], MaxClock <- 1,
  MaxOld <- 1

(* Two nodes whose hashed indices collide, each with its own address in    *)
(* the slice                                                               *)
Shared == INSTANCE AddressPool WITH
  db <- ownDb, clock <- ownClock, net <- ownNet, Nodes <- {"n1", "n2"},
  Ids <- {1, 2, 3}, MaxHost <- 5, NumPartitions <- 2,
  IndexOf <- [n1 |-> 1, n2 |-> 1], ServerIp <- [n1 |-> 2, n2 |-> 3],
  Seed <- <<3, 6, 9>>, Legacy <- [n1 |-> <<>>, n2 |-> <<>>], MaxClock <- 2,
  MaxOld <- 1

WholeInit ==
  /\ part \in {"sync", "file", "own slices", "one slice"}
  /\ Init
  /\ DbInit
  /\ Own!Init

WholeNext ==
  /\ UNCHANGED part
  /\ \/ part = "sync" /\ Next /\ UNCHANGED <<dbVars, addrVars>>
     \/ part = "file" /\ DbNext /\ UNCHANGED <<vars, addrVars>>
     \/ part = "own slices" /\ Own!Next /\ UNCHANGED <<vars, dbVars>>
     \/ part = "one slice" /\ Shared!Next /\ UNCHANGED <<vars, dbVars>>

WholeSpec == WholeInit /\ [][WholeNext]_whole

-----------------------------------------------------------------------------
(* Between nodes with slices of their own no address is ever changed, so   *)
(* that what a node hands out is what every other node stores, and an      *)
(* allocation fails only when every address of the slice is taken,         *)
(* wherever the cursor stands; and whatever lists arrive and in whatever   *)
(* order, no node has two live clients at one address, a live client at    *)
(* its own, or two records of one id (allocate_vpn_ip, merge_from_json).   *)
AddressesSound ==
  /\ part = "own slices" => Own!AddressesAgree /\ Own!FailsOnlyWhenFull
  /\ part = "one slice" => Shared!AddressesUnique

(* A merge takes an address from a client, resident or incoming, only for  *)
(* an older claimant or for the node itself: the winner's connection key   *)
(* stays valid everywhere (deterministic_reassign_offset).                 *)
WinnerKeepsAddress == Shared!WinnerKeepsAddress
=============================================================================
