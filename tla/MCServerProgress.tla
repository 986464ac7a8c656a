-------------------------- MODULE MCServerProgress --------------------------
(***************************************************************************)
(* What must come about in the server, for TLC: small instances of its     *)
(* components with the fairness they state. The parts share no variable,   *)
(* so a behaviour of the whole is one behaviour of each; TLC explores      *)
(* those in which one part, chosen at the start, moves.                    *)
(***************************************************************************)
EXTENDS Integers, Sequences

VARIABLES part, db, sess, vpnMap, admitting, repair, exit, global, dialed,
          runtime, gen, stopped, loop, sender, connected, task, changes,
          cache, pkt, clock, syncDb, net, edits, lost, buried, stale, warned,
          differed, fileClock, disk, mtime, mem, last, used, txn, poll,
          lookup, fileCache, toClear, file, pending, tokens, live, now, req,
          sweep, committed

routesVars == <<db, sess, vpnMap, admitting, repair>>
exitsVars == <<exit, global, dialed, runtime, gen, stopped, loop, sender,
               connected, task, changes, cache, pkt>>
syncVars == <<clock, syncDb, net, edits, lost, buried, stale, warned, differed>>
fileVars == <<fileClock, disk, mtime, mem, last, used, txn, poll, lookup,
              fileCache, toClear>>
pendingVars == <<file, pending, tokens, live, now, req, sweep, committed>>
whole == <<part, routesVars, exitsVars, syncVars, fileVars, pendingVars>>

(* A client, two sessions of it and two addresses                          *)
Routes == INSTANCE Admission WITH
  Ids <- {"s1", "s2"}, Clients <- {"c"}, SourceIps <- {"i"},
  VpnIps <- {"v1", "v2"}, MaxSessions <- 3, Reserve <- 1, PerIp <- 2,
  PerSubnet <- 2, None <- "none"

(* Two addresses, one dialed at the start, and three changes of exits      *)
Exits == INSTANCE ExitDials WITH
  Addrs <- {"p", "x"}, Startup <- {"p"}, Clients <- {"c"}, Workers <- {"w"},
  Modes <- {"mgmt", "rest", "merge"}, MaxChanges <- 3

(* Two nodes with two records and a lost message; the admins stop before   *)
(* the clock does                                                          *)
Sync == INSTANCE PoolSync WITH
  db <- syncDb, Nodes <- {"n1", "n2"}, Ids <- {1, 2},
  Sessions <- {<<"n1", "n2">>}, Buckets <- {0, 1}, BucketOf <- <<1, 0>>,
  Vals <- {0, 1}, Ahead <- [n1 |-> 0, n2 |-> 1], TTL <- 1, MaxClock <- 5,
  MaxEdits <- 2, LastEdit <- 2, MaxNet <- 1, MaxLoss <- 1, StaleBeacons <- 1

(* Two processes, a writer in each; a write may fail and may leave the     *)
(* mtime as it was                                                         *)
File == INSTANCE ClientDb WITH
  cache <- fileCache, Ids <- {1}, Vals <- {0}, Procs <- {"daemon", "cli"},
  Daemon <- "daemon", Writers <- {"adm", "cmd"},
  Host <- [adm |-> "daemon", cmd |-> "cli"], MaxClock <- 2, MaxBytes <- 0,
  Ties <- TRUE, MaxMtime <- 1, TTL <- 1, Failures <- TRUE, Pool <- FALSE

(* Two files and one request at a time                                     *)
Pending == INSTANCE PendingConfig WITH
  Paths <- {"cfg", "mask"}, Config <- "cfg", Values <- {"v1", "v2"},
  Absent <- "none", Requests <- {"r"}, Timeout <- 1, MaxTime <- 2,
  MaxTokens <- 2

WholeInit ==
  /\ part \in {"routes", "exits", "sync", "file", "pending"}
  /\ Routes!Init
  /\ part # "routes" => db = [c |-> "v1"]
  /\ Exits!DialsInit
  /\ Sync!Init
  /\ File!DbInit
  /\ Pending!ConfigInit

WholeNext ==
  /\ UNCHANGED part
  /\ \/ part = "routes" /\ Routes!Next
        /\ UNCHANGED <<exitsVars, syncVars, fileVars, pendingVars>>
     \/ part = "exits" /\ Exits!Control
        /\ UNCHANGED <<routesVars, syncVars, fileVars, pendingVars>>
     \/ part = "sync" /\ Sync!Next
        /\ UNCHANGED <<routesVars, exitsVars, fileVars, pendingVars>>
     \/ part = "file" /\ File!DbNext
        /\ UNCHANGED <<routesVars, exitsVars, syncVars, pendingVars>>
     \/ part = "pending" /\ Pending!ConfigNext
        /\ UNCHANGED <<routesVars, exitsVars, syncVars, fileVars>>

(* One part moves, so that one strong fairness condition can stand for one *)
(* of every part.                                                          *)
Strong1 ==
  \/ part = "exits" /\ Exits!Answers("p")
     /\ UNCHANGED <<part, routesVars, syncVars, fileVars, pendingVars>>
  \/ part = "file" /\ File!BeginFlush("adm")
     /\ UNCHANGED <<part, routesVars, exitsVars, syncVars, pendingVars>>
  \/ part = "pending" /\ Pending!SweepWell
     /\ UNCHANGED <<part, routesVars, exitsVars, syncVars, fileVars>>
Strong2 ==
  \/ part = "exits" /\ Exits!Answers("x")
     /\ UNCHANGED <<part, routesVars, syncVars, fileVars, pendingVars>>
  \/ part = "file" /\ File!PollAbsorb
     /\ UNCHANGED <<part, routesVars, exitsVars, syncVars, pendingVars>>

(* Fairness: as in the components, for the part that moves.                *)
WholeFairness ==
  /\ WF_routesVars(part = "routes"
       /\ (\E s \in {"s1", "s2"} : Routes!RemoveReplaced(s)))
  /\ WF_routesVars(part = "routes" /\ Routes!BindVpnIp)
  /\ WF_routesVars(part = "routes" /\ Routes!EndAdmission)
  /\ \A s \in {"s1", "s2"} :
       WF_routesVars(part = "routes" /\ Routes!FinishRemoval(s))
  /\ \A v \in {"v1", "v2"} :
       WF_routesVars(part = "routes"
           /\ (\E s \in {"s1", "s2"} : Routes!ScanForOwner(v, s)))
  /\ WF_routesVars(part = "routes" /\ Routes!RepairIndex)
  /\ WF_exitsVars(part = "exits" /\ Exits!Work("w"))
  /\ \A l \in {"p", "x"} \X (1..Exits!MaxGen) :
       WF_exitsVars(part = "exits" /\ Exits!Proceeds(l))
  /\ WF_syncVars(part = "sync" /\ Sync!Beacon(<<"n1", "n2">>))
  /\ WF_syncVars(part = "sync" /\ Sync!Tick)
  /\ \A n \in {"n1", "n2"}, t \in {"digest", "buckets", "sync"} :
       WF_syncVars(part = "sync" /\ Sync!Arrival(<<"n1", "n2">>, n, t))
  /\ \A w \in {"adm", "cmd"} : WF_fileVars(part = "file" /\ File!Proceeds(w))
  /\ WF_fileVars(part = "file"
       /\ (File!PollStat \/ File!PollRemember \/ File!PollClear))
  /\ WF_pendingVars(part = "pending" /\ Pending!ConfigTick)
  /\ WF_pendingVars(part = "pending" /\ Pending!Continue("r"))
  /\ SF_whole(Strong1)
  /\ SF_whole(Strong2)

WholeSpec == WholeInit /\ [][WholeNext]_whole /\ WholeFairness

-----------------------------------------------------------------------------
(* The downlink of an admitted session is not lost for good: whatever      *)
(* races overwrote or emptied its entry, the index finds an owner again.   *)
RouteHeals == part = "routes" => Routes!RouteHeals

(* With one request at a time, an exit that a client or the node refers to *)
(* is dialed when no request is at work, and it goes live again and again, *)
(* however often its sessions fail (teardown_unused_exit_dials_for,        *)
(* dial_loop).                                                             *)
ExitsRecover ==
  /\ [](part = "exits" => Exits!ReferencedDialed)
  /\ part = "exits" => Exits!ExitGoesLive

(* Nodes that exchange digests end with equal databases once the admins    *)
(* stop, although a message is lost, clocks differ and tombstones are      *)
(* reaped; and their exchange comes to an end (anti_entropy,               *)
(* on_pool_state_digest, merge_from_json).                                 *)
NodesConverge ==
  /\ part = "sync" => Sync!Converges
  /\ part = "sync" => Sync!ExchangeEnds

(* Whatever another process commits to the file reaches the daemon's       *)
(* memory: the mtime poll may miss a write that left the mtime as it was,  *)
(* or set last_mtime to a value read before another write, but not for     *)
(* good.                                                                   *)
DaemonCatchesUp == part = "file" => File!DaemonCatchesUp

(* A change that nobody confirms is rolled back: each file is again and    *)
(* again what was confirmed last.                                          *)
RollsBack == part = "pending" => Pending!RollsBack
=============================================================================
