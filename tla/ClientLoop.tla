---------------------------- MODULE ClientLoop -----------------------------
(***************************************************************************)
(* The reconnection loop of the desktop client: which server of the pool   *)
(* and which opening mask the next attempt uses, and how long the loop     *)
(* waits before it.  Three memories outlive an attempt and meet here: the  *)
(* strikes of the servers (server_pool.rs), the failed handshakes and the  *)
(* last good mask (run.rs), the short stalled sessions (bootstrap_cache).  *)
(*                                                                         *)
(* Time is in seconds and moves only with an attempt or a wait.  A shut-   *)
(* down of the loop is part of module KillSwitch.                          *)
(***************************************************************************)
EXTENDS Integers, Sequences, FiniteSetsExt

CONSTANTS Nodes,             \* the servers in the order of priority: a sequence
          Weight,            \* weight of a server
          Modes,             \* modes of the pool: Failover, RoundRobin, Weighted, LatencyBased
          MaxStrikes,        \* failures that bench a server
          BenchTime,         \* how long it is benched
          INITIAL_BACKOFF, MAX_BACKOFF,
          HEALTHY_CONNECTION_THRESHOLD,
          HANDSHAKE_FALLBACK_THRESHOLD,
          HEALTHY_SESSION_MIN, DATA_STALL_EXPLORE_THRESHOLD,
          Candidates,        \* number of masks the cached descriptors yield
          Matched,           \* the masks the servers can reproduce
          Throttled,         \* the masks on whose sessions data soon stalls
          FailTimes,         \* how long an unanswered attempt may take
          UpTimes,           \* how long a session may last
          Rtts,              \* round-trip times
          RrMod,             \* the turn counter is kept modulo this
          Stable,            \* servers that are always reachable
          MaxOutages         \* changes of the others' reachability

Servers == {Nodes[i] : i \in DOMAIN Nodes}

(* Every sum a turn is divided by divides RrMod, so that keeping the turn   *)
(* counter modulo RrMod changes no choice.                                  *)
\* RrMod is a multiple of the size and of the total weight of every set of servers.

VARIABLES mode,              \* the mode of the pool, fixed when it is built
          pc, server, mask,
          failures, age,     \* strikes of a server, seconds since the last one
          rtt, rr_idx,
          backoff,
          handshake_fail_streak, LAST_GOOD_MASK,
          DATA_STALL_STREAK, DATA_EXPLORATION_ROUND,
          data_plane_proven,
          up, outages

pool == <<failures, age, rtt, rr_idx>>
masks == <<handshake_fail_streak, LAST_GOOD_MASK, DATA_STALL_STREAK, DATA_EXPLORATION_ROUND>>
vars == <<mode, pc, server, mask, pool, backoff, masks, data_plane_proven, up, outages>>

Default == -1
Absent == -2
Never == BenchTime + 1
Slow == Max(Rtts) + 1

Init ==
    /\ mode \in Modes
    /\ pc = "choose"
    /\ server = Nodes[1]
    /\ mask = Default
    /\ failures = [n \in Servers |-> 0]
    /\ age = [n \in Servers |-> Never]
    /\ rtt = [n \in Servers |-> Slow]
    /\ rr_idx = 0
    /\ backoff = INITIAL_BACKOFF
    /\ handshake_fail_streak = 0
    /\ LAST_GOOD_MASK = Absent
    /\ DATA_STALL_STREAK = 0
    /\ DATA_EXPLORATION_ROUND = 0
    /\ data_plane_proven = FALSE
    /\ up \in [Servers -> BOOLEAN]
    /\ \A n \in Stable : up[n]
    /\ outages = 0

(* Strikes above the limit and seconds past the bench make no difference.   *)
is_healthy(n) == failures[n] >= MaxStrikes => age[n] > BenchTime

HealthyNodes == SelectSeq(Nodes, is_healthy)

(* The server of the weighted turn: the first whose weights so far exceed   *)
(* the turn.                                                                *)
Bucket(healthy, turn) ==
    LET upTo(i) == MapThenSumSet(LAMBDA j : Weight[healthy[j]], 1..i)
    IN  healthy[Min({i \in DOMAIN healthy : turn < upTo(i)})]

Fastest(healthy) ==
    LET best == Min({rtt[healthy[i]] : i \in DOMAIN healthy})
    IN  healthy[Min({i \in DOMAIN healthy : rtt[healthy[i]] = best})]

next_server ==
    LET healthy == HealthyNodes
        total == MapThenSumSet(LAMBDA i : Weight[healthy[i]], DOMAIN healthy)
    IN  CASE healthy = <<>>          -> Nodes[1]
          [] mode = "RoundRobin"     -> healthy[(rr_idx % Len(healthy)) + 1]
          [] mode = "Weighted"       -> Bucket(healthy, rr_idx % total)
          [] mode = "LatencyBased"   -> Fastest(healthy)
          [] OTHER                   -> healthy[1]

Turn ==
    IF mode \in {"RoundRobin", "Weighted"} /\ HealthyNodes # <<>>
    THEN (rr_idx + 1) % RrMod
    ELSE rr_idx

(* The opening mask: the built-in one once the handshakes keep failing,     *)
(* else the last good one, else the candidate of the exploration round.     *)
Opening ==
    IF handshake_fail_streak >= HANDSHAKE_FALLBACK_THRESHOLD THEN Default
    ELSE IF LAST_GOOD_MASK # Absent THEN LAST_GOOD_MASK
    ELSE IF Candidates = 0 THEN Default
    ELSE DATA_EXPLORATION_ROUND

Choose ==
    /\ pc = "choose"
    /\ pc' = "running"
    /\ mask' = Opening
    /\ LAST_GOOD_MASK' = IF handshake_fail_streak >= HANDSHAKE_FALLBACK_THRESHOLD
                         THEN Absent ELSE LAST_GOOD_MASK
    /\ server' = next_server
    /\ rr_idx' = Turn
    /\ data_plane_proven' = FALSE
    /\ UNCHANGED <<mode, failures, age, rtt, backoff, handshake_fail_streak, DATA_STALL_STREAK,
                   DATA_EXPLORATION_ROUND, up, outages>>

Older(d) == [n \in Servers |-> Min({age[n] + d, Never})]

record_failure(d) ==
    /\ failures' = [failures EXCEPT ![server] = Min({@ + 1, MaxStrikes})]
    /\ age' = [Older(d) EXCEPT ![server] = 0]

report_failure(d) == record_failure(d)

report_success(d) ==
    /\ failures' = [failures EXCEPT ![server] = 0]
    /\ age' = [Older(d) EXCEPT ![server] = Never]

Answers == up[server] /\ mask \in Matched \cup {Default}

should_reset_backoff(uptime) == uptime >= HEALTHY_CONNECTION_THRESHOLD

Reset(uptime) == IF should_reset_backoff(uptime) THEN INITIAL_BACKOFF ELSE backoff

(* An attempt no server packet answers: the first-contact timeout, or an    *)
(* error before it.                                                         *)
Fail ==
    /\ pc = "running" /\ ~ Answers
    /\ pc' = "wait"
    /\ handshake_fail_streak' = Min({handshake_fail_streak + 1, HANDSHAKE_FALLBACK_THRESHOLD})
    /\ \E d \in FailTimes : report_failure(d) /\ backoff' = Reset(d)
    /\ UNCHANGED <<mode, server, mask, rtt, rr_idx, LAST_GOOD_MASK, DATA_STALL_STREAK,
                   DATA_EXPLORATION_ROUND, data_plane_proven, up, outages>>

(* ServerHello is accepted: the session is connected.                       *)
Connect ==
    /\ pc = "running" /\ Answers
    /\ pc' = "connected"
    /\ UNCHANGED <<mode, server, mask, pool, backoff, masks, data_plane_proven, up, outages>>

(* The first data of a session makes its opening mask the last good one.    *)
DataRx ==
    /\ pc = "connected" /\ ~ data_plane_proven
    /\ data_plane_proven' = TRUE
    /\ LAST_GOOD_MASK' = mask
    /\ UNCHANGED <<mode, pc, server, mask, pool, backoff, handshake_fail_streak, DATA_STALL_STREAK,
                   DATA_EXPLORATION_ROUND, up, outages>>

(* The end of a session of d seconds: the loop books its success.           *)
Ended(d) ==
    /\ pc' = "wait"
    /\ handshake_fail_streak' = 0
    /\ report_success(d)
    /\ \E r \in Rtts \cup {rtt[server]} : rtt' = [rtt EXCEPT ![server] = r]
    /\ backoff' = Reset(d)
    /\ UNCHANGED <<mode, server, mask, rr_idx, data_plane_proven, up, outages>>

(* A session ends for any reason but a data stall.                          *)
Drop ==
    /\ pc = "connected"
    /\ \E d \in UpTimes : Ended(d)
    /\ UNCHANGED <<LAST_GOOD_MASK, DATA_STALL_STREAK, DATA_EXPLORATION_ROUND>>

StickyMutantKept == LAST_GOOD_MASK

(* What is left of the last good mask when it is abandoned.                 *)
Sticky == Absent

Abandons == DATA_STALL_STREAK + 1 >= DATA_STALL_EXPLORE_THRESHOLD

note_data_stall_and_maybe_explore(d) ==
    IF d >= HEALTHY_SESSION_MIN
    THEN DATA_STALL_STREAK' = 0 /\ UNCHANGED <<LAST_GOOD_MASK, DATA_EXPLORATION_ROUND>>
    ELSE IF Abandons
    THEN /\ LAST_GOOD_MASK' = Sticky
         /\ DATA_STALL_STREAK' = 0
         /\ DATA_EXPLORATION_ROUND' = (DATA_EXPLORATION_ROUND + 1) % Max({Candidates, 1})
    ELSE /\ DATA_STALL_STREAK' = Min({DATA_STALL_STREAK + 1, DATA_STALL_EXPLORE_THRESHOLD})
         /\ UNCHANGED <<LAST_GOOD_MASK, DATA_EXPLORATION_ROUND>>

(* The data watchdog ends a session on which data no longer comes back.     *)
Stall ==
    /\ pc = "connected" /\ data_plane_proven /\ mask \in Throttled
    /\ \E d \in UpTimes : Ended(d) /\ note_data_stall_and_maybe_explore(d)

NextBackoff == Min({backoff * 2, MAX_BACKOFF})

wait_reconnect_backoff ==
    /\ pc = "wait"
    /\ pc' = "choose"
    /\ age' = Older(backoff)
    /\ backoff' = NextBackoff
    /\ UNCHANGED <<mode, server, mask, failures, rtt, rr_idx, masks, data_plane_proven, up, outages>>

(* A server becomes reachable or unreachable.                               *)
Outage ==
    /\ outages < MaxOutages
    /\ \E n \in Servers \ Stable : up' = [up EXCEPT ![n] = ~ @]
    /\ outages' = outages + 1
    /\ UNCHANGED <<mode, pc, server, mask, pool, backoff, masks, data_plane_proven>>

Proceeds == Choose \/ Fail \/ Connect \/ wait_reconnect_backoff

Next == Proceeds \/ DataRx \/ Drop \/ Stall \/ Outage

(* The loop itself never stops; an attempt ends one way or the other, data  *)
(* come on a session that stays up, and sessions on a throttled mask do     *)
(* stall, even if some of them end for another reason first.                *)
Fairness ==
    /\ WF_vars(Proceeds)
    /\ SF_vars(DataRx) /\ SF_vars(Stall)

Spec == Init /\ [][Next]_vars /\ Fairness

-----------------------------------------------------------------------------
(* The counters of the loop keep their ranges; the wait never exceeds       *)
(* MAX_BACKOFF.                                                             *)
TypeOK ==
    /\ mode \in Modes
    /\ pc \in {"choose", "running", "connected", "wait"}
    /\ server \in Servers
    /\ mask \in Default .. Candidates - 1
    /\ failures \in [Servers -> 0..MaxStrikes]
    /\ age \in [Servers -> 0..Never]
    /\ backoff \in INITIAL_BACKOFF..MAX_BACKOFF
    /\ handshake_fail_streak \in 0..HANDSHAKE_FALLBACK_THRESHOLD
    /\ LAST_GOOD_MASK \in Absent .. Candidates - 1
    /\ DATA_STALL_STREAK \in 0..DATA_STALL_EXPLORE_THRESHOLD
    /\ rr_idx \in 0..RrMod - 1

(* While some server of the pool answers, the loop gets to it and connects, *)
(* however many others are dead and although the cached descriptors may be  *)
(* ones no server can reproduce: the health tracking of ServerPool and the  *)
(* fallback to the built-in mask (run.rs) keep it from retrying the same    *)
(* dead choice forever.                                                     *)
Reaches == (\E n \in Servers : [](up[n])) => <>(pc = "connected")

(* The same over the life of the loop: once a server stays up, the client   *)
(* is connected again and again, whatever the strikes and the backoff grew  *)
(* to before.                                                               *)
KeepsReaching == (\E n \in Servers : <>[](up[n])) => []<>(pc = "connected")

(* A mask whose sessions keep stalling is abandoned: the client sooner or   *)
(* later has a session on a mask that carries data, although every session  *)
(* makes its own mask the last good one again (bootstrap_cache.rs).         *)
Explores == []<>(pc = "connected" /\ mask \notin Throttled)
=============================================================================
