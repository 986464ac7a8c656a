-------------------------- MODULE HandshakeReplay --------------------------
(***************************************************************************)
(* The tombstones of initial handshakes (SessionManager).  A handshake     *)
(* packet opens a session only when its tag was made in one of the five    *)
(* time windows around the server's, and its initial keyspace has no live  *)
(* tombstone; the tombstone is not removed with the session.  A client     *)
(* retries one ephemeral key for at most Retry, on a clock of its own, and *)
(* the network may delay and repeat any of those packets without limit.    *)
(***************************************************************************)
EXTENDS Integers, FiniteSets

CONSTANTS
  Keyspaces,     \* initial keyspaces: one per client ephemeral key
  WindowMs,      \* DEFAULT_WINDOW_MS
  Skew,          \* the largest of HANDSHAKE_SKEW_WINDOWS
  Retry,         \* how long a client retries one ephemeral key
  Ttl,           \* HANDSHAKE_REPLAY_TTL
  Capacity,      \* HANDSHAKE_REPLAY_CAPACITY
  Horizon        \* bound: the server's clock

ASSUME HandshakeAssumption ==
  /\ WindowMs \in Nat \ {0}
  /\ Skew \in Nat
  /\ Retry \in 0 .. WindowMs
  /\ Ttl \in Nat
  /\ Ttl >= (2 * Skew + 2) * WindowMs
  /\ Capacity \in Nat
  /\ Horizon \in Nat

VARIABLES
  now,         \* the server's clock
  made,        \* made[k]: when the client made keyspace k, on its own clock
  replays,     \* replays[k]: the tombstone's deadline, or NoTombstone
  claimed      \* history: claimed[k]: the times at which k opened a session

replayVars == <<now, made, replays, claimed>>

NoTombstone == -1

Times == 0 .. Horizon

\* crypto::compute_time_window
ComputeTimeWindow(t) == t \div WindowMs

\* Mutant: one window more is accepted than the tombstones cover.
HandshakeTagPrecheckMutantWide(t, tagTime) ==
  /\ ComputeTimeWindow(tagTime) <= ComputeTimeWindow(t) + Skew
  /\ ComputeTimeWindow(t) <= ComputeTimeWindow(tagTime) + Skew + 1

\* handshake_tag_precheck, repeated by validate_handshake_tag: the tag belongs
\* to a window at most Skew away from the server's.
HandshakeTagPrecheck(t, tagTime) ==
  /\ ComputeTimeWindow(tagTime) <= ComputeTimeWindow(t) + Skew
  /\ ComputeTimeWindow(t) <= ComputeTimeWindow(tagTime) + Skew

\* The tombstones that outlive the sweep at the head of claim_initial_keyspace.
Retained == {k \in Keyspaces : replays[k] # NoTombstone /\ now < replays[k]}

ReplayInit ==
  /\ now = 0
  /\ made \in [Keyspaces -> Times]
  /\ replays = [k \in Keyspaces |-> NoTombstone]
  /\ claimed = [k \in Keyspaces |-> {}]

Swept == [k \in Keyspaces |-> IF k \in Retained THEN replays[k] ELSE NoTombstone]

\* claim_initial_keyspace for a packet of keyspace k whose tag was made at
\* tagTime.  The check and the claim read the same clock.
ClaimInitialKeyspace(k, tagTime) ==
  /\ tagTime \in made[k] .. made[k] + Retry - 1
  /\ HandshakeTagPrecheck(now, tagTime)
  /\ k \notin Retained
  /\ Cardinality(Retained) < Capacity
  /\ replays' = [Swept EXCEPT ![k] = now + Ttl]
  /\ claimed' = [claimed EXCEPT ![k] = @ \cup {now}]
  /\ UNCHANGED <<now, made>>

\* A packet that is refused, as a replay or because the cache is full, still
\* sweeps the expired tombstones.
RefuseInitialKeyspace(k, tagTime) ==
  /\ tagTime \in made[k] .. made[k] + Retry - 1
  /\ HandshakeTagPrecheck(now, tagTime)
  /\ k \in Retained \/ Cardinality(Retained) >= Capacity
  /\ replays' = Swept
  /\ UNCHANGED <<now, made, claimed>>

Tick ==
  /\ now < Horizon
  /\ now' = now + 1
  /\ UNCHANGED <<made, replays, claimed>>

ReplayNext ==
  \/ Tick
  \/ \E k \in Keyspaces : \E g \in made[k] .. made[k] + Retry - 1 :
       ClaimInitialKeyspace(k, g) \/ RefuseInitialKeyspace(k, g)

ReplaySpec == ReplayInit /\ [][ReplayNext]_replayVars

-----------------------------------------------------------------------------
\* Type invariant.
ReplayTypeOK ==
  /\ now \in Times
  /\ made \in [Keyspaces -> Times]
  /\ replays \in [Keyspaces -> Nat \cup {NoTombstone}]
  /\ claimed \in [Keyspaces -> SUBSET Times]

\* However long its packets are delayed and however often they are repeated,
\* an initial keyspace opens at most one session: claim_initial_keyspace
\* forgets a tombstone only when no tag of that keyspace is accepted any more
\* (HANDSHAKE_REPLAY_TTL against HANDSHAKE_SKEW_WINDOWS).
KeyspaceOpensOnce ==
  \A k \in Keyspaces : \A t, u \in claimed[k] : t = u

=============================================================================
