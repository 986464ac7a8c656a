--------------------------- MODULE SlidingWindow ---------------------------
(***************************************************************************)
(* What an anti-replay window promises, whatever its representation: under *)
(* one key a packet counter is accepted at most once, a counter that lags  *)
(* the newest accepted one by Window or more is never accepted, and every  *)
(* other counter still is.  The client's RecvWindow and the server's       *)
(* ReplayWindow are both shown to implement it.                            *)
(***************************************************************************)
EXTENDS Integers

CONSTANTS Counters,   \* the packet counters (u64)
          Window      \* how far back the window remembers

VARIABLE deliveries   \* how often each counter was accepted under this key

Seen == {c \in Counters : deliveries[c] > 0}

Init == deliveries = [c \in Counters |-> 0]

\* A counter that may still be accepted.
Fresh(c) == c \notin Seen /\ \A s \in Seen : s - c < Window

Accept(c) == Fresh(c) /\ deliveries' = [deliveries EXCEPT ![c] = @ + 1]

\* A new key starts a new, empty history.
NewKey == deliveries' = [c \in Counters |-> 0]

Next == (\E c \in Counters : Accept(c)) \/ NewKey

Spec == Init /\ [][Next]_deliveries
=============================================================================
