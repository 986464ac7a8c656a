---------------------------- MODULE RecvWindow -----------------------------
(***************************************************************************)
(* The client's downlink receive window: struct RecvWindow and Bitset256 of *)
(* aivpn-common/src/client_wire.rs, driven by the downlink decoder.        *)
(*                                                                         *)
(* A u128 half of the bitmap is the set of its one bits, so that << and >> *)
(* are shifts that drop what leaves the half.  A tag is matched by trial:  *)
(* the decoder tries the counters of a search band, so a packet is          *)
(* represented by the counter its tag encodes.  Time windows, packet       *)
(* layouts and MDH lengths do not influence which counter is found and are *)
(* left out; AEAD succeeds exactly when the counter and key are right.     *)
(***************************************************************************)
EXTENDS Integers

CONSTANTS Half,            \* bits in half a bitmap: 128
          SearchUnsynced,  \* RECV_FUTURE_SEARCH_WINDOW: 1024
          SearchSynced,    \* RECV_FUTURE_SEARCH_SYNCED: 512
          Recovery,        \* RECV_RECOVERY_CANDIDATES / layouts
          MaxCounter       \* u64::MAX

ASSUME WindowAssumption ==
  /\ Half \in Nat \ {0}
  /\ MaxCounter \in Nat
  /\ SearchUnsynced \in Nat \ {0}
  /\ SearchSynced \in Nat
  /\ Recovery \in Nat \ {0}

VARIABLES highest,       \* highest accepted counter, NoCounter before the first
          bitmap,        \* Bitset256: bit i stands for counter highest - i
          hint,          \* authenticated_counter_hint
          budgetReady,   \* the last recovery attempt is older than the interval
          accepted       \* history: how often each counter was accepted
                         \* since the last reset

vars == <<highest, bitmap, hint, budgetReady, accepted>>

Counters == 0 .. MaxCounter
NoCounter == -1               \* Option::None; orders below every Some, as in Rust
Window == 2 * Half            \* RECV_REORDER_WINDOW
Bits == 0 .. Half - 1
Bitset == [lo : SUBSET Bits, hi : SUBSET Bits]
NoBits == [lo |-> {}, hi |-> {}]
NothingAccepted == [c \in Counters |-> 0]
Seen == {c \in Counters : accepted[c] > 0}

MaxOf(a, b) == IF a >= b THEN a ELSE b
SatAdd(a, b) == IF a + b <= MaxCounter THEN a + b ELSE MaxCounter
SatSub(a, b) == IF a >= b THEN a - b ELSE 0

-----------------------------------------------------------------------------
(* Bitset256 *)

\* u128 << n and u128 >> n, for n below the width.
ShiftUp(half, n)   == {i \in Bits : i - n \in half}
ShiftDown(half, n) == {i \in Bits : i + n \in half}

ShlMutantNoCarry(b, shift) ==
  IF shift >= Window THEN NoBits
  ELSE IF shift >= Half THEN [lo |-> {}, hi |-> ShiftUp(b.lo, shift - Half)]
  ELSE [lo |-> ShiftUp(b.lo, shift), hi |-> ShiftUp(b.hi, shift)]

Shl(b, shift) ==
  IF shift >= Window THEN NoBits
  ELSE IF shift = 0 THEN b
  ELSE IF shift >= Half
    THEN [lo |-> {}, hi |-> ShiftUp(b.lo, shift - Half)]
    ELSE [lo |-> ShiftUp(b.lo, shift),
          hi |-> ShiftUp(b.hi, shift) \cup ShiftDown(b.lo, Half - shift)]

SetBit(b, bit) ==
  IF bit < Half THEN [b EXCEPT !.lo = @ \cup {bit}]
  ELSE IF bit < Window THEN [b EXCEPT !.hi = @ \cup {bit - Half}]
  ELSE b

GetBit(b, bit) ==
  \/ bit < Half /\ bit \in b.lo
  \/ bit >= Half /\ bit < Window /\ bit - Half \in b.hi

-----------------------------------------------------------------------------
(* RecvWindow *)

IsNew(c) ==
  \/ highest = NoCounter
  \/ c > highest
  \/ highest - c < Window /\ ~GetBit(bitmap, highest - c)

\* The band of counters the decoder tries first.
SearchBand ==
  LET anchor == MaxOf(highest, hint) IN
  IF anchor = NoCounter THEN 0 .. SearchUnsynced - 1
  ELSE SatSub(anchor, Window - 1) .. SatAdd(anchor, SearchSynced)

BandEnd ==
  LET anchor == MaxOf(highest, hint) IN
  IF anchor = NoCounter THEN SearchUnsynced - 1 ELSE SatAdd(anchor, SearchSynced)

\* The wide band of a rare recovery attempt; empty before any anchor, and when
\* the search band already ends at u64::MAX.
RecoveryBand ==
  IF MaxOf(highest, hint) = NoCounter \/ BandEnd >= MaxCounter THEN {}
  ELSE BandEnd + 1 .. SatAdd(BandEnd + 1, Recovery - 1)

MarkMutantForgetsReordered(c) ==
  /\ IF c > highest
       THEN /\ bitmap' = SetBit(IF highest = NoCounter THEN NoBits
                                ELSE Shl(bitmap, c - highest), 0)
            /\ highest' = c
       ELSE UNCHANGED <<bitmap, highest>>
  /\ hint' = NoCounter
  /\ accepted' = [accepted EXCEPT ![c] = @ + 1]

Mark(c) ==
  /\ IF c > highest
       THEN LET shift == IF highest = NoCounter THEN Window ELSE c - highest IN
            /\ bitmap' = SetBit(IF shift >= Window THEN NoBits
                                ELSE Shl(bitmap, shift), 0)
            /\ highest' = c
       ELSE /\ bitmap' = IF highest - c < Window
                           THEN SetBit(bitmap, highest - c) ELSE bitmap
            /\ highest' = highest
  /\ hint' = NoCounter
  /\ accepted' = [accepted EXCEPT ![c] = @ + 1]

Init ==
  /\ highest = NoCounter
  /\ bitmap = NoBits
  /\ hint = NoCounter
  /\ budgetReady = TRUE
  /\ accepted = NothingAccepted

\* A packet found in the search band: decoded, then marked.
Decode(c) ==
  /\ c \in SearchBand /\ IsNew(c)
  /\ Mark(c)
  /\ UNCHANGED budgetReady

\* A packet the search band misses spends the recovery budget, found or not.
Recover(c) ==
  /\ ~(c \in SearchBand /\ IsNew(c))
  /\ RecoveryBand # {}
  /\ budgetReady
  /\ budgetReady' = FALSE
  /\ IF c \in RecoveryBand /\ IsNew(c)
       THEN Mark(c)
       ELSE UNCHANGED <<highest, bitmap, hint, accepted>>

\* RECV_RECOVERY_INTERVAL elapses.
RecoveryInterval ==
  /\ ~budgetReady
  /\ budgetReady' = TRUE
  /\ UNCHANGED <<highest, bitmap, hint, accepted>>

\* A packet of the previous key, authenticated while a rekey is staged, moves
\* the search anchor and nothing else.
ObserveAuthenticatedCounter(c) ==
  /\ hint' = MaxOf(hint, c)
  /\ UNCHANGED <<highest, bitmap, budgetReady, accepted>>

\* An inline rekey starts a fresh recovery budget.  The sender's counter is
\* monotonic across it, so the window and its history carry over.
BeginCounterRecoveryEpoch ==
  /\ budgetReady' = TRUE
  /\ UNCHANGED <<highest, bitmap, hint, accepted>>

\* The PFS ratchet restarts the counters at 0 under a new key.
Reset ==
  /\ highest' = NoCounter
  /\ bitmap' = NoBits
  /\ hint' = NoCounter
  /\ budgetReady' = TRUE
  /\ accepted' = NothingAccepted

Next ==
  \/ \E c \in Counters : Decode(c) \/ Recover(c) \/ ObserveAuthenticatedCounter(c)
  \/ RecoveryInterval
  \/ BeginCounterRecoveryEpoch
  \/ Reset

Spec == Init /\ [][Next]_vars

-----------------------------------------------------------------------------
\* Type invariant: no bit of the bitmap leaves its half (Bitset256::shl).
TypeOK ==
  /\ highest \in Counters \cup {NoCounter}
  /\ bitmap \in Bitset
  /\ hint \in Counters \cup {NoCounter}
  /\ budgetReady \in BOOLEAN
  /\ accepted \in [Counters -> Nat]

\* The bitmap answers is_new exactly as the full history of accepted counters
\* would: across shifts that cross the two u128 halves, jumps longer than the
\* window and the first packet, no accepted counter is forgotten inside the
\* window and no unseen one is taken for a replay (client_wire.rs, is_new/mark).
WindowFaithful ==
  \A c \in Counters :
    IsNew(c) <=> /\ c \notin Seen
                 /\ \A a \in Seen : a - c < Window

Abstract == INSTANCE SlidingWindow WITH deliveries <- accepted

\* The receive window implements the abstract anti-replay window: every
\* decode or recovery accepts a counter that the abstract window would accept,
\* and nothing but a reset forgets one.
ImplementsSlidingWindow == Abstract!Spec
=============================================================================
