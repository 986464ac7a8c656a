--------------------------- MODULE ReplayWindow ----------------------------
(***************************************************************************)
(* The server's anti-replay window for one key: struct ReplayWindow and    *)
(* the counter bookkeeping of Session (aivpn-server/src/session.rs), next  *)
(* to the window the kernel accelerator keeps for the same key             *)
(* (platforms/linux-kernel/src/policy.h).  The kernel delivers some        *)
(* packets itself; every packet userspace delivers is claimed in the       *)
(* kernel window first; a periodic snapshot merges the kernel window into  *)
(* the local one.                                                          *)
(*                                                                         *)
(* A 64-bit word is the set of its one bits.  The module is about one key  *)
(* of one session; SessionUplink is about what happens when the key        *)
(* changes.                                                                *)
(***************************************************************************)
EXTENDS Integers

CONSTANTS WordBits,    \* bits in a word: 64
          Words,       \* REPLAY_WORDS: 8
          MaxCounter   \* u64::MAX

ASSUME WindowAssumption ==
  WordBits \in Nat \ {0} /\ Words \in Nat \ {0} /\ MaxCounter \in Nat

VARIABLES offload,    \* a kernel session is bound to this key
          counter,    \* Session.counter: the newest counter marked locally
          words,      \* Session.received_bitmap
          kHi,        \* aivpn_epoch_win.hi
          kWords,     \* aivpn_epoch_win.words
          accepted    \* history: how often each counter was delivered

windowVars == <<offload, counter, words, kHi, kWords, accepted>>

Counters == 0 .. MaxCounter
Window == WordBits * Words            \* TAG_WINDOW_SIZE = AIVPN_REPLAY_BITS
Bits == 0 .. Window - 1
WordIndex == 0 .. Words - 1
Word == SUBSET (0 .. WordBits - 1)
Bitmap == [WordIndex -> Word]
NoBits == [w \in WordIndex |-> {}]

MaxOf(a, b) == IF a >= b THEN a ELSE b

-----------------------------------------------------------------------------
(* ReplayWindow, session.rs *)

SetBit(bm, bit) ==
  IF bit >= Window THEN bm
  ELSE [bm EXCEPT ![bit \div WordBits] = @ \cup {bit % WordBits}]

GetBit(bm, bit) == bit < Window /\ bit % WordBits \in bm[bit \div WordBits]

\* u64 << n and u64 >> n, for n below the width.
WordShl(w, n) == {b \in 0 .. WordBits - 1 : b - n \in w}
WordShr(w, n) == {b \in 0 .. WordBits - 1 : b + n \in w}

\* The loops run from the oldest word down, so every word read is still old.
ShiftLeft(bm, shift) ==
  IF shift = 0 THEN bm
  ELSE IF shift >= Window THEN NoBits
  ELSE LET wordShift == shift \div WordBits
           bitShift == shift % WordBits
       IN [i \in WordIndex |->
             IF i < wordShift THEN {}
             ELSE IF bitShift = 0 THEN bm[i - wordShift]
             ELSE WordShl(bm[i - wordShift], bitShift)
                  \cup (IF i > wordShift
                          THEN WordShr(bm[i - wordShift - 1], WordBits - bitShift)
                          ELSE {})]

CounterIsFresh(c) ==
  IF c > counter THEN TRUE
  ELSE counter - c < Window /\ ~GetBit(words, counter - c)

MarkTagReceived(c) ==
  IF c > counter
    THEN /\ words' = SetBit(ShiftLeft(words, c - counter), 0)
         /\ counter' = c
    ELSE /\ words' = IF counter - c < Window
                       THEN SetBit(words, counter - c) ELSE words
         /\ counter' = counter

-----------------------------------------------------------------------------
(* policy.h, and merge_replay_window of kernel_accel.rs *)

\* The bitmap whose one bits are the positions in B.
Pack(B) ==
  [w \in WordIndex |-> {b \in 0 .. WordBits - 1 : w * WordBits + b \in B}]

Marked(hi, bm, c) ==
  /\ c <= hi
  /\ hi - c < Window
  /\ (hi - c) % WordBits \in bm[(hi - c) \div WordBits]

ReplayObserve(c) ==
  CASE c > kHi                 -> "ok"
    [] kHi - c >= Window       -> "too_old"
    [] Marked(kHi, kWords, c)  -> "dup"
    [] OTHER                   -> "ok"

ReplaySetMutantLosesHistory(c) ==
  IF c > kHi
    THEN /\ kWords' = SetBit(NoBits, 0)
         /\ kHi' = c
    ELSE /\ kWords' = IF kHi - c < Window THEN SetBit(kWords, kHi - c) ELSE kWords
         /\ kHi' = kHi

\* The C code rebuilds the bitmap bit by bit where the Rust code shifts words;
\* for j > kHi its kHi - j wraps past kHi and counts as unmarked.
ReplaySet(c) ==
  IF c > kHi
    THEN LET diff == c - kHi
             moved == IF diff >= Window THEN {}
                      ELSE {i + diff : i \in {j \in Bits :
                              /\ j + diff < Window /\ j <= kHi
                              /\ Marked(kHi, kWords, kHi - j)}}
         IN /\ kWords' = SetBit(Pack(moved), 0)
            /\ kHi' = c
    ELSE /\ kWords' = IF kHi - c < Window THEN SetBit(kWords, kHi - c) ELSE kWords
         /\ kHi' = kHi

Merged(hi, bm, otherHi, other) ==
  LET newHi == MaxOf(hi, otherHi)
  IN Pack({i \in Bits : /\ i <= newHi
                        /\ \/ Marked(hi, bm, newHi - i)
                           \/ Marked(otherHi, other, newHi - i)})

-----------------------------------------------------------------------------
Deliver(c) == accepted' = [accepted EXCEPT ![c] = @ + 1]

WindowInit ==
  /\ offload \in BOOLEAN
  /\ counter = 0 /\ words = NoBits
  /\ kHi = 0 /\ kWords = NoBits
  /\ accepted = [c \in Counters |-> 0]

\* A packet of this key authenticated in userspace: the claim and the mark are
\* under one session lock.  A packet the local window rejects goes no further.
UserDeliver(c) ==
  /\ CounterIsFresh(c)
  /\ offload => ReplayObserve(c) = "ok"
  /\ IF offload THEN ReplaySet(c) ELSE UNCHANGED <<kHi, kWords>>
  /\ MarkTagReceived(c)
  /\ Deliver(c)
  /\ UNCHANGED offload

\* The kernel refuses the claim.  kernel_note_rejected leaves a counter ahead
\* of the local window unmarked.
UserRejected(c) ==
  /\ offload /\ CounterIsFresh(c) /\ ReplayObserve(c) # "ok"
  /\ IF c > counter THEN UNCHANGED <<counter, words>> ELSE MarkTagReceived(c)
  /\ UNCHANGED <<offload, kHi, kWords, accepted>>

\* The kernel RX path decrypts and delivers a packet: aivpn_session_rx_finish.
KernelDeliver(c) ==
  /\ offload
  /\ ReplayObserve(c) = "ok"
  /\ ReplaySet(c)
  /\ Deliver(c)
  /\ UNCHANGED <<offload, counter, words>>

\* harvest_kernel_counters: a snapshot of the kernel window is merged.
Harvest ==
  /\ offload
  /\ words' = Merged(counter, words, kHi, kWords)
  /\ counter' = MaxOf(counter, kHi)
  /\ UNCHANGED <<offload, kHi, kWords, accepted>>

WindowNext ==
  \/ \E c \in Counters : UserDeliver(c) \/ UserRejected(c) \/ KernelDeliver(c)
  \/ Harvest

WindowSpec == WindowInit /\ [][WindowNext]_windowVars

-----------------------------------------------------------------------------
\* Type invariant: no bit of either bitmap leaves its word (set_bit, shift_left,
\* aivpn_replay_set).
WindowTypeOK ==
  /\ offload \in BOOLEAN
  /\ counter \in Counters /\ words \in Bitmap
  /\ kHi \in Counters /\ kWords \in Bitmap
  /\ accepted \in [Counters -> Nat]

Abstract == INSTANCE SlidingWindow WITH deliveries <- accepted

\* Seen as one receiver, the two data paths implement the abstract
\* anti-replay window: no counter is delivered twice, whichever path took it
\* first and whether or not a snapshot was merged in between, and every
\* delivered counter was inside the window of the newest delivery.
ImplementsSlidingWindow == Abstract!Spec

\* The local window is a cache of the shared one: merging snapshots, shifting
\* words and recording refusals never makes userspace refuse a counter that
\* nobody has delivered and the window still covers (counter_is_fresh,
\* kernel_note_rejected, absorb_shared_replay).
LocalNeverStricter ==
  \A c \in Counters :
    ~CounterIsFresh(c) =>
      \/ accepted[c] > 0
      \/ \E a \in Counters : accepted[a] > 0 /\ a - c >= Window

\* A session's replay window, with the kernel's window for the same key,
\* implements the abstract one, and the local copy refuses nothing the abstract
\* window would still accept (mark_tag_received, kernel_note_rejected,
\* absorb_shared_replay).
WindowsAgree == []LocalNeverStricter /\ ImplementsSlidingWindow
=============================================================================
