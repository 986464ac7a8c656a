--------------------------- MODULE SessionUplink ---------------------------
(***************************************************************************)
(* One session of the server seen from its uplink: the tag windows, replay *)
(* history and key epochs of Session, the tag index of SessionManager      *)
(* (aivpn-server/src/session.rs), and the receive workers that run         *)
(* Gateway::handle_packet (gateway/packet_ingress.rs).  A worker takes the *)
(* session lock several times per packet, so the key may change, the tag   *)
(* window may move and the same packet may be accepted between any two of  *)
(* its steps.                                                              *)
(*                                                                         *)
(* Keys are numbered in the order the session adopts them: 0 the initial   *)
(* keys, 1 the PFS ratchet, 2, 3, ... the inline rekeys.  A packet is the  *)
(* pair of the key that seals it and its counter; its resonance tag        *)
(* identifies that pair, and AEAD succeeds exactly under that key.  The    *)
(* network may deliver a packet any number of times, in any order.  Tags   *)
(* also depend on a coarse time window: whether the index holds the tag of *)
(* a counter for the packet's time window is a choice.  The bitmap is the  *)
(* set of counters it marks (ReplayWindow shows the words do implement     *)
(* that set).                                                              *)
(***************************************************************************)
EXTENDS Integers

CONSTANTS Workers,        \* receive workers that may hold a packet of the session
          Packets,        \* the packets the client seals: <<key, counter>>
          MaxKey,         \* bound: the last key the model adopts
          TagWindow,      \* TAG_WINDOW_SIZE: 512
          Stride,         \* tag window refresh stride: 128
          Lookahead,      \* REKEY_TAG_LOOKAHEAD: 4096
          RecoveryRange   \* RECOVERY_RANGE: 2048

\* Counters start again at 0 with the PFS ratchet (key 1) and are monotonic
\* across inline rekeys: no counter is sealed under two of the later keys.
\* The stride is no longer than the window it refreshes.
ASSUME UplinkAssumption ==
  /\ MaxKey \in Nat \ {0} /\ TagWindow \in Nat \ {0} /\ Stride \in 1 .. TagWindow
  /\ Lookahead \in Nat /\ RecoveryRange \in Nat
  /\ Packets \subseteq Nat \X Nat
  /\ \A p, q \in Packets :
       p[1] > 0 /\ q[1] > 0 /\ p[2] = q[2] => p = q

VARIABLES sess,        \* the Session behind its mutex
          index,       \* SessionManager.tag_map, by TagEpoch
          sweep,       \* the rekey tick: "idle", or "reindex" before its refresh
          worker,      \* what each worker is doing
          delivered    \* history: how often each packet was delivered

uplinkVars == <<sess, index, sweep, worker, delivered>>

NoHint == -1
NoKey == -1
Counters == {p[2] : p \in Packets}
Nothing == [key |-> NoKey, lo |-> 0, hi |-> 0]
Covers(range, c) == range.lo <= c /\ c <= range.hi

MaxOf(a, b) == IF a >= b THEN a ELSE b
SatSub(a, b) == IF a >= b THEN a - b ELSE 0

-----------------------------------------------------------------------------
(* Session *)

IsRatcheted(s) == s.active > 0

TagSearchCenter(s) == MaxOf(s.counter, s.hint)

CounterIsFresh(s, c) ==
  c > s.counter \/ (s.counter - c < TagWindow /\ c \notin s.marked)

ClearConsumedTagHint(s) ==
  IF s.hint # NoHint /\ s.counter >= s.hint THEN [s EXCEPT !.hint = NoHint] ELSE s

MarkTagReceived(s, c) ==
  LET newest == MaxOf(s.counter, c)
  IN ClearConsumedTagHint(
       [s EXCEPT !.counter = newest,
                 !.marked = {m \in @ \cup {c} : newest - m < TagWindow}])

\* A packet of the previous key accepted in the grace window.  Where counters
\* are monotonic it also moves the search for the new key, not its replay.
MarkPreRatchetReceived(s, c) ==
  IF c \in s.grace.received THEN s
  ELSE LET r == [s EXCEPT !.grace.received = @ \cup {c}]
       IN IF ~s.grace.monotonic THEN r
          ELSE [r EXCEPT
                 !.grace.counter = MaxOf(@, c),
                 !.hint = IF c > s.counter THEN MaxOf(TagSearchCenter(s), c) ELSE @]

GraceAdvanced(s) ==
  /\ s.grace.monotonic /\ s.grace.live
  /\ SatSub(s.grace.counter, s.grace.base) >= Stride

\* While a rekey is pending the window reaches Lookahead further.
Ahead(s) == TagWindow - 1 + (IF s.pending THEN Lookahead ELSE 0)

SlideGrace(g) ==
  LET start == SatSub(g.counter, TagWindow - 1)
  IN [g EXCEPT !.lo = start,
               !.hi = g.counter + TagWindow - 1 + Lookahead,
               !.received = {c \in @ : c >= start},
               !.base = g.counter]

UpdateTagWindow(s) ==
  LET center == TagSearchCenter(s)
  IN [s EXCEPT !.base = center,
               !.lo = SatSub(center, TagWindow - 1),
               !.hi = center + Ahead(s),
               !.grace = IF GraceAdvanced(s) THEN SlideGrace(@) ELSE @]

NeedsRefresh(s) ==
  SatSub(TagSearchCenter(s), s.base) >= Stride \/ GraceAdvanced(s)

\* The outgoing key, its tags and its history stay for a grace period.
PreserveReplayForGrace(s, monotonic) ==
  [s EXCEPT !.grace =
     [key |-> s.active, lo |-> s.lo, hi |-> s.hi,
      received |-> {c \in Counters : Covers(s, c) /\ ~CounterIsFresh(s, c)},
      counter |-> s.counter, base |-> s.base,
      monotonic |-> monotonic, live |-> TRUE]]

CompleteRatchetMutantKeepsBitmap(s) ==
  IF IsRatcheted(s) THEN s
  ELSE [PreserveReplayForGrace(s, FALSE) EXCEPT
          !.active = 1, !.counter = 0, !.hint = NoHint,
          !.base = 0, !.lo = 0, !.hi = TagWindow - 1]

\* The ratcheted keys start their counters at 0 with an empty history.
CompleteRatchet(s) ==
  IF IsRatcheted(s) THEN s
  ELSE [PreserveReplayForGrace([s EXCEPT !.hint = NoHint], FALSE) EXCEPT
          !.active = 1, !.counter = 0, !.marked = {},
          !.base = 0, !.lo = 0, !.hi = TagWindow - 1]

\* Counters, bitmap and hint carry over: the client's counter is monotonic.
CommitSessionRekey(s) ==
  IF ~s.pending THEN s
  ELSE UpdateTagWindow([PreserveReplayForGrace(s, TRUE) EXCEPT
                          !.pending = FALSE, !.active = @ + 1])

\* The key a packet authenticates under in the claim step: the active one, the
\* previous one within its grace period, or none.
AuthenticatedCounterEpoch(s, key, c) ==
  IF key = s.active
    THEN IF CounterIsFresh(s, c) THEN "active" ELSE "none"
    ELSE IF /\ s.grace.live /\ key = s.grace.key
            /\ Covers(s.grace, c) /\ c \notin s.grace.received
      THEN "grace" ELSE "none"

\* The decrypt step: the ratcheted keys if the tag was one of theirs and they
\* are still pending, else the active keys, then the retained ones.
DecryptKeys(s, ratchetedTag) ==
  {IF ratchetedTag /\ ~IsRatcheted(s) THEN 1 ELSE s.active}
    \cup (IF s.grace.live THEN {s.grace.key} ELSE {})

-----------------------------------------------------------------------------
(* SessionManager *)

\* The ratcheted tags are always minted for the counters 0 .. TagWindow - 1.
RatchetedTags(s) ==
  IF IsRatcheted(s) THEN Nothing ELSE [key |-> 1, lo |-> 0, hi |-> TagWindow - 1]

ReindexSession(s) ==
  [active |-> [key |-> s.active, lo |-> s.lo, hi |-> s.hi],
   ratcheted |-> RatchetedTags(s),
   grace |-> IF s.grace.live
               THEN [key |-> s.grace.key, lo |-> s.grace.lo, hi |-> s.grace.hi]
               ELSE Nothing]

Indexed(epoch, p) == index[epoch].key = p[1] /\ Covers(index[epoch], p[2])

\* find_session_by_tag: the index proposes one counter and epoch, and the
\* session as it is now must agree.
FoundByTag(s, p, ratchetedTag) ==
  LET c == p[2] IN
  \/ /\ Indexed("active", p) /\ ~ratchetedTag
     /\ s.active = p[1]
     /\ CounterIsFresh(s, c) /\ c <= TagSearchCenter(s) + Ahead(s)
  \/ /\ Indexed("ratcheted", p) /\ ratchetedTag
     /\ ~IsRatcheted(s)
  \/ /\ Indexed("grace", p) /\ ~ratchetedTag
     /\ s.grace.live /\ s.grace.key = p[1]
     /\ Covers(s.grace, c) /\ c \notin s.grace.received

\* validate_tag, on a session whose window has just been rebuilt or not: the
\* precomputed tags, the neighbouring time windows, the grace tags and, before
\* the ratchet, the ratcheted tags.
ValidateTag(s, p, ratchetedTag) ==
  LET c == p[2] IN
  \/ /\ s.active = p[1] /\ ~ratchetedTag
     /\ \/ Covers(s, c)
        \/ Covers([lo |-> SatSub(TagSearchCenter(s), TagWindow - 1),
                   hi |-> TagSearchCenter(s) + Ahead(s)], c)
     /\ CounterIsFresh(s, c)
  \/ /\ s.grace.live /\ s.grace.key = p[1] /\ ~ratchetedTag
     /\ Covers(s.grace, c) /\ c \notin s.grace.received
  \/ /\ RatchetedTags(s).key = p[1] /\ ratchetedTag
     /\ Covers(RatchetedTags(s), c)

\* recover_session_by_tag: the search starts from a centre read under an
\* earlier lock, so a counter behind the present centre may also be found.
Recovered(s, p, ratchetedTag) ==
  /\ s.active = p[1] /\ ~ratchetedTag
  /\ p[2] <= TagSearchCenter(s) + RecoveryRange
  /\ CounterIsFresh(s, p[2])

-----------------------------------------------------------------------------
Idle == [pc |-> "idle", packet |-> <<0, 0>>, ratcheted |-> FALSE]

NewSession ==
  [active |-> 0, counter |-> 0, marked |-> {}, hint |-> NoHint,
   base |-> 0, lo |-> 0, hi |-> TagWindow - 1, pending |-> FALSE,
   grace |-> [key |-> NoKey, lo |-> 0, hi |-> 0, received |-> {}, counter |-> 0,
              base |-> 0, monotonic |-> FALSE, live |-> FALSE]]

UplinkInit ==
  /\ sess = NewSession
  /\ index = ReindexSession(NewSession)
  /\ sweep = "idle"
  /\ worker = [w \in Workers |-> Idle]
  /\ delivered = [p \in Packets |-> 0]

GoTo(w, pc) == worker' = [worker EXCEPT ![w].pc = pc]

\* A worker takes a packet off its queue and looks its tag up.  A miss in the
\* index may rebuild the tag window first, when the time window has advanced.
Lookup(w, p, ratchetedTag) ==
  /\ worker[w].pc = "idle"
  /\ worker' = [worker EXCEPT ![w] =
                  [pc |-> "decrypt", packet |-> p, ratcheted |-> ratchetedTag]]
  /\ \/ /\ FoundByTag(sess, p, ratchetedTag) \/ Recovered(sess, p, ratchetedTag)
        /\ UNCHANGED <<sess, index>>
     \/ /\ sess' \in {sess, UpdateTagWindow(sess)}
        /\ index' = IF sess' = sess THEN index ELSE ReindexSession(sess')
        /\ ValidateTag(sess', p, ratchetedTag)
  /\ UNCHANGED <<sweep, delivered>>

\* AEAD under the session lock; a packet no live key opens is dropped.
Decrypt(w) ==
  /\ worker[w].pc = "decrypt"
  /\ IF worker[w].packet[1] \in DecryptKeys(sess, worker[w].ratcheted)
       THEN GoTo(w, IF worker[w].ratcheted THEN "ratchet" ELSE "claim")
       ELSE worker' = [worker EXCEPT ![w] = Idle]
  /\ UNCHANGED <<sess, index, sweep, delivered>>

\* complete_session_ratchet: the client has proved it holds the ratcheted keys.
Ratchet(w) ==
  /\ worker[w].pc = "ratchet"
  /\ sess' = CompleteRatchet(sess)
  /\ index' = IF IsRatcheted(sess) THEN index ELSE ReindexSession(sess')
  /\ GoTo(w, "claim")
  /\ UNCHANGED <<sweep, delivered>>

ClaimMutantTrustsLookup(w) ==
  LET p == worker[w].packet IN
  /\ worker[w].pc = "claim"
  /\ sess' = IF p[1] = sess.active THEN MarkTagReceived(sess, p[2])
             ELSE MarkPreRatchetReceived(sess, p[2])
  /\ delivered' = [delivered EXCEPT ![p] = @ + 1]
  /\ GoTo(w, IF p[1] = 0 THEN "idle" ELSE "refresh")
  /\ UNCHANGED <<index, sweep>>

\* The epoch check, the replay claim and the mark are one critical section.
\* A packet of the initial keys is answered with ServerHello and goes no
\* further.
Claim(w) ==
  LET p == worker[w].packet
      epoch == AuthenticatedCounterEpoch(sess, p[1], p[2])
  IN
  /\ worker[w].pc = "claim"
  /\ IF epoch = "none"
       THEN /\ worker' = [worker EXCEPT ![w] = Idle]
            /\ UNCHANGED <<sess, delivered>>
       ELSE /\ sess' = IF epoch = "active" THEN MarkTagReceived(sess, p[2])
                       ELSE MarkPreRatchetReceived(sess, p[2])
            /\ delivered' = [delivered EXCEPT ![p] = @ + 1]
            /\ worker' = [worker EXCEPT ![w] =
                            IF p[1] = 0 THEN Idle ELSE [@ EXCEPT !.pc = "refresh"]]
  /\ UNCHANGED <<index, sweep>>

\* The second critical section of the handler.
RefreshTagWindowIfNeeded(w) ==
  /\ worker[w].pc = "refresh"
  /\ sess' = IF NeedsRefresh(sess) THEN UpdateTagWindow(sess) ELSE sess
  /\ GoTo(w, IF NeedsRefresh(sess) THEN "reindex" ELSE "process")
  /\ UNCHANGED <<index, sweep, delivered>>

RefreshSessionTags(w) ==
  /\ worker[w].pc = "reindex"
  /\ index' = ReindexSession(sess)
  /\ GoTo(w, "process")
  /\ UNCHANGED <<sess, sweep, delivered>>

\* The payload is data, or a KeyRotate response, which commits a pending rekey
\* and is ignored when none is pending.
Process(w) ==
  /\ worker[w].pc = "process"
  /\ worker' = [worker EXCEPT ![w] = Idle]
  /\ \/ UNCHANGED <<sess, index>>
     \/ /\ sess.pending
        /\ sess' = CommitSessionRekey(sess)
        /\ index' = ReindexSession(sess')
  /\ UNCHANGED <<sweep, delivered>>

\* The rekey tick marks the session and widens its window under the lock, and
\* publishes the wider window to the index in a second pass.
StartRekey ==
  /\ sweep = "idle"
  /\ IsRatcheted(sess) /\ ~sess.pending /\ sess.active < MaxKey
  /\ sess' = UpdateTagWindow([sess EXCEPT !.pending = TRUE])
  /\ sweep' = "reindex"
  /\ UNCHANGED <<index, worker, delivered>>

StartRekeyReindex ==
  /\ sweep = "reindex"
  /\ index' = ReindexSession(sess)
  /\ sweep' = "idle"
  /\ UNCHANGED <<sess, worker, delivered>>

\* rekey_retransmits_due after the last attempt.
GiveUpRekey ==
  /\ sess.pending
  /\ sess' = [sess EXCEPT !.pending = FALSE]
  /\ UNCHANGED <<index, sweep, worker, delivered>>

\* pre_ratchet_expire passes.
GraceExpires ==
  /\ sess.grace.live
  /\ sess' = [sess EXCEPT !.grace.live = FALSE]
  /\ UNCHANGED <<index, sweep, worker, delivered>>

UplinkNext ==
  \/ \E w \in Workers :
       \/ \E p \in Packets, ratchetedTag \in BOOLEAN : Lookup(w, p, ratchetedTag)
       \/ Decrypt(w) \/ Ratchet(w) \/ Claim(w)
       \/ RefreshTagWindowIfNeeded(w) \/ RefreshSessionTags(w) \/ Process(w)
  \/ StartRekey \/ StartRekeyReindex \/ GiveUpRekey \/ GraceExpires

UplinkSpec == UplinkInit /\ [][UplinkNext]_uplinkVars

-----------------------------------------------------------------------------
TagRange == [key : -1 .. MaxKey, lo : Nat, hi : Nat]

GraceRecord ==
  [key : -1 .. MaxKey, lo : Nat, hi : Nat, received : SUBSET Nat, counter : Nat,
   base : Nat, monotonic : BOOLEAN, live : BOOLEAN]

SessionRecord ==
  [active : 0 .. MaxKey, counter : Nat, marked : SUBSET Nat,
   hint : Nat \cup {NoHint}, base : Nat, lo : Nat, hi : Nat,
   pending : BOOLEAN, grace : GraceRecord]

WorkerRecord ==
  [pc : {"idle", "decrypt", "ratchet", "claim", "refresh", "reindex", "process"},
   packet : Packets \cup {<<0, 0>>}, ratcheted : BOOLEAN]

\* Type invariant of the session, the index and the workers: no window bound
\* or counter underflows (update_tag_window).
UplinkTypeOK ==
  /\ sess \in SessionRecord
  /\ index \in [active : TagRange, ratcheted : TagRange, grace : TagRange]
  /\ sweep \in {"idle", "reindex"}
  /\ worker \in [Workers -> WorkerRecord]
  /\ delivered \in [Packets -> Nat]

\* No packet is delivered twice, however often the network repeats it, across
\* the PFS ratchet, inline rekeys and their grace windows, and with several
\* workers between lookup and claim.
AtMostOnce == \A p \in Packets : delivered[p] <= 1

\* A packet of p's counter space was delivered at least a window ahead of it.
LeftBehind(p) ==
  \E q \in Packets : /\ delivered[q] > 0
                     /\ q[2] - p[2] >= TagWindow
                     /\ IF p[1] = 0 THEN q[1] = 0 ELSE q[1] \in 1 .. p[1]

\* What the session refuses as a replay, under the active key or the retained
\* one, really was delivered or has fallen out of the window: a key change
\* loses no packet in flight, because the history it carries over marks
\* nothing that was not received (preserve_replay_for_grace, update_tag_window).
RefusesOnlyReplays ==
  \A p \in Packets :
    (\/ p[1] = sess.active /\ ~CounterIsFresh(sess, p[2])
     \/ /\ sess.grace.live /\ p[1] = sess.grace.key
        /\ Covers(sess.grace, p[2]) /\ p[2] \in sess.grace.received)
    => delivered[p] > 0 \/ LeftBehind(p)

\* Once the workers that moved the window have passed their refresh, the tag
\* index holds the active key's tags from a window behind the search centre
\* to at least TagWindow - Stride ahead of it, and
\* Lookahead further while a rekey response is awaited: no blackout of the
\* fast path at a ratchet or rekey.
IndexFollowsSession ==
  (/\ IsRatcheted(sess) /\ sweep = "idle"
   /\ \A w \in Workers : worker[w].pc \notin {"refresh", "reindex"})
  => /\ index.active.key = sess.active
     /\ index.active.lo <= SatSub(TagSearchCenter(sess), TagWindow - 1)
     /\ index.active.hi >= TagSearchCenter(sess) + Ahead(sess) - (Stride - 1)

\* The receive path loses nothing it should deliver: the state is well formed,
\* what is refused was delivered or left behind, and the tag index follows the
\* session (preserve_replay_for_grace, update_tag_window, refresh_session_tags).
NothingLost == UplinkTypeOK /\ RefusesOnlyReplays /\ IndexFollowsSession
=============================================================================
