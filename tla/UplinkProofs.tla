---------------------------- MODULE UplinkProofs ----------------------------
(***************************************************************************)
(* Proofs about SessionUplink, for any number of workers, packets and keys *)
(* and any sizes of the windows: what a session refuses was delivered or   *)
(* has fallen out of the window, the tag index follows the session, and no *)
(* packet is delivered twice as long as no rekey is committed while a      *)
(* worker stands between its claim and its refresh of the tag window.      *)
(***************************************************************************)
EXTENDS SessionUplink, TLAPS

-----------------------------------------------------------------------------
(* The inductive invariant. *)

\* The grace window belongs to an earlier key and starts a tag window behind
\* its base; it slides only for a ratcheted key.  A rekey is pending only
\* between two ratcheted keys.
GraceOK(s) ==
  /\ s.grace.key < s.active
  /\ s.grace.lo = SatSub(s.grace.base, TagWindow - 1)
  /\ s.grace.key = 0 => ~s.grace.monotonic
  /\ s.pending => 0 < s.active /\ s.active < MaxKey

\* The active window starts a tag window behind its base, reaches as far ahead
\* as it should, and does not outrun the search centre.
WindowOK(s) ==
  /\ GraceOK(s)
  /\ s.lo = SatSub(s.base, TagWindow - 1)
  /\ s.hi >= s.base + Ahead(s)
  /\ s.base <= TagSearchCenter(s)

\* The session accepts p under no key it holds or will hold.  A counter beyond
\* a grace window is refused for good only if that window does not slide.
Spent(s, p) ==
  /\ p[1] <= s.active
  /\ p[1] = s.active => ~CounterIsFresh(s, p[2])
  /\ p[1] = s.grace.key => \/ p[2] \in s.grace.received
                           \/ p[2] < s.grace.lo
                           \/ ~s.grace.monotonic /\ p[2] > s.grace.hi

\* Keys that share a counter space with k.
Shares(j, k) == IF k = 0 THEN j = 0 ELSE j \in 1 .. k

\* A packet with counter c was delivered in the counter space of key k.
Seen(d, c, k) == \E q \in Packets : d[q] > 0 /\ q[2] = c /\ Shares(q[1], k)

\* What the bitmap marks, and the newest counter, were delivered; what the
\* grace history holds was delivered or left behind.
MarksSeen(s, d) ==
  /\ \A c \in s.marked : Seen(d, c, s.active)
  /\ s.counter > 0 => Seen(d, s.counter, s.active)

Behind(d, p) ==
  \E q \in Packets : d[q] > 0 /\ q[2] - p[2] >= TagWindow /\ Shares(q[1], p[1])

GraceSeen(s, d) ==
  \A p \in Packets : p[1] = s.grace.key /\ p[2] \in s.grace.received
                     => d[p] > 0 \/ Behind(d, p)

\* Only a worker that has claimed a packet and not refreshed the window yet
\* lets the search centre run a stride ahead of it.
Refreshed ==
  IsRatcheted(sess) /\ (\A w \in Workers : worker[w].pc # "refresh")
    => TagSearchCenter(sess) < sess.base + Stride

\* Only a worker that has refreshed the window and not the index, or the rekey
\* tick between its two passes, leaves the index behind the window.
Published ==
  IsRatcheted(sess) /\ sweep = "idle" /\ (\A w \in Workers : worker[w].pc # "reindex")
    => index.active = [key |-> sess.active, lo |-> sess.lo, hi |-> sess.hi]

Holding == \A w \in Workers : worker[w].pc # "idle" => worker[w].packet \in Packets

UplinkInv ==
  /\ UplinkTypeOK /\ Holding
  /\ WindowOK(sess) /\ Refreshed /\ Published
  /\ MarksSeen(sess, delivered) /\ GraceSeen(sess, delivered)

\* What was delivered was delivered once and is spent.
DeliveredSpent ==
  \A p \in Packets : delivered[p] <= 1 /\ (delivered[p] > 0 => Spent(sess, p))

-----------------------------------------------------------------------------
(* What the operations of a session do to its fields. *)

\* The saturating subtraction is a natural number, and monotonic.
LEMMA SatSubNat ==
  ASSUME NEW a \in Nat, NEW b \in Nat, NEW n \in Nat
  PROVE  /\ SatSub(a, n) \in Nat
         /\ a <= b => SatSub(a, n) <= SatSub(b, n)
         /\ SatSub(a, n) <= a
BY DEF SatSub

\* The search centre is a counter, at or ahead of the newest one received.
LEMMA CenterNat ==
  ASSUME NEW s \in SessionRecord
  PROVE  TagSearchCenter(s) \in Nat /\ TagSearchCenter(s) >= s.counter
BY DEF TagSearchCenter, MaxOf, SessionRecord, NoHint

\* update_tag_window on the active window.
LEMMA UpdateFields ==
  ASSUME NEW s \in SessionRecord
  PROVE  LET t == UpdateTagWindow(s) IN
         /\ t.active = s.active /\ t.counter = s.counter /\ t.marked = s.marked
         /\ t.hint = s.hint /\ t.pending = s.pending
         /\ t.base = TagSearchCenter(s)
         /\ t.lo = SatSub(TagSearchCenter(s), TagWindow - 1)
         /\ t.hi = TagSearchCenter(s) + Ahead(s)
         /\ t.grace = IF GraceAdvanced(s) THEN SlideGrace(s.grace) ELSE s.grace
BY DEF UpdateTagWindow, SessionRecord

\* update_tag_window on the window of the previous key.
LEMMA SlideFields ==
  ASSUME NEW g \in GraceRecord
  PROVE  LET h == SlideGrace(g) IN
         /\ h.key = g.key /\ h.counter = g.counter
         /\ h.monotonic = g.monotonic /\ h.live = g.live
         /\ h.lo = SatSub(g.counter, TagWindow - 1)
         /\ h.received = {c \in g.received : c >= h.lo}
         /\ h.base = g.counter
BY DEF SlideGrace, GraceRecord

LEMMA SlideType ==
  ASSUME NEW g \in GraceRecord
  PROVE  SlideGrace(g) \in GraceRecord
<1>1. /\ TagWindow - 1 \in Nat /\ Lookahead \in Nat /\ g.counter \in Nat
      /\ g.received \in SUBSET Nat
  BY UplinkAssumption DEF GraceRecord
<1>2. SatSub(g.counter, TagWindow - 1) \in Nat
  BY <1>1, SatSubNat, Zenon
<1>3. g.counter + TagWindow - 1 + Lookahead \in Nat
  BY <1>1, UplinkAssumption
<1>4. {c \in g.received : c >= SatSub(g.counter, TagWindow - 1)} \in SUBSET Nat
  BY <1>1
<1> QED  BY <1>1, <1>2, <1>3, <1>4, Zenon DEF SlideGrace, GraceRecord

LEMMA UpdateType ==
  ASSUME NEW s \in SessionRecord
  PROVE  UpdateTagWindow(s) \in SessionRecord
<1>1. /\ TagSearchCenter(s) \in Nat
      /\ TagWindow - 1 \in Nat
      /\ Ahead(s) \in Nat
  BY CenterNat, UplinkAssumption DEF Ahead
<1>2. SatSub(TagSearchCenter(s), TagWindow - 1) \in Nat
  BY <1>1, SatSubNat
<1>3. (IF GraceAdvanced(s) THEN SlideGrace(s.grace) ELSE s.grace) \in GraceRecord
  BY SlideType DEF SessionRecord
<1>4. TagSearchCenter(s) + Ahead(s) \in Nat
  BY <1>1
<1> QED  BY <1>1, <1>2, <1>3, <1>4, Zenon DEF UpdateTagWindow, SessionRecord

\* mark_tag_received moves the newest counter and the bitmap.
LEMMA MarkFields ==
  ASSUME NEW s \in SessionRecord, NEW c \in Nat
  PROVE  LET t == MarkTagReceived(s, c) IN
         /\ t.active = s.active /\ t.counter = MaxOf(s.counter, c)
         /\ t.marked = {m \in s.marked \cup {c} : t.counter - m < TagWindow}
         /\ t.base = s.base /\ t.lo = s.lo /\ t.hi = s.hi
         /\ t.pending = s.pending /\ t.grace = s.grace
         /\ t.hint = IF s.hint # NoHint /\ t.counter >= s.hint THEN NoHint ELSE s.hint
BY DEF MarkTagReceived, ClearConsumedTagHint, SessionRecord

LEMMA MarkType ==
  ASSUME NEW s \in SessionRecord, NEW c \in Nat
  PROVE  MarkTagReceived(s, c) \in SessionRecord
<1>1. MaxOf(s.counter, c) \in Nat
  BY DEF MaxOf, SessionRecord
<1>2. {m \in s.marked \cup {c} : MaxOf(s.counter, c) - m < TagWindow} \in SUBSET Nat
  BY DEF SessionRecord
<1> QED  BY <1>1, <1>2, Zenon DEF MarkTagReceived, ClearConsumedTagHint, SessionRecord

\* mark_pre_ratchet_received moves the history of the previous key and, where
\* counters are monotonic, the hint.
LEMMA MarkGraceFields ==
  ASSUME NEW s \in SessionRecord, NEW c \in Nat
  PROVE  LET t == MarkPreRatchetReceived(s, c) IN
         /\ t.active = s.active /\ t.counter = s.counter /\ t.marked = s.marked
         /\ t.base = s.base /\ t.lo = s.lo /\ t.hi = s.hi /\ t.pending = s.pending
         /\ t.grace.key = s.grace.key /\ t.grace.lo = s.grace.lo
         /\ t.grace.hi = s.grace.hi /\ t.grace.base = s.grace.base
         /\ t.grace.monotonic = s.grace.monotonic
         /\ t.grace.received = s.grace.received \cup {c}
         /\ \/ t.hint = s.hint
            \/ s.grace.monotonic /\ c > s.counter
               /\ t.hint = MaxOf(TagSearchCenter(s), c)
BY DEF MarkPreRatchetReceived, SessionRecord, GraceRecord

LEMMA MarkGraceType ==
  ASSUME NEW s \in SessionRecord, NEW c \in Nat
  PROVE  MarkPreRatchetReceived(s, c) \in SessionRecord
<1>1. TagSearchCenter(s) \in Nat
  BY CenterNat
<1>2. /\ MaxOf(TagSearchCenter(s), c) \in Nat
      /\ MaxOf(s.grace.counter, c) \in Nat
  BY <1>1 DEF MaxOf, SessionRecord, GraceRecord
<1>3. s.grace.received \cup {c} \in SUBSET Nat
  BY DEF SessionRecord, GraceRecord
<1> QED
  BY <1>2, <1>3, Zenon DEF MarkPreRatchetReceived, SessionRecord, GraceRecord

-----------------------------------------------------------------------------
(* The operations keep the windows in shape. *)

LEMMA UpdateWindow ==
  ASSUME NEW s \in SessionRecord, GraceOK(s)
  PROVE  WindowOK(UpdateTagWindow(s))
<1> DEFINE t == UpdateTagWindow(s)
<1>1. /\ t.active = s.active /\ t.pending = s.pending
      /\ t.base = TagSearchCenter(s)
      /\ t.lo = SatSub(t.base, TagWindow - 1)
      /\ t.hi = t.base + Ahead(s)
      /\ TagSearchCenter(t) = TagSearchCenter(s)
  BY UpdateFields DEF TagSearchCenter
<1>2. /\ t.grace.key = s.grace.key /\ t.grace.monotonic = s.grace.monotonic
      /\ t.grace.lo = SatSub(t.grace.base, TagWindow - 1)
  <2>1. s.grace \in GraceRecord
    BY DEF SessionRecord
  <2>2. CASE GraceAdvanced(s)
    <3>1. t.grace = SlideGrace(s.grace)
      BY <2>2, UpdateFields
    <3> QED  BY <2>1, <3>1, SlideFields
  <2>3. CASE ~GraceAdvanced(s)
    <3>1. t.grace = s.grace
      BY <2>3, UpdateFields
    <3> QED  BY <3>1 DEF WindowOK, GraceOK
  <2> QED  BY <2>2, <2>3
<1>3. Ahead(t) = Ahead(s) /\ Ahead(s) \in Nat
  BY <1>1, UplinkAssumption DEF Ahead
<1>4. TagSearchCenter(s) \in Nat
  BY CenterNat
<1> HIDE DEF t
<1>5. WindowOK(t)
  BY <1>1, <1>2, <1>3, <1>4 DEF WindowOK, GraceOK
<1> QED  BY <1>5 DEF t

LEMMA MarkWindow ==
  ASSUME NEW s \in SessionRecord, NEW c \in Nat, WindowOK(s)
  PROVE  /\ WindowOK(MarkTagReceived(s, c))
         /\ TagSearchCenter(MarkTagReceived(s, c)) >= TagSearchCenter(s)
<1> DEFINE t == MarkTagReceived(s, c)
<1>1. /\ t.active = s.active /\ t.counter = MaxOf(s.counter, c)
      /\ t.base = s.base /\ t.lo = s.lo /\ t.hi = s.hi
      /\ t.pending = s.pending /\ t.grace = s.grace
      /\ t.hint = IF s.hint # NoHint /\ t.counter >= s.hint THEN NoHint ELSE s.hint
  BY MarkFields
<1>2. Ahead(t) = Ahead(s)
  BY <1>1 DEF Ahead
<1> HIDE DEF t
<1>3. TagSearchCenter(t) >= TagSearchCenter(s) /\ TagSearchCenter(t) \in Int
  BY <1>1 DEF TagSearchCenter, MaxOf, SessionRecord, NoHint
<1>4. s.base <= TagSearchCenter(t)
  BY <1>3, CenterNat DEF WindowOK, GraceOK, SessionRecord
<1>5. WindowOK(t)
  BY <1>1, <1>2, <1>4 DEF WindowOK, GraceOK
<1> QED  BY <1>3, <1>5 DEF t

LEMMA MarkGraceWindow ==
  ASSUME NEW s \in SessionRecord, NEW c \in Nat, WindowOK(s)
  PROVE  WindowOK(MarkPreRatchetReceived(s, c))
<1> DEFINE t == MarkPreRatchetReceived(s, c)
<1>1. /\ t.active = s.active /\ t.counter = s.counter /\ t.pending = s.pending
      /\ t.base = s.base /\ t.lo = s.lo /\ t.hi = s.hi
      /\ t.grace.key = s.grace.key /\ t.grace.lo = s.grace.lo
      /\ t.grace.base = s.grace.base /\ t.grace.monotonic = s.grace.monotonic
      /\ \/ t.hint = s.hint
         \/ s.grace.monotonic /\ c > s.counter
            /\ t.hint = MaxOf(TagSearchCenter(s), c)
  BY MarkGraceFields
<1>2. Ahead(t) = Ahead(s)
  BY <1>1 DEF Ahead
<1>3. TagSearchCenter(s) \in Nat
  BY CenterNat
<1> HIDE DEF t
<1>4. TagSearchCenter(t) >= TagSearchCenter(s) /\ TagSearchCenter(t) \in Int
  <2>1. CASE t.hint = s.hint
    BY <1>1, <1>3, <2>1 DEF TagSearchCenter
  <2>2. CASE t.hint = MaxOf(TagSearchCenter(s), c)
    <3>1. MaxOf(TagSearchCenter(s), c) >= TagSearchCenter(s)
      BY <1>3 DEF MaxOf
    <3> QED  BY <1>1, <1>3, <2>2, <3>1 DEF TagSearchCenter, MaxOf, SessionRecord
  <2> QED  BY <1>1, <2>1, <2>2
<1>5. s.base <= TagSearchCenter(t)
  BY <1>3, <1>4 DEF WindowOK, GraceOK, SessionRecord
<1>6. WindowOK(t)
  BY <1>1, <1>2, <1>5 DEF WindowOK, GraceOK
<1> QED  BY <1>6 DEF t

-----------------------------------------------------------------------------
(* The two key changes. *)

\* The grace state the outgoing key of s leaves behind.
GraceOf(s, monotonic) ==
  [key |-> s.active, lo |-> s.lo, hi |-> s.hi,
   received |-> {c \in Counters : Covers(s, c) /\ ~CounterIsFresh(s, c)},
   counter |-> s.counter, base |-> s.base,
   monotonic |-> monotonic, live |-> TRUE]

LEMMA CountersNat == Counters \subseteq Nat /\ \A p \in Packets : p[2] \in Counters
BY UplinkAssumption DEF Counters

LEMMA GraceOfType ==
  ASSUME NEW s \in SessionRecord, NEW m \in BOOLEAN
  PROVE  GraceOf(s, m) \in GraceRecord
<1>1. {c \in Counters : Covers(s, c) /\ ~CounterIsFresh(s, c)} \in SUBSET Nat
  BY CountersNat, Zenon
<1>2. s.active \in -1 .. MaxKey
  BY UplinkAssumption DEF SessionRecord
<1> QED  BY <1>1, <1>2 DEF GraceOf, GraceRecord, SessionRecord

\* complete_ratchet on a session that is not ratcheted yet.
LEMMA RatchetFields ==
  ASSUME NEW s \in SessionRecord, ~IsRatcheted(s)
  PROVE  LET t == CompleteRatchet(s) IN
         /\ t.active = 1 /\ t.counter = 0 /\ t.marked = {} /\ t.hint = NoHint
         /\ t.base = 0 /\ t.lo = 0 /\ t.hi = TagWindow - 1
         /\ t.pending = s.pending /\ t.grace = GraceOf(s, FALSE)
<1> DEFINE r == [s EXCEPT !.hint = NoHint]
           u == PreserveReplayForGrace(r, FALSE)
<1>1. /\ r.active = s.active /\ r.counter = s.counter /\ r.marked = s.marked
      /\ r.base = s.base /\ r.lo = s.lo /\ r.hi = s.hi
      /\ r.pending = s.pending /\ r.hint = NoHint /\ r \in SessionRecord
  BY DEF SessionRecord
<1>2. \A c \in Counters : /\ Covers(r, c) <=> Covers(s, c)
                          /\ CounterIsFresh(r, c) <=> CounterIsFresh(s, c)
  BY <1>1 DEF Covers, CounterIsFresh
<1>3. CompleteRatchet(s) =
        [u EXCEPT !.active = 1, !.counter = 0, !.marked = {},
                  !.base = 0, !.lo = 0, !.hi = TagWindow - 1]
  BY DEF CompleteRatchet
<1> HIDE DEF r
<1>4. u = [r EXCEPT !.grace = GraceOf(r, FALSE)]
  BY DEF PreserveReplayForGrace, GraceOf
<1>5. GraceOf(r, FALSE) = GraceOf(s, FALSE)
  <2>1. {c \in Counters : Covers(r, c) /\ ~CounterIsFresh(r, c)}
          = {c \in Counters : Covers(s, c) /\ ~CounterIsFresh(s, c)}
    BY <1>2
  <2> QED  BY <1>1, <2>1, Zenon DEF GraceOf
<1>6. GraceOf(s, FALSE) \in GraceRecord
  BY GraceOfType, Zenon
<1>7. /\ u \in SessionRecord /\ u.hint = NoHint
      /\ u.pending = s.pending /\ u.grace = GraceOf(s, FALSE)
  BY <1>1, <1>4, <1>5, <1>6, ZenonT(60) DEF SessionRecord
<1> HIDE DEF u
<1> QED  BY <1>3, <1>7, Zenon DEF SessionRecord

LEMMA RatchetType ==
  ASSUME NEW s \in SessionRecord
  PROVE  CompleteRatchet(s) \in SessionRecord
<1>1. CASE IsRatcheted(s)
  BY <1>1 DEF CompleteRatchet
<1>2. CASE ~IsRatcheted(s)
  <2> DEFINE r == [s EXCEPT !.hint = NoHint]
             u == PreserveReplayForGrace(r, FALSE)
  <2>1. r \in SessionRecord
    BY DEF SessionRecord
  <2>2. CompleteRatchet(s) =
          [u EXCEPT !.active = 1, !.counter = 0, !.marked = {},
                    !.base = 0, !.lo = 0, !.hi = TagWindow - 1]
    BY <1>2 DEF CompleteRatchet
  <2> HIDE DEF r
  <2>3. u = [r EXCEPT !.grace = GraceOf(r, FALSE)]
    BY DEF PreserveReplayForGrace, GraceOf
  <2>4. u \in SessionRecord
    BY <2>1, <2>3, GraceOfType, Zenon DEF SessionRecord
  <2> HIDE DEF u
  <2>5. 1 \in 0 .. MaxKey /\ TagWindow - 1 \in Nat
    BY UplinkAssumption
  <2>6. [u EXCEPT !.active = 1, !.counter = 0, !.marked = {}] \in SessionRecord
    BY <2>4, <2>5, Zenon DEF SessionRecord
  <2> QED  BY <2>2, <2>5, <2>6, ZenonT(60) DEF SessionRecord
<1> QED  BY <1>1, <1>2

LEMMA RatchetWindow ==
  ASSUME NEW s \in SessionRecord, WindowOK(s), ~IsRatcheted(s)
  PROVE  /\ WindowOK(CompleteRatchet(s))
         /\ TagSearchCenter(CompleteRatchet(s)) = 0
<1> DEFINE t == CompleteRatchet(s)
<1>1. /\ t.active = 1 /\ t.counter = 0 /\ t.hint = NoHint
      /\ t.base = 0 /\ t.lo = 0 /\ t.hi = TagWindow - 1
      /\ t.pending = s.pending
  BY RatchetFields, Zenon
<1>2. /\ t.grace.key = s.active /\ t.grace.lo = s.lo /\ t.grace.base = s.base
      /\ ~t.grace.monotonic
  <2>1. t.grace = GraceOf(s, FALSE)
    BY RatchetFields, Zenon
  <2> QED  BY <2>1 DEF GraceOf
<1>3. s.active = 0 /\ ~s.pending
  BY DEF IsRatcheted, WindowOK, GraceOK, SessionRecord
<1> HIDE DEF t
<1>4. TagSearchCenter(t) = 0
  BY <1>1 DEF TagSearchCenter, MaxOf, NoHint
<1>5. Ahead(t) = TagWindow - 1
  BY <1>1, <1>3, UplinkAssumption DEF Ahead
<1>6. SatSub(0, TagWindow - 1) = 0
  BY UplinkAssumption DEF SatSub
<1>7. ~t.pending /\ ~t.grace.monotonic
  BY <1>1, <1>2, <1>3, Zenon
<1>8. /\ t.grace.key < t.active
      /\ t.lo = SatSub(t.base, TagWindow - 1)
      /\ t.hi >= t.base + Ahead(t)
      /\ t.base <= TagSearchCenter(t)
  BY <1>1, <1>2, <1>3, <1>4, <1>5, <1>6, UplinkAssumption
<1>9. t.grace.lo = SatSub(t.grace.base, TagWindow - 1)
  BY <1>2 DEF WindowOK, GraceOK
<1>10. WindowOK(t)
  BY <1>7, <1>8, <1>9, Zenon DEF WindowOK, GraceOK
<1> QED  BY <1>4, <1>10 DEF t

\* The session of a commit before its window is rebuilt.
Adopted(s) == [PreserveReplayForGrace(s, TRUE) EXCEPT
                 !.pending = FALSE, !.active = @ + 1]

LEMMA AdoptedFields ==
  ASSUME NEW s \in SessionRecord
  PROVE  LET t == Adopted(s) IN
         /\ t.active = s.active + 1 /\ t.counter = s.counter /\ t.marked = s.marked
         /\ t.hint = s.hint /\ t.base = s.base /\ t.lo = s.lo /\ t.hi = s.hi
         /\ ~t.pending /\ t.grace = GraceOf(s, TRUE)
         /\ TagSearchCenter(t) = TagSearchCenter(s)
<1> DEFINE u == PreserveReplayForGrace(s, TRUE)
<1>1. u = [s EXCEPT !.grace = GraceOf(s, TRUE)]
  BY DEF PreserveReplayForGrace, GraceOf
<1> HIDE DEF u
<1>2. Adopted(s) = [u EXCEPT !.pending = FALSE, !.active = u.active + 1]
  BY DEF Adopted, u
<1> QED  BY <1>1, <1>2 DEF SessionRecord, TagSearchCenter

LEMMA AdoptedWindow ==
  ASSUME NEW s \in SessionRecord, WindowOK(s), s.pending
  PROVE  Adopted(s) \in SessionRecord /\ WindowOK(Adopted(s))
<1> DEFINE t == Adopted(s)
<1>0. 0 < s.active /\ s.active < MaxKey /\ s.active \in Int
  BY DEF WindowOK, GraceOK, SessionRecord
<1>1. t \in SessionRecord
  <2> DEFINE u == PreserveReplayForGrace(s, TRUE)
  <2>1. u = [s EXCEPT !.grace = GraceOf(s, TRUE)]
    BY DEF PreserveReplayForGrace, GraceOf
  <2> HIDE DEF u
  <2>2. Adopted(s) = [u EXCEPT !.pending = FALSE, !.active = u.active + 1]
    BY DEF Adopted, u
  <2>3. u.active = s.active /\ u \in SessionRecord
    BY <2>1, GraceOfType, Zenon DEF SessionRecord
  <2>4. u.active + 1 \in 0 .. MaxKey
    BY <1>0, <2>3, UplinkAssumption
  <2> QED  BY <2>2, <2>3, <2>4, Zenon DEF SessionRecord
<1>2. /\ t.active = s.active + 1 /\ t.base = s.base /\ t.lo = s.lo /\ t.hi = s.hi
      /\ ~t.pending /\ TagSearchCenter(t) = TagSearchCenter(s)
  BY AdoptedFields, Zenon
<1>3. t.grace.key = s.active /\ t.grace.lo = s.lo /\ t.grace.base = s.base
  <2>1. t.grace = GraceOf(s, TRUE)
    BY AdoptedFields, Zenon
  <2> QED  BY <2>1 DEF GraceOf
<1> HIDE DEF t
<1>4. Ahead(t) <= Ahead(s) /\ Ahead(t) \in Int /\ Ahead(s) \in Int
  BY <1>2, UplinkAssumption DEF Ahead
<1>5. s.hi >= s.base + Ahead(t)
  BY <1>4 DEF WindowOK, GraceOK, SessionRecord
<1>6. t.grace.key < t.active /\ t.grace.key # 0 /\ ~t.pending
  BY <1>0, <1>2, <1>3
<1>7. /\ t.lo = SatSub(t.base, TagWindow - 1)
      /\ t.hi >= t.base + Ahead(t)
      /\ t.grace.lo = SatSub(t.grace.base, TagWindow - 1)
      /\ t.base <= TagSearchCenter(t)
  BY <1>2, <1>3, <1>5 DEF WindowOK, GraceOK
<1>8. WindowOK(t)
  BY <1>6, <1>7, Zenon DEF WindowOK, GraceOK
<1> QED  BY <1>1, <1>8 DEF t

-----------------------------------------------------------------------------
(* A packet that is spent stays spent. *)

LEMMA PacketNat == \A p \in Packets : p[1] \in Nat /\ p[2] \in Nat
BY UplinkAssumption

LEMMA UpdateSpent ==
  ASSUME NEW s \in SessionRecord, GraceOK(s), NEW p \in Packets, Spent(s, p)
  PROVE  Spent(UpdateTagWindow(s), p)
<1> DEFINE t == UpdateTagWindow(s)
<1>1. t.active = s.active /\ t.counter = s.counter /\ t.marked = s.marked
  BY UpdateFields
<1>2. CounterIsFresh(t, p[2]) <=> CounterIsFresh(s, p[2])
  BY <1>1 DEF CounterIsFresh
<1>3. s.grace \in GraceRecord
  BY DEF SessionRecord
<1>4. CASE ~GraceAdvanced(s)
  <2>1. t.grace = s.grace
    BY <1>4, UpdateFields
  <2> HIDE DEF t
  <2>2. Spent(t, p)
    BY <1>1, <1>2, <2>1, Zenon DEF Spent
  <2> QED  BY <2>2 DEF t
<1>5. CASE GraceAdvanced(s)
  <2>1. t.grace = SlideGrace(s.grace)
    BY <1>5, UpdateFields
  <2>2. /\ t.grace.key = s.grace.key /\ t.grace.monotonic = s.grace.monotonic
        /\ t.grace.lo = SatSub(s.grace.counter, TagWindow - 1)
        /\ t.grace.received = {c \in s.grace.received : c >= t.grace.lo}
    BY <1>3, <2>1, SlideFields
  <2>3. /\ s.grace.counter \in Nat /\ s.grace.base \in Nat /\ TagWindow - 1 \in Nat
        /\ Stride > 0 /\ Stride \in Int /\ p[2] \in Nat
    BY <1>3, PacketNat, UplinkAssumption DEF GraceRecord
  <2>4. s.grace.base <= s.grace.counter
    BY <1>5, <2>3 DEF GraceAdvanced, SatSub
  <2>5. s.grace.lo <= t.grace.lo /\ s.grace.lo \in Nat /\ t.grace.lo \in Nat
    <3>1. s.grace.lo = SatSub(s.grace.base, TagWindow - 1)
      BY Zenon DEF WindowOK, GraceOK
    <3>2. t.grace.lo = SatSub(s.grace.counter, TagWindow - 1)
      BY <2>2
    <3> HIDE DEF t
    <3> QED  BY <2>3, <2>4, <3>1, <3>2 DEF SatSub
  <2> HIDE DEF t
  <2>6. s.grace.monotonic
    BY <1>5 DEF GraceAdvanced
  <2>7. p[1] = t.grace.key => p[2] \in t.grace.received \/ p[2] < t.grace.lo
    <3>1. SUFFICES ASSUME p[1] = t.grace.key
                   PROVE  p[2] \in t.grace.received \/ p[2] < t.grace.lo
      OBVIOUS
    <3>2. p[2] \in s.grace.received \/ p[2] < s.grace.lo
      BY <2>2, <2>6, <3>1, Zenon DEF Spent
    <3> QED  BY <2>2, <2>3, <2>5, <3>2
  <2>8. Spent(t, p)
    BY <1>1, <1>2, <2>7, Zenon DEF Spent
  <2> QED  BY <2>8 DEF t
<1> QED  BY <1>4, <1>5

LEMMA MarkStale ==
  ASSUME NEW s \in SessionRecord, NEW c \in Nat, NEW d \in Nat,
         ~CounterIsFresh(s, d) \/ d = c
  PROVE  ~CounterIsFresh(MarkTagReceived(s, c), d)
<1> DEFINE t == MarkTagReceived(s, c)
<1>1. /\ t.counter = MaxOf(s.counter, c)
      /\ t.marked = {m \in s.marked \cup {c} : t.counter - m < TagWindow}
  BY MarkFields
<1>2. s.counter \in Nat /\ TagWindow \in Nat
  BY UplinkAssumption DEF SessionRecord
<1> HIDE DEF t
<1>3. ~CounterIsFresh(t, d)
  BY <1>1, <1>2 DEF CounterIsFresh, MaxOf
<1> QED  BY <1>3 DEF t

LEMMA MarkSpent ==
  ASSUME NEW s \in SessionRecord, NEW c \in Nat, NEW p \in Packets,
         Spent(s, p) \/ (p[1] = s.active /\ p[2] = c /\ s.grace.key < s.active)
  PROVE  Spent(MarkTagReceived(s, c), p)
<1> DEFINE t == MarkTagReceived(s, c)
<1>1. t.active = s.active /\ t.grace = s.grace
  BY MarkFields
<1>2. p[1] = t.active => ~CounterIsFresh(t, p[2])
  BY <1>1, MarkStale, PacketNat DEF Spent
<1> HIDE DEF t
<1>3. CASE Spent(s, p)
  <2>1. Spent(t, p)
    BY <1>1, <1>2, <1>3, Zenon DEF Spent
  <2> QED  BY <2>1 DEF t
<1>4. CASE p[1] = s.active /\ p[2] = c /\ s.grace.key < s.active
  <2>1. p[1] <= t.active /\ p[1] # t.grace.key
    BY <1>1, <1>4, PacketNat DEF SessionRecord, GraceRecord
  <2>2. Spent(t, p)
    BY <1>2, <2>1, Zenon DEF Spent
  <2> QED  BY <2>2 DEF t
<1> QED  BY <1>3, <1>4

LEMMA MarkGraceSpent ==
  ASSUME NEW s \in SessionRecord, NEW c \in Nat, NEW p \in Packets,
         Spent(s, p) \/ (p[1] = s.grace.key /\ p[2] = c /\ s.grace.key < s.active)
  PROVE  Spent(MarkPreRatchetReceived(s, c), p)
<1> DEFINE t == MarkPreRatchetReceived(s, c)
<1>1. /\ t.active = s.active /\ t.counter = s.counter /\ t.marked = s.marked
      /\ t.grace.key = s.grace.key /\ t.grace.lo = s.grace.lo
      /\ t.grace.hi = s.grace.hi /\ t.grace.monotonic = s.grace.monotonic
      /\ t.grace.received = s.grace.received \cup {c}
  BY MarkGraceFields
<1>2. CounterIsFresh(t, p[2]) <=> CounterIsFresh(s, p[2])
  BY <1>1 DEF CounterIsFresh
<1> HIDE DEF t
<1>3. CASE Spent(s, p)
  <2>1. Spent(t, p)
    BY <1>1, <1>2, <1>3, Zenon DEF Spent
  <2> QED  BY <2>1 DEF t
<1>4. CASE p[1] = s.grace.key /\ p[2] = c /\ s.grace.key < s.active
  <2>1. p[1] <= t.active /\ p[1] # t.active
    BY <1>1, <1>4, PacketNat DEF SessionRecord, GraceRecord
  <2>2. p[2] \in t.grace.received
    BY <1>1, <1>4
  <2>3. Spent(t, p)
    BY <2>1, <2>2, Zenon DEF Spent
  <2> QED  BY <2>3 DEF t
<1> QED  BY <1>3, <1>4

\* The history a key leaves behind refuses what the key itself refused, within
\* the window and behind it.
LEMMA PreserveRefuses ==
  ASSUME NEW s \in SessionRecord, NEW m \in BOOLEAN, NEW p \in Packets,
         ~CounterIsFresh(s, p[2])
  PROVE  \/ p[2] \in GraceOf(s, m).received
         \/ p[2] < GraceOf(s, m).lo
         \/ p[2] > s.hi
<1>1. /\ GraceOf(s, m).lo = s.lo
      /\ GraceOf(s, m).received =
           {c \in Counters : Covers(s, c) /\ ~CounterIsFresh(s, c)}
  BY DEF GraceOf
<1>2. p[2] \in Counters /\ p[2] \in Nat
  BY CountersNat, PacketNat
<1>3. Covers(s, p[2]) \/ p[2] < s.lo \/ p[2] > s.hi
  BY <1>2 DEF Covers, SessionRecord
<1> QED  BY <1>1, <1>2, <1>3

LEMMA RatchetSpent ==
  ASSUME NEW s \in SessionRecord, NEW p \in Packets, ~IsRatcheted(s), Spent(s, p)
  PROVE  Spent(CompleteRatchet(s), p)
<1> DEFINE t == CompleteRatchet(s)
<1>1. t.active = 1
  BY RatchetFields, Zenon
<1>2. t.grace = GraceOf(s, FALSE)
  BY RatchetFields, Zenon
<1>3. s.active = 0
  BY DEF IsRatcheted, SessionRecord
<1>4. p[1] <= t.active /\ p[1] # t.active /\ p[1] = s.active
  BY <1>1, <1>3, PacketNat DEF Spent
<1>5. ~t.grace.monotonic /\ t.grace.hi = s.hi
  BY <1>2 DEF GraceOf
<1>6. \/ p[2] \in t.grace.received
      \/ p[2] < t.grace.lo
      \/ ~t.grace.monotonic /\ p[2] > t.grace.hi
  <2>1. ~CounterIsFresh(s, p[2])
    BY <1>4, Zenon DEF Spent
  <2>2. \/ p[2] \in t.grace.received
        \/ p[2] < t.grace.lo
        \/ p[2] > s.hi
    BY <1>2, <2>1, PreserveRefuses, Zenon
  <2> QED  BY <1>5, <2>2, Zenon
<1> HIDE DEF t
<1>7. Spent(t, p)
  BY <1>4, <1>6, Zenon DEF Spent
<1> QED  BY <1>7 DEF t

LEMMA AdoptedSpent ==
  ASSUME NEW s \in SessionRecord, NEW p \in Packets, Spent(s, p),
         p[1] = s.active => p[2] <= s.hi
  PROVE  Spent(Adopted(s), p)
<1> DEFINE t == Adopted(s)
<1>1. t.active = s.active + 1
  BY AdoptedFields, Zenon
<1>2. t.grace = GraceOf(s, TRUE)
  BY AdoptedFields, Zenon
<1>3. p[1] <= t.active /\ p[1] # t.active
  BY <1>1, PacketNat DEF Spent, SessionRecord
<1>4. t.grace.key = s.active
  BY <1>2 DEF GraceOf
<1>5. ASSUME p[1] = t.grace.key
      PROVE  p[2] \in t.grace.received \/ p[2] < t.grace.lo
  <2>1. ~CounterIsFresh(s, p[2])
    BY <1>4, <1>5, Zenon DEF Spent
  <2>2. \/ p[2] \in t.grace.received
        \/ p[2] < t.grace.lo
        \/ p[2] > s.hi
    BY <1>2, <2>1, PreserveRefuses, Zenon
  <2>3. ~(p[2] > s.hi)
    BY <1>4, <1>5, PacketNat DEF SessionRecord
  <2> QED  BY <2>2, <2>3, Zenon
<1> HIDE DEF t
<1>6. Spent(t, p)
  BY <1>3, <1>5, Zenon DEF Spent
<1> QED  BY <1>6 DEF t

-----------------------------------------------------------------------------
(* What a step does to the session and to the history of deliveries. *)

KeyCommitted == sess.pending /\ sess' = UpdateTagWindow(Adopted(sess))

RekeyStarted ==
  /\ IsRatcheted(sess) /\ sess.active < MaxKey
  /\ sess' = UpdateTagWindow([sess EXCEPT !.pending = TRUE])

SessionMoves ==
  \/ sess' = sess
  \/ sess' = UpdateTagWindow(sess)
  \/ ~IsRatcheted(sess) /\ sess' = CompleteRatchet(sess)
  \/ KeyCommitted
  \/ RekeyStarted
  \/ sess' = [sess EXCEPT !.pending = FALSE]
  \/ sess' = [sess EXCEPT !.grace.live = FALSE]

ClaimedActive(p) ==
  /\ p[1] = sess.active /\ CounterIsFresh(sess, p[2])
  /\ sess' = MarkTagReceived(sess, p[2])

ClaimedGrace(p) ==
  /\ p[1] # sess.active /\ p[1] = sess.grace.key
  /\ Covers(sess.grace, p[2]) /\ p[2] \notin sess.grace.received
  /\ sess' = MarkPreRatchetReceived(sess, p[2])

Claimed(p) == ClaimedActive(p) \/ ClaimedGrace(p)

SessionStep ==
  \/ delivered' = delivered /\ SessionMoves
  \/ \E p \in Packets : /\ delivered' = [delivered EXCEPT ![p] = @ + 1]
                        /\ Claimed(p)

\* Every step of the session manager, the workers and the rekey tick moves the
\* session by one of its operations, or claims one packet.
LEMMA StepMovesSession ==
  ASSUME Holding, [UplinkNext]_uplinkVars
  PROVE  SessionStep
<1>1. CASE UNCHANGED uplinkVars
  BY <1>1 DEF uplinkVars, SessionStep, SessionMoves
<1>2. ASSUME NEW w \in Workers, NEW p \in Packets, NEW r \in BOOLEAN, Lookup(w, p, r)
      PROVE  SessionStep
  BY <1>2, Zenon DEF Lookup, SessionStep, SessionMoves
<1>3. ASSUME NEW w \in Workers, Decrypt(w)
      PROVE  SessionStep
  BY <1>3, Zenon DEF Decrypt, SessionStep, SessionMoves
<1>4. ASSUME NEW w \in Workers, Ratchet(w)
      PROVE  SessionStep
  <2>1. delivered' = delivered /\ sess' = CompleteRatchet(sess)
    BY <1>4, Zenon DEF Ratchet
  <2>2. IsRatcheted(sess) => CompleteRatchet(sess) = sess
    BY DEF CompleteRatchet
  <2> QED  BY <2>1, <2>2, Zenon DEF SessionStep, SessionMoves
<1>5. ASSUME NEW w \in Workers, Claim(w)
      PROVE  SessionStep
  <2> DEFINE p == worker[w].packet
             epoch == AuthenticatedCounterEpoch(sess, p[1], p[2])
  <2>1. worker[w].pc = "claim"
    BY <1>5, Zenon DEF Claim
  <2>2. p \in Packets
    BY <2>1 DEF Holding
  <2>3. CASE epoch = "none"
    <3>1. sess' = sess /\ delivered' = delivered
      BY <1>5, <2>3, Zenon DEF Claim
    <3> QED  BY <3>1, Zenon DEF SessionStep, SessionMoves
  <2>4. CASE epoch # "none"
    <3>1. /\ sess' = IF epoch = "active" THEN MarkTagReceived(sess, p[2])
                     ELSE MarkPreRatchetReceived(sess, p[2])
          /\ delivered' = [delivered EXCEPT ![p] = @ + 1]
      BY <1>5, <2>4, Zenon DEF Claim
    <3>2. CASE epoch = "active"
      <4>1. p[1] = sess.active /\ CounterIsFresh(sess, p[2])
        BY <3>2 DEF AuthenticatedCounterEpoch
      <4>2. ClaimedActive(p)
        BY <3>1, <3>2, <4>1, Zenon DEF ClaimedActive
      <4> QED  BY <2>2, <3>1, <4>2, Zenon DEF SessionStep, Claimed
    <3>3. CASE epoch # "active"
      <4>1. /\ p[1] # sess.active /\ p[1] = sess.grace.key
            /\ Covers(sess.grace, p[2]) /\ p[2] \notin sess.grace.received
        BY <2>4, <3>3 DEF AuthenticatedCounterEpoch
      <4>2. ClaimedGrace(p)
        BY <3>1, <3>3, <4>1, Zenon DEF ClaimedGrace
      <4> QED  BY <2>2, <3>1, <4>2, Zenon DEF SessionStep, Claimed
    <3> QED  BY <3>2, <3>3
  <2> QED  BY <2>3, <2>4
<1>6. ASSUME NEW w \in Workers, RefreshTagWindowIfNeeded(w)
      PROVE  SessionStep
  BY <1>6, Zenon DEF RefreshTagWindowIfNeeded, SessionStep, SessionMoves
<1>7. ASSUME NEW w \in Workers, RefreshSessionTags(w)
      PROVE  SessionStep
  BY <1>7, Zenon DEF RefreshSessionTags, SessionStep, SessionMoves
<1>8. ASSUME NEW w \in Workers, Process(w)
      PROVE  SessionStep
  <2>1. delivered' = delivered
    BY <1>8, Zenon DEF Process
  <2>2. CASE sess' = sess
    BY <2>1, <2>2, Zenon DEF SessionStep, SessionMoves
  <2>3. CASE sess.pending /\ sess' = CommitSessionRekey(sess)
    <3>1. CommitSessionRekey(sess) = UpdateTagWindow(Adopted(sess))
      BY <2>3 DEF CommitSessionRekey, Adopted
    <3> QED  BY <2>1, <2>3, <3>1, Zenon DEF SessionStep, SessionMoves, KeyCommitted
  <2> QED  BY <1>8, <2>2, <2>3, Zenon DEF Process
<1>9. CASE StartRekey
  BY <1>9, Zenon DEF StartRekey, SessionStep, SessionMoves, RekeyStarted
<1>10. CASE StartRekeyReindex
  BY <1>10, Zenon DEF StartRekeyReindex, SessionStep, SessionMoves
<1>11. CASE GiveUpRekey
  BY <1>11, Zenon DEF GiveUpRekey, SessionStep, SessionMoves
<1>12. CASE GraceExpires
  BY <1>12, Zenon DEF GraceExpires, SessionStep, SessionMoves
<1> QED
  BY <1>1, <1>2, <1>3, <1>4, <1>5, <1>6, <1>7, <1>8, <1>9, <1>10, <1>11, <1>12,
     Zenon DEF UplinkNext

\* Setting and clearing the pending rekey, and the end of the grace period.
LEMMA PendingFields ==
  ASSUME NEW s \in SessionRecord, NEW b \in BOOLEAN
  PROVE  LET t == [s EXCEPT !.pending = b] IN
         /\ t \in SessionRecord /\ t.grace = s.grace
         /\ t.active = s.active /\ t.counter = s.counter /\ t.marked = s.marked
         /\ t.hint = s.hint /\ t.base = s.base /\ t.lo = s.lo /\ t.hi = s.hi
         /\ t.pending <=> b
BY DEF SessionRecord

LEMMA ExpiredFields ==
  ASSUME NEW s \in SessionRecord
  PROVE  LET t == [s EXCEPT !.grace.live = FALSE] IN
         /\ t \in SessionRecord
         /\ t.active = s.active /\ t.counter = s.counter /\ t.marked = s.marked
         /\ t.hint = s.hint /\ t.base = s.base /\ t.lo = s.lo /\ t.hi = s.hi
         /\ t.pending = s.pending
         /\ t.grace.key = s.grace.key /\ t.grace.lo = s.grace.lo
         /\ t.grace.hi = s.grace.hi /\ t.grace.base = s.grace.base
         /\ t.grace.monotonic = s.grace.monotonic
         /\ t.grace.received = s.grace.received
BY Zenon DEF SessionRecord, GraceRecord

LEMMA StartedGraceOK ==
  ASSUME NEW s \in SessionRecord, GraceOK(s), IsRatcheted(s), s.active < MaxKey
  PROVE  LET t == [s EXCEPT !.pending = TRUE] IN t \in SessionRecord /\ GraceOK(t)
<1> DEFINE t == [s EXCEPT !.pending = TRUE]
<1>1. t \in SessionRecord /\ t.grace = s.grace /\ t.active = s.active
  BY PendingFields, Zenon
<1> HIDE DEF t
<1>2. 0 < t.active /\ t.active < MaxKey
  BY <1>1 DEF IsRatcheted, SessionRecord
<1>3. GraceOK(t)
  BY <1>1, <1>2, Zenon DEF GraceOK
<1> QED  BY <1>1, <1>3 DEF t

LEMMA GivenUpWindow ==
  ASSUME NEW s \in SessionRecord, WindowOK(s)
  PROVE  LET t == [s EXCEPT !.pending = FALSE] IN WindowOK(t)
<1> DEFINE t == [s EXCEPT !.pending = FALSE]
<1>1. /\ t.grace = s.grace /\ t.active = s.active /\ t.counter = s.counter
      /\ t.hint = s.hint /\ t.base = s.base /\ t.lo = s.lo /\ t.hi = s.hi
      /\ ~t.pending
  BY PendingFields
<1> HIDE DEF t
<1>2. Ahead(t) <= Ahead(s) /\ Ahead(t) \in Int /\ Ahead(s) \in Int
  BY <1>1, UplinkAssumption DEF Ahead
<1>3. t.hi >= t.base + Ahead(t)
  BY <1>1, <1>2 DEF WindowOK, SessionRecord
<1>4. GraceOK(t)
  BY <1>1, Zenon DEF WindowOK, GraceOK
<1>5. TagSearchCenter(t) = TagSearchCenter(s)
  BY <1>1 DEF TagSearchCenter
<1>6. WindowOK(t)
  BY <1>1, <1>3, <1>4, <1>5, Zenon DEF WindowOK
<1> QED  BY <1>6 DEF t

LEMMA ExpiredWindow ==
  ASSUME NEW s \in SessionRecord, WindowOK(s)
  PROVE  LET t == [s EXCEPT !.grace.live = FALSE] IN WindowOK(t)
<1> DEFINE t == [s EXCEPT !.grace.live = FALSE]
<1>1. /\ t.active = s.active /\ t.counter = s.counter /\ t.pending = s.pending
      /\ t.hint = s.hint /\ t.base = s.base /\ t.lo = s.lo /\ t.hi = s.hi
      /\ t.grace.key = s.grace.key /\ t.grace.lo = s.grace.lo
      /\ t.grace.base = s.grace.base /\ t.grace.monotonic = s.grace.monotonic
  BY ExpiredFields, Zenon
<1> HIDE DEF t
<1>2. Ahead(t) = Ahead(s) /\ TagSearchCenter(t) = TagSearchCenter(s)
  BY <1>1 DEF Ahead, TagSearchCenter
<1>3. WindowOK(t)
  BY <1>1, <1>2, Zenon DEF WindowOK, GraceOK
<1> QED  BY <1>3 DEF t

\* The windows stay in shape.
LEMMA ShapeKept ==
  ASSUME sess \in SessionRecord, WindowOK(sess), SessionStep
  PROVE  sess' \in SessionRecord /\ WindowOK(sess')
<1>0. GraceOK(sess)
  BY Zenon DEF WindowOK
<1>1. CASE sess' = sess
  BY <1>1
<1>2. CASE sess' = UpdateTagWindow(sess)
  BY <1>0, <1>2, UpdateType, UpdateWindow
<1>3. CASE ~IsRatcheted(sess) /\ sess' = CompleteRatchet(sess)
  BY <1>3, RatchetType, RatchetWindow
<1>4. CASE KeyCommitted
  <2>1. Adopted(sess) \in SessionRecord /\ WindowOK(Adopted(sess))
    BY <1>4, AdoptedWindow DEF KeyCommitted
  <2>2. GraceOK(Adopted(sess))
    BY <2>1, Zenon DEF WindowOK
  <2> QED  BY <1>4, <2>1, <2>2, UpdateType, UpdateWindow, Zenon DEF KeyCommitted
<1>5. CASE RekeyStarted
  <2> DEFINE t == [sess EXCEPT !.pending = TRUE]
  <2>1. t \in SessionRecord /\ GraceOK(t)
    BY <1>0, <1>5, StartedGraceOK DEF RekeyStarted
  <2>2. sess' = UpdateTagWindow(t)
    BY <1>5 DEF RekeyStarted
  <2> HIDE DEF t
  <2> QED  BY <2>1, <2>2, UpdateType, UpdateWindow, Zenon
<1>6. CASE sess' = [sess EXCEPT !.pending = FALSE]
  <2>1. [sess EXCEPT !.pending = FALSE] \in SessionRecord
    BY PendingFields, Zenon
  <2>2. WindowOK([sess EXCEPT !.pending = FALSE])
    BY GivenUpWindow, Zenon
  <2> QED  BY <1>6, <2>1, <2>2, Zenon
<1>7. CASE sess' = [sess EXCEPT !.grace.live = FALSE]
  <2>1. [sess EXCEPT !.grace.live = FALSE] \in SessionRecord
    BY ExpiredFields, Zenon
  <2>2. WindowOK([sess EXCEPT !.grace.live = FALSE])
    BY ExpiredWindow, Zenon
  <2> QED  BY <1>7, <2>1, <2>2, Zenon
<1>8. ASSUME NEW p \in Packets, Claimed(p)
      PROVE  sess' \in SessionRecord /\ WindowOK(sess')
  <2>1. p[2] \in Nat
    BY PacketNat
  <2>2. CASE sess' = MarkTagReceived(sess, p[2])
    BY <2>1, <2>2, MarkType, MarkWindow
  <2>3. CASE sess' = MarkPreRatchetReceived(sess, p[2])
    BY <2>1, <2>3, MarkGraceType, MarkGraceWindow
  <2> QED  BY <1>8, <2>2, <2>3, Zenon DEF Claimed, ClaimedActive, ClaimedGrace
<1> QED
  BY <1>1, <1>2, <1>3, <1>4, <1>5, <1>6, <1>7, <1>8, Zenon DEF SessionStep, SessionMoves

-----------------------------------------------------------------------------
(* What is refused was delivered. *)

\* Deliveries are never forgotten.
Grown(d, e) == \A q \in Packets : d[q] > 0 => e[q] > 0

LEMMA SeenGrows ==
  ASSUME NEW d, NEW e, Grown(d, e), NEW c, NEW k, NEW l, Seen(d, c, k),
         \A j : Shares(j, k) => Shares(j, l)
  PROVE  Seen(e, c, l)
BY Zenon DEF Seen, Grown

LEMMA BehindGrows ==
  ASSUME NEW d, NEW e, Grown(d, e), NEW p, Behind(d, p)
  PROVE  Behind(e, p)
BY Zenon DEF Behind, Grown

\* A counter the active key refuses was delivered, under this key because no
\* other of the same counter space sealed it, or lies a window behind one.
LEMMA RefusedSeen ==
  ASSUME NEW s \in SessionRecord, NEW d, MarksSeen(s, d),
         NEW p \in Packets, p[1] = s.active, ~CounterIsFresh(s, p[2])
  PROVE  d[p] > 0 \/ Behind(d, p)
<1>1. p[1] \in Nat /\ p[2] \in Nat /\ s.counter \in Nat /\ TagWindow \in Nat \ {0}
  BY PacketNat, UplinkAssumption DEF SessionRecord
<1>2. p[2] \in s.marked \/ s.counter - p[2] >= TagWindow
  BY <1>1 DEF CounterIsFresh
<1>3. CASE p[2] \in s.marked
  <2>1. Seen(d, p[2], p[1])
    BY <1>3, Zenon DEF MarksSeen
  <2>2. PICK q \in Packets : d[q] > 0 /\ q[2] = p[2] /\ Shares(q[1], p[1])
    BY <2>1, Zenon DEF Seen
  <2>3. q = p
    <3>1. CASE p[1] = 0
      <4>1. q[1] = p[1]
        BY <2>2, <3>1 DEF Shares
      <4> QED  BY <2>2, <4>1, UplinkAssumption
    <3>2. CASE p[1] # 0
      <4>1. q[1] > 0 /\ p[1] > 0
        BY <1>1, <2>2, <3>2, PacketNat DEF Shares
      <4> QED  BY <2>2, <4>1, UplinkAssumption
    <3> QED  BY <3>1, <3>2
  <2> QED  BY <2>2, <2>3
<1>4. CASE s.counter - p[2] >= TagWindow
  <2>1. s.counter > 0
    BY <1>1, <1>4
  <2>2. Seen(d, s.counter, p[1])
    BY <2>1, Zenon DEF MarksSeen
  <2> QED  BY <1>4, <2>2, Zenon DEF Seen, Behind
<1> QED  BY <1>2, <1>3, <1>4

\* The bitmap and the newest counter move only with a claim, and the key that
\* reads them stays in their counter space.
LEMMA MarksCarried ==
  ASSUME NEW s, NEW t, NEW d, NEW e, Grown(d, e), MarksSeen(s, d),
         t.counter = s.counter, t.marked = s.marked,
         \A j : Shares(j, s.active) => Shares(j, t.active)
  PROVE  MarksSeen(t, e)
<1>1. \A c : Seen(d, c, s.active) => Seen(e, c, t.active)
  BY SeenGrows, Zenon
<1> QED  BY <1>1, Zenon DEF MarksSeen

LEMMA GraceCarried ==
  ASSUME NEW s, NEW t, NEW d, NEW e, Grown(d, e), GraceSeen(s, d),
         t.grace.key = s.grace.key, t.grace.received \subseteq s.grace.received
  PROVE  GraceSeen(t, e)
<1>1. \A p \in Packets : d[p] > 0 \/ Behind(d, p) => e[p] > 0 \/ Behind(e, p)
  BY BehindGrows, Zenon DEF Grown
<1> QED  BY <1>1, Zenon DEF GraceSeen

\* The outgoing key's history is what the key refused.
LEMMA GraceOfSeen ==
  ASSUME NEW s \in SessionRecord, NEW d, MarksSeen(s, d), NEW m \in BOOLEAN,
         NEW t, t.grace.key = s.active,
         t.grace.received \subseteq GraceOf(s, m).received
  PROVE  GraceSeen(t, d)
<1>1. GraceOf(s, m).received = {c \in Counters : Covers(s, c) /\ ~CounterIsFresh(s, c)}
  BY DEF GraceOf
<1>2. SUFFICES ASSUME NEW p \in Packets, p[1] = t.grace.key, p[2] \in t.grace.received
               PROVE  d[p] > 0 \/ Behind(d, p)
  BY Zenon DEF GraceSeen
<1>3. ~CounterIsFresh(s, p[2])
  BY <1>1, <1>2
<1>4. p[1] = s.active
  BY <1>2
<1> QED  BY <1>3, <1>4, RefusedSeen, Zenon

LEMMA UpdateGrace ==
  ASSUME NEW s \in SessionRecord
  PROVE  /\ UpdateTagWindow(s).grace.key = s.grace.key
         /\ UpdateTagWindow(s).grace.received \subseteq s.grace.received
<1> DEFINE t == UpdateTagWindow(s)
<1>1. s.grace \in GraceRecord
  BY DEF SessionRecord
<1>2. CASE GraceAdvanced(s)
  <2>1. t.grace = SlideGrace(s.grace)
    BY <1>2, UpdateFields
  <2> QED  BY <1>1, <2>1, SlideFields
<1>3. CASE ~GraceAdvanced(s)
  <2>1. t.grace = s.grace
    BY <1>3, UpdateFields
  <2> QED  BY <2>1
<1> QED  BY <1>2, <1>3

\* A step that delivers nothing leaves the histories explained.
LEMMA MovesSeen ==
  ASSUME sess \in SessionRecord, WindowOK(sess), SessionMoves,
         NEW d, MarksSeen(sess, d), GraceSeen(sess, d)
  PROVE  MarksSeen(sess', d) /\ GraceSeen(sess', d)
<1>0. Grown(d, d)
  BY Zenon DEF Grown
<1>1. CASE sess' = sess
  BY <1>1, Zenon
<1>2. CASE sess' = UpdateTagWindow(sess)
  <2>1. /\ sess'.active = sess.active /\ sess'.counter = sess.counter
        /\ sess'.marked = sess.marked /\ sess'.grace.key = sess.grace.key
        /\ sess'.grace.received \subseteq sess.grace.received
    BY <1>2, UpdateFields, UpdateGrace
  <2> QED  BY <1>0, <2>1, MarksCarried, GraceCarried, Zenon
<1>3. CASE ~IsRatcheted(sess) /\ sess' = CompleteRatchet(sess)
  <2>1. sess'.counter = 0 /\ sess'.marked = {}
    BY <1>3, RatchetFields, Zenon
  <2>2. MarksSeen(sess', d)
    BY <2>1 DEF MarksSeen
  <2>3. sess'.grace = GraceOf(sess, FALSE)
    BY <1>3, RatchetFields, Zenon
  <2>4. sess'.grace.key = sess.active
    BY <2>3 DEF GraceOf
  <2>5. sess'.grace.received \subseteq GraceOf(sess, FALSE).received
    BY <2>3, Zenon
  <2>6. GraceSeen(sess', d)
    BY <2>4, <2>5, GraceOfSeen, Zenon
  <2> QED  BY <2>2, <2>6
<1>4. CASE KeyCommitted
  <2> DEFINE u == Adopted(sess)
  <2>1. sess' = UpdateTagWindow(u) /\ u \in SessionRecord
    BY <1>4, AdoptedWindow DEF KeyCommitted
  <2>2. /\ u.active = sess.active + 1 /\ u.counter = sess.counter
        /\ u.marked = sess.marked
    BY AdoptedFields, Zenon
  <2>3. u.grace = GraceOf(sess, TRUE)
    BY AdoptedFields, Zenon
  <2>4. u.grace.key = sess.active
    BY <2>3 DEF GraceOf
  <2>5. u.grace.received = GraceOf(sess, TRUE).received
    BY <2>3, Zenon
  <2> HIDE DEF u
  <2>6. /\ sess'.active = sess.active + 1 /\ sess'.counter = sess.counter
        /\ sess'.marked = sess.marked /\ sess'.grace.key = sess.active
        /\ sess'.grace.received \subseteq u.grace.received
    BY <2>1, <2>2, <2>4, UpdateFields, UpdateGrace
  <2>7. sess.active \in Nat /\ sess.active > 0
    BY <1>4 DEF KeyCommitted, WindowOK, GraceOK, SessionRecord
  <2>8. \A j : Shares(j, sess.active) => Shares(j, sess'.active)
    BY <2>6, <2>7 DEF Shares
  <2>9. MarksSeen(sess', d)
    BY <1>0, <2>6, <2>8, MarksCarried, Zenon
  <2>10. sess'.grace.received \subseteq GraceOf(sess, TRUE).received
    BY <2>5, <2>6, Zenon
  <2>11. GraceSeen(sess', d)
    BY <2>6, <2>10, GraceOfSeen, Zenon
  <2> QED  BY <2>9, <2>11
<1>5. CASE RekeyStarted
  <2> DEFINE u == [sess EXCEPT !.pending = TRUE]
  <2>1. sess' = UpdateTagWindow(u)
    BY <1>5 DEF RekeyStarted
  <2>2. /\ u \in SessionRecord /\ u.grace = sess.grace /\ u.active = sess.active
        /\ u.counter = sess.counter /\ u.marked = sess.marked
    BY PendingFields, Zenon
  <2> HIDE DEF u
  <2>3. /\ sess'.active = sess.active /\ sess'.counter = sess.counter
        /\ sess'.marked = sess.marked /\ sess'.grace.key = sess.grace.key
        /\ sess'.grace.received \subseteq sess.grace.received
    BY <2>1, <2>2, UpdateFields, UpdateGrace
  <2> QED  BY <1>0, <2>3, MarksCarried, GraceCarried, Zenon
<1>6. CASE sess' = [sess EXCEPT !.pending = FALSE]
  <2>1. /\ sess'.active = sess.active /\ sess'.counter = sess.counter
        /\ sess'.marked = sess.marked /\ sess'.grace = sess.grace
    BY <1>6, PendingFields
  <2> QED  BY <1>0, <2>1, MarksCarried, GraceCarried, Zenon
<1>7. CASE sess' = [sess EXCEPT !.grace.live = FALSE]
  <2>1. /\ sess'.active = sess.active /\ sess'.counter = sess.counter
        /\ sess'.marked = sess.marked /\ sess'.grace.key = sess.grace.key
        /\ sess'.grace.received = sess.grace.received
    BY <1>7, ExpiredFields
  <2> QED  BY <1>0, <2>1, MarksCarried, GraceCarried, Zenon
<1> QED
  BY <1>1, <1>2, <1>3, <1>4, <1>5, <1>6, <1>7, Zenon DEF SessionMoves

\* A claim explains what it marks.
LEMMA ClaimSeen ==
  ASSUME sess \in SessionRecord, delivered \in [Packets -> Nat],
         MarksSeen(sess, delivered), GraceSeen(sess, delivered),
         NEW p \in Packets, Claimed(p), delivered' = [delivered EXCEPT ![p] = @ + 1]
  PROVE  /\ delivered' \in [Packets -> Nat]
         /\ MarksSeen(sess', delivered') /\ GraceSeen(sess', delivered')
<1>1. delivered' \in [Packets -> Nat] /\ delivered'[p] > 0
  OBVIOUS
<1>2. Grown(delivered, delivered')
  BY DEF Grown
<1>3. p[1] \in Nat /\ p[2] \in Nat
  BY PacketNat
<1>4. CASE ClaimedActive(p)
  <2>1. p[1] = sess.active /\ sess' = MarkTagReceived(sess, p[2])
    BY <1>4, Zenon DEF ClaimedActive
  <2>2. /\ sess'.active = sess.active /\ sess'.counter \in {sess.counter, p[2]}
        /\ sess'.marked \subseteq sess.marked \cup {p[2]}
        /\ sess'.grace = sess.grace
    BY <1>3, <2>1, MarkFields DEF MaxOf
  <2>3. Shares(p[1], sess.active)
    BY <1>3, <2>1 DEF Shares
  <2>4. Seen(delivered', p[2], sess.active)
    BY <1>1, <2>3, Zenon DEF Seen
  <2>5. \A c : Seen(delivered, c, sess.active) => Seen(delivered', c, sess.active)
    BY <1>2, SeenGrows, Zenon
  <2>6. \A c \in sess'.marked : Seen(delivered', c, sess'.active)
    <3>1. SUFFICES ASSUME NEW c \in sess'.marked
                   PROVE  Seen(delivered', c, sess.active)
      BY <2>2, Zenon
    <3>2. CASE c = p[2]
      BY <2>4, <3>2
    <3>3. CASE c \in sess.marked
      BY <2>5, <3>3, Zenon DEF MarksSeen
    <3> QED  BY <2>2, <3>2, <3>3
  <2>7. sess'.counter > 0 => Seen(delivered', sess'.counter, sess'.active)
    BY <2>2, <2>4, <2>5, Zenon DEF MarksSeen
  <2>8. GraceSeen(sess', delivered')
    BY <1>2, <2>2, GraceCarried, Zenon
  <2> QED  BY <1>1, <2>6, <2>7, <2>8, Zenon DEF MarksSeen
<1>5. CASE ClaimedGrace(p)
  <2>1. p[1] = sess.grace.key /\ sess' = MarkPreRatchetReceived(sess, p[2])
    BY <1>5, Zenon DEF ClaimedGrace
  <2>2. /\ sess'.active = sess.active /\ sess'.counter = sess.counter
        /\ sess'.marked = sess.marked /\ sess'.grace.key = sess.grace.key
        /\ sess'.grace.received = sess.grace.received \cup {p[2]}
    BY <1>3, <2>1, MarkGraceFields
  <2>3. MarksSeen(sess', delivered')
    BY <1>2, <2>2, MarksCarried, Zenon
  <2>4. GraceSeen(sess', delivered')
    <3>1. SUFFICES ASSUME NEW q \in Packets,
                          q[1] = sess.grace.key, q[2] \in sess.grace.received \cup {p[2]}
                   PROVE  delivered'[q] > 0 \/ Behind(delivered', q)
      BY <2>2, Zenon DEF GraceSeen
    <3>2. CASE q[2] \in sess.grace.received
      <4>1. delivered[q] > 0 \/ Behind(delivered, q)
        BY <3>1, <3>2, Zenon DEF GraceSeen
      <4> QED  BY <1>2, <4>1, BehindGrows, Zenon DEF Grown
    <3>3. CASE q[2] = p[2]
      <4>1. q = p
        BY <2>1, <3>1, <3>3, UplinkAssumption
      <4> QED  BY <1>1, <4>1
    <3> QED  BY <3>1, <3>2, <3>3
  <2> QED  BY <1>1, <2>3, <2>4
<1> QED  BY <1>4, <1>5 DEF Claimed

-----------------------------------------------------------------------------
(* What was delivered is not delivered again. *)

\* The tags published for the active key reach every counter delivered under
\* it: what a commit needs in order to hand the history over completely.
Reaches ==
  \A p \in Packets : delivered[p] > 0 /\ p[1] = sess.active => p[2] <= sess.hi

LEMMA MovesSpent ==
  ASSUME sess \in SessionRecord, WindowOK(sess), SessionMoves,
         KeyCommitted => Reaches,
         NEW p \in Packets, delivered[p] > 0, Spent(sess, p)
  PROVE  Spent(sess', p)
<1>0. GraceOK(sess)
  BY Zenon DEF WindowOK
<1>1. CASE sess' = sess
  BY <1>1, Zenon
<1>2. CASE sess' = UpdateTagWindow(sess)
  BY <1>0, <1>2, UpdateSpent, Zenon
<1>3. CASE ~IsRatcheted(sess) /\ sess' = CompleteRatchet(sess)
  BY <1>3, RatchetSpent, Zenon
<1>4. CASE KeyCommitted
  <2>1. p[1] = sess.active => p[2] <= sess.hi
    BY <1>4, Zenon DEF Reaches
  <2>2. Spent(Adopted(sess), p)
    BY <2>1, AdoptedSpent, Zenon
  <2>3. Adopted(sess) \in SessionRecord /\ GraceOK(Adopted(sess))
    BY <1>4, AdoptedWindow, Zenon DEF KeyCommitted, WindowOK
  <2> QED  BY <1>4, <2>2, <2>3, UpdateSpent, Zenon DEF KeyCommitted
<1>5. CASE RekeyStarted
  <2> DEFINE u == [sess EXCEPT !.pending = TRUE]
  <2>1. sess' = UpdateTagWindow(u)
    BY <1>5 DEF RekeyStarted
  <2>2. u \in SessionRecord /\ GraceOK(u)
    BY <1>0, <1>5, StartedGraceOK DEF RekeyStarted
  <2>3. /\ u.grace = sess.grace /\ u.active = sess.active
        /\ u.counter = sess.counter /\ u.marked = sess.marked
    BY PendingFields
  <2> HIDE DEF u
  <2>4. Spent(u, p)
    BY <2>3, Zenon DEF Spent, CounterIsFresh
  <2> QED  BY <2>1, <2>2, <2>4, UpdateSpent, Zenon
<1>6. CASE sess' = [sess EXCEPT !.pending = FALSE]
  <2>1. /\ sess'.active = sess.active /\ sess'.counter = sess.counter
        /\ sess'.marked = sess.marked /\ sess'.grace = sess.grace
    BY <1>6, PendingFields
  <2> QED  BY <2>1, Zenon DEF Spent, CounterIsFresh
<1>7. CASE sess' = [sess EXCEPT !.grace.live = FALSE]
  <2>1. /\ sess'.active = sess.active /\ sess'.counter = sess.counter
        /\ sess'.marked = sess.marked /\ sess'.grace.key = sess.grace.key
        /\ sess'.grace.received = sess.grace.received
        /\ sess'.grace.lo = sess.grace.lo /\ sess'.grace.hi = sess.grace.hi
        /\ sess'.grace.monotonic = sess.grace.monotonic
    BY <1>7, ExpiredFields
  <2> QED  BY <2>1, Zenon DEF Spent, CounterIsFresh
<1> QED
  BY <1>1, <1>2, <1>3, <1>4, <1>5, <1>6, <1>7, Zenon DEF SessionMoves

LEMMA ClaimSpent ==
  ASSUME sess \in SessionRecord, WindowOK(sess), NEW p \in Packets, Claimed(p)
  PROVE  /\ ~Spent(sess, p)
         /\ Spent(sess', p)
         /\ \A q \in Packets : Spent(sess, q) => Spent(sess', q)
<1>1. sess.grace.key < sess.active
  BY Zenon DEF WindowOK, GraceOK
<1>2. p[2] \in Nat
  BY PacketNat
<1>3. CASE ClaimedActive(p)
  <2>1. p[1] = sess.active /\ sess' = MarkTagReceived(sess, p[2])
    BY <1>3, Zenon DEF ClaimedActive
  <2>2. ~Spent(sess, p)
    BY <1>3, Zenon DEF ClaimedActive, Spent
  <2> QED  BY <1>1, <1>2, <2>1, <2>2, MarkSpent, Zenon
<1>4. CASE ClaimedGrace(p)
  <2>1. p[1] = sess.grace.key /\ sess' = MarkPreRatchetReceived(sess, p[2])
    BY <1>4, Zenon DEF ClaimedGrace
  <2>2. ~Spent(sess, p)
    <3>1. p[2] \notin sess.grace.received
      BY <1>4, Zenon DEF ClaimedGrace
    <3>2. ~(p[2] < sess.grace.lo) /\ ~(p[2] > sess.grace.hi)
      BY <1>2, <1>4 DEF ClaimedGrace, Covers, SessionRecord, GraceRecord
    <3> QED  BY <2>1, <3>1, <3>2, Zenon DEF Spent
  <2> QED  BY <1>1, <1>2, <2>1, <2>2, MarkGraceSpent, Zenon
<1> QED  BY <1>3, <1>4 DEF Claimed

LEMMA SpentKept ==
  ASSUME sess \in SessionRecord, WindowOK(sess), delivered \in [Packets -> Nat],
         DeliveredSpent, SessionStep, KeyCommitted => Reaches
  PROVE  DeliveredSpent'
<1>1. CASE delivered' = delivered /\ SessionMoves
  BY <1>1, MovesSpent, Zenon DEF DeliveredSpent
<1>2. ASSUME NEW p \in Packets, Claimed(p),
             delivered' = [delivered EXCEPT ![p] = @ + 1]
      PROVE  DeliveredSpent'
  <2>1. /\ ~Spent(sess, p) /\ Spent(sess', p)
        /\ \A q \in Packets : Spent(sess, q) => Spent(sess', q)
    BY <1>2, ClaimSpent, Zenon
  <2>2. delivered[p] = 0
    BY <2>1 DEF DeliveredSpent
  <2>3. /\ delivered'[p] = 1
        /\ \A q \in Packets : q # p => delivered'[q] = delivered[q]
    BY <1>2, <2>2
  <2>4. SUFFICES ASSUME NEW q \in Packets
                 PROVE  delivered'[q] <= 1 /\ (delivered'[q] > 0 => Spent(sess', q))
    BY DEF DeliveredSpent
  <2>5. CASE q = p
    BY <2>1, <2>3, <2>5
  <2>6. CASE q # p
    BY <2>1, <2>3, <2>6, Zenon DEF DeliveredSpent
  <2> QED  BY <2>5, <2>6
<1> QED  BY <1>1, <1>2, Zenon DEF SessionStep

-----------------------------------------------------------------------------
(* The index and the workers. *)

IndexRecord == [active : TagRange, ratcheted : TagRange, grace : TagRange]

LEMMA ReindexType ==
  ASSUME NEW s \in SessionRecord
  PROVE  /\ ReindexSession(s) \in IndexRecord
         /\ ReindexSession(s).active = [key |-> s.active, lo |-> s.lo, hi |-> s.hi]
<1>1. [key |-> s.active, lo |-> s.lo, hi |-> s.hi] \in TagRange
  BY UplinkAssumption DEF SessionRecord, TagRange
<1>2. Nothing \in TagRange
  BY UplinkAssumption DEF Nothing, NoKey, TagRange
<1>3. RatchetedTags(s) \in TagRange
  <2>1. [key |-> 1, lo |-> 0, hi |-> TagWindow - 1] \in TagRange
    BY UplinkAssumption DEF TagRange
  <2> QED  BY <1>2, <2>1 DEF RatchetedTags
<1>4. (IF s.grace.live THEN [key |-> s.grace.key, lo |-> s.grace.lo, hi |-> s.grace.hi]
         ELSE Nothing) \in TagRange
  <2>1. [key |-> s.grace.key, lo |-> s.grace.lo, hi |-> s.grace.hi] \in TagRange
    BY DEF SessionRecord, GraceRecord, TagRange
  <2> QED  BY <1>2, <2>1
<1> QED  BY <1>1, <1>3, <1>4 DEF ReindexSession, IndexRecord

\* The index is rebuilt from the session before or after the step, or kept;
\* the rekey tick is in one of its two passes.
LEMMA StepMovesIndex ==
  ASSUME [UplinkNext]_uplinkVars
  PROVE  /\ index' = index \/ index' = ReindexSession(sess) \/ index' = ReindexSession(sess')
         /\ sweep' = sweep \/ sweep' = "idle" \/ sweep' = "reindex"
<1>1. CASE UNCHANGED uplinkVars
  BY <1>1 DEF uplinkVars
<1>2. ASSUME NEW w \in Workers, NEW p \in Packets, NEW r \in BOOLEAN, Lookup(w, p, r)
      PROVE  (index' = index \/ index' = ReindexSession(sess')) /\ sweep' = sweep
  BY <1>2, Zenon DEF Lookup
<1>3. ASSUME NEW w \in Workers,
             \/ Decrypt(w) \/ Ratchet(w) \/ Claim(w)
             \/ RefreshTagWindowIfNeeded(w) \/ RefreshSessionTags(w) \/ Process(w)
      PROVE  /\ index' = index \/ index' = ReindexSession(sess) \/ index' = ReindexSession(sess')
             /\ sweep' = sweep
  BY <1>3, Zenon DEF Decrypt, Ratchet, Claim, RefreshTagWindowIfNeeded,
                     RefreshSessionTags, Process
<1>4. CASE StartRekey \/ StartRekeyReindex \/ GiveUpRekey \/ GraceExpires
  BY <1>4, Zenon DEF StartRekey, StartRekeyReindex, GiveUpRekey, GraceExpires
<1> QED  BY <1>1, <1>2, <1>3, <1>4, Zenon DEF UplinkNext

\* What a worker becomes when it moves on with its packet.
At(w, pc) == [worker[w] EXCEPT !.pc = pc]

Steps == {"idle", "decrypt", "ratchet", "claim", "refresh", "reindex", "process"}

WorkersOK == worker \in [Workers -> WorkerRecord] /\ Holding

LEMMA WorkerMoves ==
  ASSUME WorkersOK, NEW w \in Workers, NEW r \in WorkerRecord,
         r.pc # "idle" => r.packet \in Packets, worker' = [worker EXCEPT ![w] = r]
  PROVE  WorkersOK'
<1>1. worker' \in [Workers -> WorkerRecord]
  BY DEF WorkersOK
<1>2. ASSUME NEW v \in Workers, worker'[v].pc # "idle"
      PROVE  worker'[v].packet \in Packets
  <2>1. worker'[v] = IF v = w THEN r ELSE worker[v]
    BY DEF WorkersOK
  <2>2. CASE v = w
    BY <1>2, <2>1, <2>2
  <2>3. CASE v # w
    BY <1>2, <2>1, <2>3 DEF WorkersOK, Holding
  <2> QED  BY <2>2, <2>3
<1> QED  BY <1>1, <1>2, Zenon DEF WorkersOK, Holding

LEMMA WorkerGoes ==
  ASSUME WorkersOK, NEW w \in Workers, worker[w].pc # "idle",
         NEW pc \in Steps, GoTo(w, pc)
  PROVE  WorkersOK'
<1>1. worker[w] \in WorkerRecord /\ worker[w].packet \in Packets
  BY DEF WorkersOK, Holding
<1>2. At(w, pc) \in WorkerRecord /\ At(w, pc).packet = worker[w].packet
  BY <1>1 DEF At, WorkerRecord, Steps
<1>3. worker' = [worker EXCEPT ![w] = At(w, pc)]
  BY DEF GoTo, At
<1> QED  BY <1>1, <1>2, <1>3, WorkerMoves, Zenon

LEMMA IdleType == Idle \in WorkerRecord /\ Idle.pc = "idle"
BY DEF Idle, WorkerRecord

LEMMA WorkersKept ==
  ASSUME WorkersOK, [UplinkNext]_uplinkVars
  PROVE  WorkersOK'
<1>1. CASE worker' = worker
  BY <1>1 DEF WorkersOK, Holding
<1>2. ASSUME NEW w \in Workers, NEW p \in Packets, NEW r \in BOOLEAN, Lookup(w, p, r)
      PROVE  WorkersOK'
  <2> DEFINE v == [pc |-> "decrypt", packet |-> p, ratcheted |-> r]
  <2>1. v \in WorkerRecord /\ v.packet \in Packets
    BY DEF WorkerRecord
  <2>2. worker' = [worker EXCEPT ![w] = v]
    BY <1>2 DEF Lookup
  <2> HIDE DEF v
  <2> QED  BY <2>1, <2>2, WorkerMoves, Zenon
<1>3. ASSUME NEW w \in Workers, worker' = [worker EXCEPT ![w] = Idle]
      PROVE  WorkersOK'
  BY <1>3, IdleType, WorkerMoves, Zenon
<1>4. ASSUME NEW w \in Workers, Decrypt(w)
      PROVE  WorkersOK'
  <2>1. \/ worker' = [worker EXCEPT ![w] = Idle]
        \/ worker[w].pc # "idle" /\ GoTo(w, "ratchet")
        \/ worker[w].pc # "idle" /\ GoTo(w, "claim")
    BY <1>4 DEF Decrypt
  <2> QED  BY <1>3, <2>1, WorkerGoes DEF Steps
<1>5. ASSUME NEW w \in Workers, Ratchet(w)
      PROVE  WorkersOK'
  BY <1>5, WorkerGoes DEF Ratchet, Steps
<1>6. ASSUME NEW w \in Workers, Claim(w)
      PROVE  WorkersOK'
  <2>1. \/ worker' = [worker EXCEPT ![w] = Idle]
        \/ worker[w].pc # "idle" /\ GoTo(w, "refresh")
    <3>1. worker[w].pc = "claim"
      BY <1>6, Zenon DEF Claim
    <3>2. \/ worker' = [worker EXCEPT ![w] = Idle]
          \/ worker' = [worker EXCEPT ![w] = IF worker[w].packet[1] = 0 THEN Idle
                                             ELSE [worker[w] EXCEPT !.pc = "refresh"]]
      BY <1>6, Zenon DEF Claim
    <3>3. CASE worker[w].packet[1] = 0
      BY <3>2, <3>3
    <3>4. CASE worker[w].packet[1] # 0
      BY <3>1, <3>2, <3>4 DEF GoTo
    <3> QED  BY <3>3, <3>4
  <2> QED  BY <1>3, <2>1, WorkerGoes DEF Steps
<1>7. ASSUME NEW w \in Workers, RefreshTagWindowIfNeeded(w)
      PROVE  WorkersOK'
  <2>1. worker[w].pc # "idle" /\ (GoTo(w, "reindex") \/ GoTo(w, "process"))
    BY <1>7 DEF RefreshTagWindowIfNeeded
  <2> QED  BY <2>1, WorkerGoes DEF Steps
<1>8. ASSUME NEW w \in Workers, RefreshSessionTags(w)
      PROVE  WorkersOK'
  BY <1>8, WorkerGoes DEF RefreshSessionTags, Steps
<1>9. ASSUME NEW w \in Workers, Process(w)
      PROVE  WorkersOK'
  BY <1>3, <1>9, Zenon DEF Process
<1>10. CASE StartRekey \/ StartRekeyReindex \/ GiveUpRekey \/ GraceExpires
  BY <1>1, <1>10, Zenon DEF StartRekey, StartRekeyReindex, GiveUpRekey, GraceExpires
<1>11. CASE UNCHANGED uplinkVars
  BY <1>1, <1>11 DEF uplinkVars
<1> QED
  BY <1>2, <1>4, <1>5, <1>6, <1>7, <1>8, <1>9, <1>10, <1>11, Zenon DEF UplinkNext

-----------------------------------------------------------------------------
(* The window follows the search centre, and the index the window. *)

LEMMA GoToPc ==
  ASSUME worker \in [Workers -> WorkerRecord], NEW w \in Workers, NEW pc, GoTo(w, pc)
  PROVE  \A v \in Workers : worker'[v].pc = IF v = w THEN pc ELSE worker[v].pc
BY DEF GoTo, WorkerRecord

LEMMA SetPc ==
  ASSUME worker \in [Workers -> WorkerRecord], NEW w \in Workers, NEW r,
         worker' = [worker EXCEPT ![w] = r]
  PROVE  \A v \in Workers : worker'[v].pc = IF v = w THEN r.pc ELSE worker[v].pc
OBVIOUS

\* After update_tag_window the base is the search centre.
LEMMA UpdateCentred ==
  ASSUME NEW s \in SessionRecord
  PROVE  TagSearchCenter(UpdateTagWindow(s)) < UpdateTagWindow(s).base + Stride
<1>1. /\ UpdateTagWindow(s).base = TagSearchCenter(s)
      /\ TagSearchCenter(UpdateTagWindow(s)) = TagSearchCenter(s)
  BY UpdateFields DEF TagSearchCenter
<1> QED  BY <1>1, CenterNat, UplinkAssumption

Centred(s) == TagSearchCenter(s) < s.base + Stride

\* No worker but the one that refreshes leaves the refresh step.
LEMMA RefreshedCarried ==
  ASSUME Refreshed,
         \A v \in Workers : worker[v].pc = "refresh" => worker'[v].pc = "refresh",
         IsRatcheted(sess') => IsRatcheted(sess),
         Centred(sess) => Centred(sess')
  PROVE  Refreshed'
BY Zenon DEF Refreshed, Centred

LEMMA CentredRefreshed ==
  ASSUME Centred(sess')
  PROVE  Refreshed'
BY Zenon DEF Refreshed, Centred

LEMMA RefreshedKept ==
  ASSUME UplinkTypeOK, Holding, WindowOK(sess), Refreshed, [UplinkNext]_uplinkVars
  PROVE  Refreshed'
<1>1. sess \in SessionRecord /\ worker \in [Workers -> WorkerRecord]
  BY Zenon DEF UplinkTypeOK
<1>2. ASSUME NEW s \in SessionRecord, sess' = UpdateTagWindow(s)
      PROVE  Refreshed'
  BY <1>2, UpdateCentred, CentredRefreshed, Zenon DEF Centred
<1>3. ASSUME sess' = sess,
             \A v \in Workers : worker[v].pc = "refresh" => worker'[v].pc = "refresh"
      PROVE  Refreshed'
  BY <1>3, RefreshedCarried, Zenon
<1>4. CASE UNCHANGED uplinkVars
  BY <1>3, <1>4 DEF uplinkVars
<1>5. ASSUME NEW w \in Workers, NEW p \in Packets, NEW r \in BOOLEAN, Lookup(w, p, r)
      PROVE  Refreshed'
  <2>1. sess' = sess \/ sess' = UpdateTagWindow(sess)
    BY <1>5, Zenon DEF Lookup
  <2>2. \A v \in Workers : worker[v].pc = "refresh" => worker'[v].pc = "refresh"
    BY <1>1, <1>5, SetPc DEF Lookup
  <2> QED  BY <1>1, <1>2, <1>3, <2>1, <2>2
<1>6. ASSUME NEW w \in Workers, Decrypt(w)
      PROVE  Refreshed'
  <2>1. sess' = sess
    BY <1>6, Zenon DEF Decrypt
  <2>2. worker[w].pc = "decrypt"
    BY <1>6, Zenon DEF Decrypt
  <2>3. \/ worker' = [worker EXCEPT ![w] = Idle]
        \/ GoTo(w, "ratchet") \/ GoTo(w, "claim")
    BY <1>6 DEF Decrypt
  <2>4. \A v \in Workers : worker[v].pc = "refresh" => worker'[v].pc = "refresh"
    BY <1>1, <2>2, <2>3, SetPc, GoToPc
  <2> QED  BY <1>3, <2>1, <2>4
<1>7. ASSUME NEW w \in Workers, Ratchet(w)
      PROVE  Refreshed'
  <2>1. CASE IsRatcheted(sess)
    <3>1. sess' = sess
      BY <1>7, <2>1 DEF Ratchet, CompleteRatchet
    <3>2. \A v \in Workers : worker[v].pc = "refresh" => worker'[v].pc = "refresh"
      BY <1>1, <1>7, GoToPc DEF Ratchet
    <3> QED  BY <1>3, <3>1, <3>2
  <2>2. CASE ~IsRatcheted(sess)
    <3>1. sess' = CompleteRatchet(sess)
      BY <1>7, Zenon DEF Ratchet
    <3>2. TagSearchCenter(sess') = 0 /\ sess'.base = 0
      BY <1>1, <2>2, <3>1, RatchetWindow, RatchetFields, Zenon
    <3>3. Centred(sess')
      BY <3>2, UplinkAssumption DEF Centred
    <3> QED  BY <3>3, CentredRefreshed
  <2> QED  BY <2>1, <2>2
<1>8. ASSUME NEW w \in Workers, Claim(w)
      PROVE  Refreshed'
  <2> DEFINE p == worker[w].packet
             epoch == AuthenticatedCounterEpoch(sess, p[1], p[2])
  <2>1. worker[w].pc = "claim"
    BY <1>8, Zenon DEF Claim
  <2>2. p[1] \in Nat /\ p[2] \in Nat
    BY <2>1, PacketNat DEF Holding
  <2>3. CASE epoch = "none"
    <3>1. sess' = sess /\ worker' = [worker EXCEPT ![w] = Idle]
      BY <1>8, <2>3, Zenon DEF Claim
    <3>2. \A v \in Workers : worker[v].pc = "refresh" => worker'[v].pc = "refresh"
      BY <1>1, <2>1, <3>1, SetPc
    <3> QED  BY <1>3, <3>1, <3>2
  <2>4. CASE epoch # "none" /\ p[1] # 0
    <3>1. GoTo(w, "refresh")
      <4>1. worker' = [worker EXCEPT ![w] = IF p[1] = 0 THEN Idle
                                            ELSE [worker[w] EXCEPT !.pc = "refresh"]]
        BY <1>8, <2>4, Zenon DEF Claim
      <4> QED  BY <2>4, <4>1 DEF GoTo
    <3>2. worker'[w].pc = "refresh"
      BY <1>1, <3>1, GoToPc
    <3> QED  BY <3>2, Zenon DEF Refreshed
  <2>5. CASE epoch # "none" /\ p[1] = 0
    <3>1. worker' = [worker EXCEPT ![w] = Idle]
      <4>1. worker' = [worker EXCEPT ![w] = IF p[1] = 0 THEN Idle
                                            ELSE [worker[w] EXCEPT !.pc = "refresh"]]
        BY <1>8, <2>5, Zenon DEF Claim
      <4> QED  BY <2>5, <4>1
    <3>2. \A v \in Workers : worker[v].pc = "refresh" => worker'[v].pc = "refresh"
      BY <1>1, <2>1, <3>1, SetPc
    <3>3. sess' = IF epoch = "active" THEN MarkTagReceived(sess, p[2])
                  ELSE MarkPreRatchetReceived(sess, p[2])
      BY <1>8, <2>5, Zenon DEF Claim
    <3>4. CASE epoch = "active"
      <4>1. sess.active = 0
        BY <2>5, <3>4 DEF AuthenticatedCounterEpoch
      <4>2. sess' = MarkTagReceived(sess, p[2])
        BY <3>3, <3>4, Zenon
      <4>3. sess'.active = 0
        BY <1>1, <2>2, <4>1, <4>2, MarkFields
      <4>4. ~IsRatcheted(sess')
        BY <4>3 DEF IsRatcheted
      <4> QED  BY <4>4, Zenon DEF Refreshed
    <3>5. CASE epoch # "active"
      <4>1. sess.grace.key = 0
        BY <2>5, <3>5 DEF AuthenticatedCounterEpoch
      <4>2. ~sess.grace.monotonic
        BY <4>1, Zenon DEF WindowOK, GraceOK
      <4>3. sess' = MarkPreRatchetReceived(sess, p[2])
        BY <3>3, <3>5, Zenon
      <4>4. /\ sess'.active = sess.active /\ sess'.counter = sess.counter
            /\ sess'.hint = sess.hint /\ sess'.base = sess.base
        BY <1>1, <2>2, <4>2, <4>3, MarkGraceFields
      <4>5. /\ IsRatcheted(sess') => IsRatcheted(sess)
            /\ Centred(sess) => Centred(sess')
        BY <4>4, Zenon DEF IsRatcheted, Centred, TagSearchCenter
      <4> QED  BY <3>2, <4>5, RefreshedCarried
    <3> QED  BY <3>4, <3>5
  <2> QED  BY <2>3, <2>4, <2>5
<1>9. ASSUME NEW w \in Workers, RefreshTagWindowIfNeeded(w)
      PROVE  Refreshed'
  <2>1. CASE NeedsRefresh(sess)
    <3>1. sess' = UpdateTagWindow(sess)
      BY <1>9, <2>1, Zenon DEF RefreshTagWindowIfNeeded
    <3> QED  BY <1>1, <1>2, <3>1
  <2>2. CASE ~NeedsRefresh(sess)
    <3>1. sess' = sess
      BY <1>9, <2>2, Zenon DEF RefreshTagWindowIfNeeded
    <3>2. sess.base \in Nat /\ Stride \in Nat
      BY <1>1, UplinkAssumption DEF SessionRecord
    <3>3. TagSearchCenter(sess) \in Nat
      BY <1>1, CenterNat
    <3>4. ~(SatSub(TagSearchCenter(sess), sess.base) >= Stride)
      BY <2>2, Zenon DEF NeedsRefresh
    <3>5. Centred(sess)
      BY <3>2, <3>3, <3>4 DEF SatSub, Centred
    <3> QED  BY <3>1, <3>5, CentredRefreshed, Zenon
  <2> QED  BY <2>1, <2>2
<1>10. ASSUME NEW w \in Workers, RefreshSessionTags(w)
      PROVE  Refreshed'
  <2>1. \A v \in Workers : worker[v].pc = "refresh" => worker'[v].pc = "refresh"
    BY <1>1, <1>10, GoToPc DEF RefreshSessionTags
  <2> QED  BY <1>3, <1>10, <2>1 DEF RefreshSessionTags
<1>11. ASSUME NEW w \in Workers, Process(w)
      PROVE  Refreshed'
  <2>1. worker[w].pc = "process" /\ worker' = [worker EXCEPT ![w] = Idle]
    BY <1>11, Zenon DEF Process
  <2>2. \A v \in Workers : worker[v].pc = "refresh" => worker'[v].pc = "refresh"
    BY <1>1, <2>1, SetPc
  <2>3. CASE sess' = sess
    BY <1>3, <2>2, <2>3
  <2>4. CASE sess.pending /\ sess' = CommitSessionRekey(sess)
    <3>1. sess' = UpdateTagWindow(Adopted(sess))
      BY <2>4 DEF CommitSessionRekey, Adopted
    <3>2. Adopted(sess) \in SessionRecord
      BY <1>1, <2>4, AdoptedWindow
    <3> QED  BY <1>2, <3>1, <3>2
  <2> QED  BY <1>11, <2>3, <2>4, Zenon DEF Process
<1>12. CASE StartRekey
  <2>1. sess' = UpdateTagWindow([sess EXCEPT !.pending = TRUE])
    BY <1>12, Zenon DEF StartRekey
  <2>2. [sess EXCEPT !.pending = TRUE] \in SessionRecord
    BY <1>1, PendingFields, Zenon
  <2> QED  BY <1>2, <2>1, <2>2, Zenon
<1>13. CASE StartRekeyReindex
  BY <1>3, <1>13 DEF StartRekeyReindex
<1>14. CASE GiveUpRekey
  <2>1. /\ sess'.active = sess.active /\ sess'.counter = sess.counter
        /\ sess'.hint = sess.hint /\ sess'.base = sess.base /\ worker' = worker
    BY <1>1, <1>14, PendingFields DEF GiveUpRekey
  <2>2. /\ IsRatcheted(sess') => IsRatcheted(sess)
        /\ Centred(sess) => Centred(sess')
    BY <2>1, Zenon DEF IsRatcheted, Centred, TagSearchCenter
  <2> QED  BY <2>1, <2>2, RefreshedCarried, Zenon
<1>15. CASE GraceExpires
  <2>1. /\ sess'.active = sess.active /\ sess'.counter = sess.counter
        /\ sess'.hint = sess.hint /\ sess'.base = sess.base /\ worker' = worker
    BY <1>1, <1>15, ExpiredFields DEF GraceExpires
  <2>2. /\ IsRatcheted(sess') => IsRatcheted(sess)
        /\ Centred(sess) => Centred(sess')
    BY <2>1, Zenon DEF IsRatcheted, Centred, TagSearchCenter
  <2> QED  BY <2>1, <2>2, RefreshedCarried, Zenon
<1> QED
  BY <1>4, <1>5, <1>6, <1>7, <1>8, <1>9, <1>10, <1>11, <1>12, <1>13, <1>14, <1>15,
     Zenon DEF UplinkNext

\* A step that touches neither the active window nor the index and lets nobody
\* pass the rebuilding of the index keeps the two together.
LEMMA PublishedCarried ==
  ASSUME Published, index' = index, sweep' = sweep,
         \A v \in Workers : worker[v].pc = "reindex" => worker'[v].pc = "reindex",
         sess'.active = sess.active, sess'.lo = sess.lo, sess'.hi = sess.hi
  PROVE  Published'
BY Zenon DEF Published, IsRatcheted

LEMMA PublishedKept ==
  ASSUME UplinkTypeOK, Holding, WindowOK(sess), sess' \in SessionRecord, Published,
         [UplinkNext]_uplinkVars
  PROVE  Published'
<1>1. sess \in SessionRecord /\ worker \in [Workers -> WorkerRecord]
  BY Zenon DEF UplinkTypeOK
<1>2. ASSUME index' = ReindexSession(sess')
      PROVE  Published'
  BY <1>2, ReindexType, Zenon DEF Published
<1>3. CASE UNCHANGED uplinkVars
  BY <1>3, PublishedCarried DEF uplinkVars
<1>4. ASSUME NEW w \in Workers, NEW p \in Packets, NEW r \in BOOLEAN, Lookup(w, p, r)
      PROVE  Published'
  <2>1. (sess' = sess /\ index' = index) \/ index' = ReindexSession(sess')
    BY <1>4, Zenon DEF Lookup
  <2>2. \A v \in Workers : worker[v].pc = "reindex" => worker'[v].pc = "reindex"
    BY <1>1, <1>4, SetPc DEF Lookup
  <2>3. sweep' = sweep
    BY <1>4, Zenon DEF Lookup
  <2> QED  BY <1>2, <2>1, <2>2, <2>3, PublishedCarried, Zenon
<1>5. ASSUME NEW w \in Workers, Decrypt(w)
      PROVE  Published'
  <2>1. sess' = sess /\ index' = index /\ sweep' = sweep /\ worker[w].pc = "decrypt"
    BY <1>5, Zenon DEF Decrypt
  <2>2. \/ worker' = [worker EXCEPT ![w] = Idle]
        \/ GoTo(w, "ratchet") \/ GoTo(w, "claim")
    BY <1>5 DEF Decrypt
  <2>3. \A v \in Workers : worker[v].pc = "reindex" => worker'[v].pc = "reindex"
    BY <1>1, <2>1, <2>2, SetPc, GoToPc
  <2> QED  BY <2>1, <2>3, PublishedCarried, Zenon
<1>6. ASSUME NEW w \in Workers, Ratchet(w)
      PROVE  Published'
  <2>1. CASE IsRatcheted(sess)
    <3>1. sess' = sess /\ index' = index /\ sweep' = sweep
      BY <1>6, <2>1 DEF Ratchet, CompleteRatchet
    <3>2. \A v \in Workers : worker[v].pc = "reindex" => worker'[v].pc = "reindex"
      BY <1>1, <1>6, GoToPc DEF Ratchet
    <3> QED  BY <3>1, <3>2, PublishedCarried, Zenon
  <2>2. CASE ~IsRatcheted(sess)
    BY <1>2, <1>6, <2>2, Zenon DEF Ratchet
  <2> QED  BY <2>1, <2>2
<1>7. ASSUME NEW w \in Workers, Claim(w)
      PROVE  Published'
  <2> DEFINE p == worker[w].packet
  <2>1. worker[w].pc = "claim" /\ index' = index /\ sweep' = sweep
    BY <1>7, Zenon DEF Claim
  <2>2. p[2] \in Nat
    BY <2>1, PacketNat DEF Holding
  <2>3. \/ sess' = sess
        \/ sess' = MarkTagReceived(sess, p[2])
        \/ sess' = MarkPreRatchetReceived(sess, p[2])
    BY <1>7, Zenon DEF Claim
  <2>4. sess'.active = sess.active /\ sess'.lo = sess.lo /\ sess'.hi = sess.hi
    BY <1>1, <2>2, <2>3, MarkFields, MarkGraceFields
  <2>5. \E r : worker' = [worker EXCEPT ![w] = r]
    BY <1>7, Zenon DEF Claim
  <2>6. \A v \in Workers : worker[v].pc = "reindex" => worker'[v].pc = "reindex"
    BY <1>1, <2>1, <2>5, SetPc
  <2> QED  BY <2>1, <2>4, <2>6, PublishedCarried, Zenon
<1>8. ASSUME NEW w \in Workers, RefreshTagWindowIfNeeded(w)
      PROVE  Published'
  <2>0. worker[w].pc = "refresh" /\ index' = index /\ sweep' = sweep
    BY <1>8, Zenon DEF RefreshTagWindowIfNeeded
  <2>1. CASE NeedsRefresh(sess)
    <3>1. GoTo(w, "reindex")
      BY <1>8, <2>1 DEF RefreshTagWindowIfNeeded
    <3>2. worker'[w].pc = "reindex"
      BY <1>1, <3>1, GoToPc
    <3> QED  BY <3>2, Zenon DEF Published
  <2>2. CASE ~NeedsRefresh(sess)
    <3>1. sess' = sess
      BY <1>8, <2>2, Zenon DEF RefreshTagWindowIfNeeded
    <3>2. GoTo(w, "process")
      BY <1>8, <2>2 DEF RefreshTagWindowIfNeeded
    <3>3. \A v \in Workers : worker[v].pc = "reindex" => worker'[v].pc = "reindex"
      BY <1>1, <2>0, <3>2, GoToPc
    <3> QED  BY <2>0, <3>1, <3>3, PublishedCarried, Zenon
  <2> QED  BY <2>1, <2>2
<1>9. ASSUME NEW w \in Workers, RefreshSessionTags(w)
      PROVE  Published'
  BY <1>2, <1>9, Zenon DEF RefreshSessionTags
<1>10. ASSUME NEW w \in Workers, Process(w)
      PROVE  Published'
  <2>1. /\ worker[w].pc = "process" /\ sweep' = sweep
        /\ worker' = [worker EXCEPT ![w] = Idle]
    BY <1>10, Zenon DEF Process
  <2>2. \A v \in Workers : worker[v].pc = "reindex" => worker'[v].pc = "reindex"
    BY <1>1, <2>1, SetPc
  <2>3. (sess' = sess /\ index' = index) \/ index' = ReindexSession(sess')
    BY <1>10, Zenon DEF Process
  <2> QED  BY <1>2, <2>1, <2>2, <2>3, PublishedCarried, Zenon
<1>11. CASE StartRekey
  <2>1. sweep' = "reindex"
    BY <1>11, Zenon DEF StartRekey
  <2>2. sweep' # "idle"
    BY <2>1
  <2> QED  BY <2>2, Zenon DEF Published
<1>12. CASE StartRekeyReindex
  BY <1>2, <1>12, Zenon DEF StartRekeyReindex
<1>13. CASE GiveUpRekey
  <2>1. sess'.active = sess.active /\ sess'.lo = sess.lo /\ sess'.hi = sess.hi
    BY <1>1, <1>13, PendingFields DEF GiveUpRekey
  <2> QED  BY <1>13, <2>1, PublishedCarried DEF GiveUpRekey
<1>14. CASE GraceExpires
  <2>1. sess'.active = sess.active /\ sess'.lo = sess.lo /\ sess'.hi = sess.hi
    BY <1>1, <1>14, ExpiredFields DEF GraceExpires
  <2> QED  BY <1>14, <2>1, PublishedCarried DEF GraceExpires
<1> QED
  BY <1>3, <1>4, <1>5, <1>6, <1>7, <1>8, <1>9, <1>10, <1>11, <1>12, <1>13, <1>14,
     Zenon DEF UplinkNext

-----------------------------------------------------------------------------
(* The theorems. *)

LEMMA UplinkInvInit == UplinkInit => UplinkInv /\ DeliveredSpent
<1>1. SUFFICES ASSUME UplinkInit
               PROVE  UplinkInv /\ DeliveredSpent
  OBVIOUS
<1>2. /\ sess = NewSession /\ index = ReindexSession(NewSession) /\ sweep = "idle"
      /\ worker = [w \in Workers |-> Idle] /\ delivered = [p \in Packets |-> 0]
  BY <1>1 DEF UplinkInit
<1>3. NewSession \in SessionRecord
  BY UplinkAssumption DEF NewSession, SessionRecord, GraceRecord, NoKey, NoHint
<1>4. UplinkTypeOK
  <2>1. index \in IndexRecord
    BY <1>2, <1>3, ReindexType, Zenon
  <2>2. worker \in [Workers -> WorkerRecord] /\ delivered \in [Packets -> Nat]
    BY <1>2, IdleType
  <2> QED  BY <1>2, <1>3, <2>1, <2>2 DEF UplinkTypeOK, IndexRecord
<1>5. Holding
  BY <1>2, IdleType DEF Holding
<1>6. WindowOK(NewSession)
  BY UplinkAssumption DEF WindowOK, GraceOK, NewSession, NoKey, NoHint, SatSub, Ahead,
                          TagSearchCenter, MaxOf
<1>7. ~IsRatcheted(sess)
  BY <1>2 DEF NewSession, IsRatcheted
<1>8. MarksSeen(sess, delivered) /\ GraceSeen(sess, delivered)
  BY <1>2 DEF MarksSeen, GraceSeen, NewSession
<1>9. DeliveredSpent
  BY <1>2 DEF DeliveredSpent
<1> QED
  BY <1>2, <1>4, <1>5, <1>6, <1>7, <1>8, <1>9, Zenon DEF UplinkInv, Refreshed, Published

LEMMA UplinkInvStep == UplinkInv /\ [UplinkNext]_uplinkVars => UplinkInv'
<1>1. SUFFICES ASSUME UplinkInv, [UplinkNext]_uplinkVars
               PROVE  UplinkInv'
  OBVIOUS
<1>2. /\ UplinkTypeOK /\ Holding /\ WindowOK(sess) /\ Refreshed /\ Published
      /\ MarksSeen(sess, delivered) /\ GraceSeen(sess, delivered)
  BY <1>1, Zenon DEF UplinkInv
<1>3. /\ sess \in SessionRecord /\ index \in IndexRecord
      /\ sweep \in {"idle", "reindex"} /\ worker \in [Workers -> WorkerRecord]
      /\ delivered \in [Packets -> Nat]
  BY <1>2, Zenon DEF UplinkTypeOK, IndexRecord
<1>4. SessionStep
  BY <1>1, <1>2, StepMovesSession
<1>5. sess' \in SessionRecord /\ WindowOK(sess')
  BY <1>2, <1>3, <1>4, ShapeKept
<1>6. /\ delivered' \in [Packets -> Nat]
      /\ MarksSeen(sess', delivered') /\ GraceSeen(sess', delivered')
  <2>1. CASE delivered' = delivered /\ SessionMoves
    BY <1>2, <1>3, <2>1, MovesSeen, Zenon
  <2>2. ASSUME NEW p \in Packets, Claimed(p),
               delivered' = [delivered EXCEPT ![p] = @ + 1]
        PROVE  /\ delivered' \in [Packets -> Nat]
               /\ MarksSeen(sess', delivered') /\ GraceSeen(sess', delivered')
    BY <1>2, <1>3, <2>2, ClaimSeen, Zenon
  <2> QED  BY <1>4, <2>1, <2>2, Zenon DEF SessionStep
<1>7. WorkersOK'
  BY <1>1, <1>2, <1>3, WorkersKept DEF WorkersOK
<1>8. index' \in IndexRecord /\ sweep' \in {"idle", "reindex"}
  BY <1>1, <1>3, <1>5, StepMovesIndex, ReindexType, Zenon
<1>9. UplinkTypeOK' /\ Holding'
  BY <1>5, <1>6, <1>7, <1>8, Zenon DEF UplinkTypeOK, IndexRecord, WorkersOK
<1>10. Refreshed'
  BY <1>1, <1>2, RefreshedKept
<1>11. Published'
  BY <1>1, <1>2, <1>5, PublishedKept
<1> QED  BY <1>5, <1>6, <1>9, <1>10, <1>11, Zenon DEF UplinkInv

LEMMA UplinkInvNothingLost == UplinkInv => NothingLost
<1>1. SUFFICES ASSUME UplinkInv
               PROVE  NothingLost
  OBVIOUS
<1>2. /\ UplinkTypeOK /\ WindowOK(sess) /\ Refreshed /\ Published
      /\ MarksSeen(sess, delivered) /\ GraceSeen(sess, delivered)
  BY <1>1, Zenon DEF UplinkInv
<1>3. sess \in SessionRecord
  BY <1>2, Zenon DEF UplinkTypeOK
<1>4. RefusesOnlyReplays
  <2>1. SUFFICES ASSUME NEW p \in Packets,
                        \/ p[1] = sess.active /\ ~CounterIsFresh(sess, p[2])
                        \/ p[1] = sess.grace.key /\ p[2] \in sess.grace.received
                 PROVE  delivered[p] > 0 \/ LeftBehind(p)
    BY Zenon DEF RefusesOnlyReplays
  <2>2. delivered[p] > 0 \/ Behind(delivered, p)
    BY <1>2, <1>3, <2>1, RefusedSeen, Zenon DEF GraceSeen
  <2>3. Behind(delivered, p) => LeftBehind(p)
    BY Zenon DEF Behind, LeftBehind, Shares
  <2> QED  BY <2>2, <2>3
<1>5. IndexFollowsSession
  <2>1. SUFFICES ASSUME IsRatcheted(sess), sweep = "idle",
                        \A w \in Workers : worker[w].pc \notin {"refresh", "reindex"}
                 PROVE  /\ index.active.key = sess.active
                        /\ index.active.lo <= SatSub(TagSearchCenter(sess), TagWindow - 1)
                        /\ index.active.hi >= TagSearchCenter(sess) + Ahead(sess) - (Stride - 1)
    BY Zenon DEF IndexFollowsSession
  <2>2. index.active = [key |-> sess.active, lo |-> sess.lo, hi |-> sess.hi]
    BY <1>2, <2>1 DEF Published
  <2>3. TagSearchCenter(sess) < sess.base + Stride
    BY <1>2, <2>1 DEF Refreshed
  <2>4. /\ sess.lo = SatSub(sess.base, TagWindow - 1)
        /\ sess.hi >= sess.base + Ahead(sess)
        /\ sess.base <= TagSearchCenter(sess)
    BY <1>2, Zenon DEF WindowOK
  <2>5. /\ TagSearchCenter(sess) \in Nat /\ sess.base \in Nat /\ sess.hi \in Nat
        /\ TagWindow - 1 \in Nat /\ Ahead(sess) \in Nat /\ Stride \in Nat
    BY <1>3, CenterNat, UplinkAssumption DEF SessionRecord, Ahead
  <2>6. sess.lo <= SatSub(TagSearchCenter(sess), TagWindow - 1)
    BY <2>4, <2>5 DEF SatSub
  <2>7. sess.hi >= TagSearchCenter(sess) + Ahead(sess) - (Stride - 1)
    BY <2>3, <2>4, <2>5
  <2> QED  BY <2>2, <2>6, <2>7
<1> QED  BY <1>2, <1>4, <1>5 DEF NothingLost

\* What a session refuses as a replay, under its active key or the one it
\* retains, was delivered or lies a window behind a delivered packet, and the
\* tag index follows the session through the PFS ratchet and inline rekeys:
\* for any number of workers, keys and packets (update_tag_window,
\* preserve_replay_for_grace, commit_session_rekey, refresh_session_tags).
THEOREM NothingIsLost == UplinkSpec => []NothingLost
<1>1. UplinkInit => UplinkInv
  BY UplinkInvInit
<1>2. UplinkInv /\ [UplinkNext]_uplinkVars => UplinkInv'
  BY UplinkInvStep
<1> QED  BY <1>1, <1>2, UplinkInvNothingLost, PTL DEF UplinkSpec

\* A rekey is committed only while no worker stands between its claim of a
\* packet and its refresh of the tag window: the two critical sections of
\* handle_packet, seen as one by commit_session_rekey.
RekeyWaits ==
  KeyCommitted => \A w \in Workers : worker[w].pc # "refresh"

\* What the active key has delivered is not newer than its newest counter.
LEMMA CounterReaches ==
  ASSUME sess \in SessionRecord, DeliveredSpent, sess.counter <= sess.hi
  PROVE  Reaches
<1>1. SUFFICES ASSUME NEW p \in Packets, delivered[p] > 0, p[1] = sess.active
               PROVE  p[2] <= sess.hi
  BY Zenon DEF Reaches
<1>2. ~CounterIsFresh(sess, p[2])
  BY <1>1, Zenon DEF DeliveredSpent, Spent
<1>3. sess.counter \in Nat /\ sess.hi \in Nat
  BY DEF SessionRecord
<1>4. p[2] <= sess.counter
  BY <1>2, <1>3, PacketNat DEF CounterIsFresh
<1> QED  BY <1>3, <1>4, PacketNat

LEMMA WaitingReaches ==
  ASSUME UplinkInv, DeliveredSpent, KeyCommitted,
         \A w \in Workers : worker[w].pc # "refresh"
  PROVE  Reaches
<1>1. WindowOK(sess) /\ sess \in SessionRecord /\ Refreshed
  BY Zenon DEF UplinkInv, UplinkTypeOK
<1>2. IsRatcheted(sess)
  BY <1>1 DEF KeyCommitted, WindowOK, GraceOK, IsRatcheted
<1>3. TagSearchCenter(sess) < sess.base + Stride
  BY <1>1, <1>2, Zenon DEF Refreshed
<1>4. /\ TagSearchCenter(sess) \in Nat /\ TagSearchCenter(sess) >= sess.counter
      /\ sess.counter \in Nat /\ sess.base \in Nat /\ sess.hi \in Nat
  BY <1>1, CenterNat DEF SessionRecord
<1>5. /\ sess.hi >= sess.base + Ahead(sess)
      /\ Ahead(sess) >= TagWindow - 1 /\ Ahead(sess) \in Nat
  BY <1>1, UplinkAssumption DEF WindowOK, Ahead
<1>6. sess.counter <= sess.hi
  BY <1>3, <1>4, <1>5, UplinkAssumption
<1> QED  BY <1>1, <1>6, CounterReaches

\* No packet is delivered twice, however often the network repeats it, as long
\* as every commit waits for the workers that have claimed a packet and not
\* yet refreshed the window: the window of session_uplink_far is the only way
\* to a second delivery (handle_packet, commit_session_rekey).
THEOREM DeliveredOnceIfRekeyWaits ==
  UplinkSpec /\ [][RekeyWaits]_uplinkVars => []AtMostOnce
<1> DEFINE I == UplinkInv /\ DeliveredSpent
<1>1. UplinkInit => I
  BY UplinkInvInit
<1>2. I /\ [UplinkNext]_uplinkVars /\ [RekeyWaits]_uplinkVars => I'
  <2>1. SUFFICES ASSUME UplinkInv, DeliveredSpent,
                        [UplinkNext]_uplinkVars, [RekeyWaits]_uplinkVars
                 PROVE  UplinkInv' /\ DeliveredSpent'
    OBVIOUS
  <2>2. UplinkInv'
    BY <2>1, UplinkInvStep
  <2>3. /\ sess \in SessionRecord /\ WindowOK(sess) /\ Holding
        /\ delivered \in [Packets -> Nat]
    BY <2>1, Zenon DEF UplinkInv, UplinkTypeOK
  <2>4. CASE UNCHANGED uplinkVars
    <3>1. sess' = sess /\ delivered' = delivered
      BY <2>4 DEF uplinkVars
    <3> QED  BY <2>1, <2>2, <3>1, Zenon DEF DeliveredSpent
  <2>5. CASE RekeyWaits
    <3>1. KeyCommitted => Reaches
      BY <2>1, <2>5, WaitingReaches, Zenon DEF RekeyWaits
    <3>2. SessionStep
      BY <2>1, <2>3, StepMovesSession
    <3> QED  BY <2>1, <2>2, <2>3, <3>1, <3>2, SpentKept
  <2> QED  BY <2>1, <2>4, <2>5
<1>3. I => AtMostOnce
  BY Zenon DEF DeliveredSpent, AtMostOnce
<1> QED  BY <1>1, <1>2, <1>3, PTL DEF UplinkSpec

\* No packet is delivered twice as long as the client's counters stay within
\* the tags first published while a rekey is pending: then a commit hands the
\* whole history over whatever the workers are doing.  It is the case the
\* sessions run explores (update_tag_window, preserve_replay_for_grace).
THEOREM DeliveredOnceWithinReach ==
  ASSUME \A p \in Packets : p[2] <= TagWindow - 1 + Lookahead
  PROVE  UplinkSpec => []AtMostOnce
<1> DEFINE I == UplinkInv /\ DeliveredSpent
<1>1. UplinkInit => I
  BY UplinkInvInit
<1>2. I /\ [UplinkNext]_uplinkVars => I'
  <2>1. SUFFICES ASSUME UplinkInv, DeliveredSpent, [UplinkNext]_uplinkVars
                 PROVE  UplinkInv' /\ DeliveredSpent'
    OBVIOUS
  <2>2. UplinkInv'
    BY <2>1, UplinkInvStep
  <2>3. /\ sess \in SessionRecord /\ WindowOK(sess) /\ Holding
        /\ delivered \in [Packets -> Nat]
    BY <2>1, Zenon DEF UplinkInv, UplinkTypeOK
  <2>4. KeyCommitted => Reaches
    <3>1. SUFFICES ASSUME KeyCommitted, NEW p \in Packets
                   PROVE  p[2] <= sess.hi
      BY Zenon DEF Reaches
    <3>2. Ahead(sess) = TagWindow - 1 + Lookahead
      BY <3>1 DEF KeyCommitted, Ahead
    <3>3. sess.hi >= sess.base + Ahead(sess)
      BY <2>3, Zenon DEF WindowOK
    <3>4. sess.hi \in Nat /\ sess.base \in Nat
      BY <2>3 DEF SessionRecord
    <3>5. p[2] <= TagWindow - 1 + Lookahead
      OBVIOUS
    <3> QED  BY <3>2, <3>3, <3>4, <3>5, PacketNat, UplinkAssumption
  <2>5. SessionStep
    BY <2>1, <2>3, StepMovesSession
  <2> QED  BY <2>1, <2>2, <2>3, <2>4, <2>5, SpentKept
<1>3. I => AtMostOnce
  BY Zenon DEF DeliveredSpent, AtMostOnce
<1> QED  BY <1>1, <1>2, <1>3, PTL DEF UplinkSpec

\* A packet delivered under the active key lies within the tags published for
\* that key: it was not found by the wider search of recover_session_by_tag.
ClaimsWithinTags ==
  \A p \in Packets : delivered'[p] > delivered[p] /\ p[1] = sess.active
                     => p[2] <= sess.hi

LEMMA UpdateBounds ==
  ASSUME NEW s \in SessionRecord
  PROVE  UpdateTagWindow(s).counter <= UpdateTagWindow(s).hi
<1>1. /\ UpdateTagWindow(s).counter = s.counter
      /\ UpdateTagWindow(s).hi = TagSearchCenter(s) + Ahead(s)
  BY UpdateFields
<1>2. Ahead(s) \in Nat /\ s.counter \in Nat
  BY UplinkAssumption DEF Ahead, SessionRecord
<1> QED  BY <1>1, <1>2, CenterNat

LEMMA BoundKept ==
  ASSUME sess \in SessionRecord, WindowOK(sess), delivered \in [Packets -> Nat],
         SessionStep, ClaimsWithinTags, sess.counter <= sess.hi
  PROVE  sess'.counter <= sess'.hi
<1>1. CASE sess' = sess
  BY <1>1
<1>2. CASE sess' = UpdateTagWindow(sess)
  BY <1>2, UpdateBounds
<1>3. CASE ~IsRatcheted(sess) /\ sess' = CompleteRatchet(sess)
  <2>1. sess'.counter = 0 /\ sess'.hi = TagWindow - 1
    BY <1>3, RatchetFields, Zenon
  <2> QED  BY <2>1, UplinkAssumption
<1>4. CASE KeyCommitted
  <2>1. Adopted(sess) \in SessionRecord
    BY <1>4, AdoptedWindow DEF KeyCommitted
  <2> QED  BY <1>4, <2>1, UpdateBounds, Zenon DEF KeyCommitted
<1>5. CASE RekeyStarted
  <2>1. [sess EXCEPT !.pending = TRUE] \in SessionRecord
    BY PendingFields, Zenon
  <2> QED  BY <1>5, <2>1, UpdateBounds, Zenon DEF RekeyStarted
<1>6. CASE sess' = [sess EXCEPT !.pending = FALSE]
  BY <1>6, PendingFields
<1>7. CASE sess' = [sess EXCEPT !.grace.live = FALSE]
  BY <1>7, ExpiredFields
<1>8. ASSUME NEW p \in Packets, Claimed(p),
             delivered' = [delivered EXCEPT ![p] = @ + 1]
      PROVE  sess'.counter <= sess'.hi
  <2>1. p[2] \in Nat
    BY PacketNat
  <2>2. CASE ClaimedActive(p)
    <3>1. p[1] = sess.active /\ sess' = MarkTagReceived(sess, p[2])
      BY <2>2, Zenon DEF ClaimedActive
    <3>2. delivered'[p] > delivered[p]
      BY <1>8
    <3>3. p[2] <= sess.hi
      BY <3>1, <3>2, Zenon DEF ClaimsWithinTags
    <3>4. sess'.counter = MaxOf(sess.counter, p[2]) /\ sess'.hi = sess.hi
      BY <2>1, <3>1, MarkFields
    <3> QED  BY <3>3, <3>4 DEF MaxOf
  <2>3. CASE ClaimedGrace(p)
    <3>1. sess' = MarkPreRatchetReceived(sess, p[2])
      BY <2>3, Zenon DEF ClaimedGrace
    <3> QED  BY <2>1, <3>1, MarkGraceFields
  <2> QED  BY <1>8, <2>2, <2>3, Zenon DEF Claimed
<1> QED
  BY <1>1, <1>2, <1>3, <1>4, <1>5, <1>6, <1>7, <1>8, Zenon DEF SessionStep, SessionMoves

\* No packet is delivered twice, whatever the commits do, as long as every
\* packet delivered under the active key lies within the published tags: a
\* second delivery takes a packet beyond them as well as a commit that does not
\* wait (recover_session_by_tag, preserve_replay_for_grace).
THEOREM DeliveredOnceWithinTags ==
  UplinkSpec /\ [][ClaimsWithinTags]_uplinkVars => []AtMostOnce
<1> DEFINE I == UplinkInv /\ DeliveredSpent /\ sess.counter <= sess.hi
<1>1. UplinkInit => I
  <2>1. UplinkInit => sess.counter <= sess.hi
    BY UplinkAssumption DEF UplinkInit, NewSession
  <2> QED  BY <2>1, UplinkInvInit
<1>2. I /\ [UplinkNext]_uplinkVars /\ [ClaimsWithinTags]_uplinkVars => I'
  <2>1. SUFFICES ASSUME UplinkInv, DeliveredSpent, sess.counter <= sess.hi,
                        [UplinkNext]_uplinkVars, [ClaimsWithinTags]_uplinkVars
                 PROVE  UplinkInv' /\ DeliveredSpent' /\ sess'.counter <= sess'.hi
    OBVIOUS
  <2>2. UplinkInv'
    BY <2>1, UplinkInvStep
  <2>3. /\ sess \in SessionRecord /\ WindowOK(sess) /\ Holding
        /\ delivered \in [Packets -> Nat]
    BY <2>1, Zenon DEF UplinkInv, UplinkTypeOK
  <2>4. SessionStep
    BY <2>1, <2>3, StepMovesSession
  <2>5. DeliveredSpent'
    BY <2>1, <2>3, <2>4, CounterReaches, SpentKept
  <2>6. CASE UNCHANGED uplinkVars
    <3>1. sess' = sess
      BY <2>6 DEF uplinkVars
    <3> QED  BY <2>1, <2>2, <2>5, <3>1, Zenon
  <2>7. CASE ClaimsWithinTags
    BY <2>1, <2>2, <2>3, <2>4, <2>5, <2>7, BoundKept
  <2> QED  BY <2>1, <2>6, <2>7
<1>3. I => AtMostOnce
  BY Zenon DEF DeliveredSpent, AtMostOnce
<1> QED  BY <1>1, <1>2, <1>3, PTL DEF UplinkSpec

=============================================================================
