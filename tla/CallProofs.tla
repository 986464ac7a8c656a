----------------------------- MODULE CallProofs -----------------------------
(***************************************************************************)
(* MgmtClient, for any callers, timeouts and losses: a call of the         *)
(* management API gets the answer to its own request, and a request that   *)
(* must not be repeated is not.                                            *)
(***************************************************************************)
EXTENDS MgmtClient, TLAPS

-----------------------------------------------------------------------------
(* Calls of the management API *)

(* The callers in the queue's care: those before their request is sent. *)
Ahead == {"queue", "pace", "reserve", "reserved"}
Holding == {"pace", "reserve", "reserved"}
Unsent == {"new", "queue", "pace", "reserve", "reserved", "backoff"}

(* A caller that is past the queue's lock stands first in it, and one that
   is past the pause finds no pause; one place in the channel is reserved. *)
LineOK ==
  /\ \A c \in Callers : call[c].at \in {"queue", "pace", "backoff"} => c \notin Diagnostics
  /\ \A c \in Callers \ Diagnostics :
       /\ call[c].at \in Ahead => \E i \in 1 .. Len(queue) : queue[i] = c
       /\ call[c].at \in Holding => queue[1] = c
       /\ call[c].at \in {"reserve", "reserved"} => pause = 0
  /\ \A c \in Callers : At(c, "reserved") =>
       channel = <<>> /\ \A d \in Callers : At(d, "reserved") => d = c

(* The request in the channel, if there is one. *)
Queued == IF channel = <<>> THEN {} ELSE {Head(channel)} \ {Other}
NoRequest(c) == \A m \in Queued \union sent : m.by # c
NoReply(c) == \A a \in answers : a.by # c

(* A request or an answer has the id its caller knows; no id is used twice. *)
IdsOK ==
  /\ seq > 0
  /\ \A c \in Callers : call[c].id < seq
  /\ \A c, d \in Callers : call[c].id = call[d].id /\ c # d => call[c].id = 0
  /\ \A m \in Queued \union sent \union answers : m.id = call[m.by].id /\ m.id > 0
  /\ \A p \in pending : p.id > 0

(* Of each caller at most one request or answer is under way. *)
MessagesApart ==
  /\ \A m \in Queued, r \in sent : r.by # m.by
  /\ \A r, q \in sent : r.by = q.by => r = q
  /\ \A a, b \in answers : a.by = b.by => a = b
  /\ \A a \in answers : NoRequest(a.by) /\ (a.status = 429 => executed[a.by] = 0)
  /\ \A c \in Callers : ~NoRequest(c) => executed[c] = 0

(* There is none while the caller may send one, and an answer it took was its own. *)
Knows(c) ==
  /\ call[c].at \in Unsent => NoRequest(c) /\ NoReply(c) /\ executed[c] = 0
  /\ At(c, "answered") => NoRequest(c) /\ NoReply(c) /\
       (call[c].got.status = 429 => executed[c] = 0)
  /\ call[c].at \in {"answered", "done"} => call[c].got.by = c /\ call[c].got.id = call[c].id
  /\ At(c, "backoff") => call[c].attempt < MaxGetRetries

OneUnderWay == MessagesApart /\ \A c \in Callers : Knows(c)

CallsInv ==
  /\ CallTypeOK /\ LineOK /\ IdsOK /\ OneUnderWay
  /\ NoLeak /\ AtMostOnce /\ NeverStale /\ NeverRushed

LEMMA InitCalls == CallsInit => CallsInv
<1> SUFFICES ASSUME CallsInit PROVE CallsInv
  OBVIOUS
<1>1. New \in CallRecord /\ New.at = "new" /\ New.id = 0
  <2>1. Timeout \in 0 .. Timeout /\ 0 \in 0 .. MaxGetRetries
    BY CallsAssumption DEF MaxGetRetries
  <2>2. NoAnswer \in Answer
    BY DEF NoAnswer, NoId, Answer
  <2>3. "new" \in CallPhases
    BY DEF CallPhases
  <2>4. QED
    BY <2>1, <2>2, <2>3 DEF New, CallRecord, NoId
<1>2. \A c \in Callers : call[c] = New
  BY DEF CallsInit
<1>3. CallTypeOK
  <2>1. call \in [Callers -> CallRecord] /\ executed \in [Callers -> Nat]
    BY <1>1 DEF CallsInit
  <2>2. queue \in Seq(Callers) /\ channel \in Seq(Request \union {Other}) /\ Len(channel) = 0
    BY DEF CallsInit
  <2>3. budget \in [lost : Nat, busy : Nat, other : Nat]
    BY DEF CallsInit
  <2>4. pause \in 0 .. 1 /\ pending = {} /\ seq \in Nat /\ epoch \in Nat /\ sent = {} /\ answers = {}
    BY DEF CallsInit
  <2>5. stale \in BOOLEAN /\ rushed \in BOOLEAN
    BY Zenon DEF CallsInit
  <2>6. QED
    BY <2>1, <2>2, <2>3, <2>4, <2>5 DEF CallTypeOK
<1>4. Queued = {} /\ sent = {} /\ answers = {} /\ pending = {} /\ seq = 1
  BY DEF CallsInit, Queued
<1>5. LineOK
  BY <1>1, <1>2 DEF LineOK, Ahead, Holding, At
<1>6. IdsOK
  BY <1>1, <1>2, <1>4 DEF IdsOK
<1>7. OneUnderWay
  BY <1>1, <1>2, <1>4, SMTT(30) DEF OneUnderWay, MessagesApart, Knows, NoRequest, NoReply, At, CallsInit
<1>8. NoLeak /\ AtMostOnce /\ NeverStale /\ NeverRushed
  BY DEF CallsInit, NoLeak, AtMostOnce, NeverStale, NeverRushed
<1>9. QED
  BY <1>3, <1>5, <1>6, <1>7, <1>8, Zenon DEF CallsInv

(* Somebody stands in the queue. *)
Stands(d) == \E i \in 1 .. Len(queue) : queue[i] = d

(* When c leaves, the others stay in line, and whoever was first is first. *)
LEMMA WithoutKeeps ==
  ASSUME queue \in Seq(Callers), NEW c \in Callers
  PROVE  /\ Without(c) \in Seq(Callers)
         /\ \A d \in Callers \ {c} : Stands(d) =>
              /\ \E i \in 1 .. Len(Without(c)) : Without(c)[i] = d
              /\ queue[1] = d => Without(c)[1] = d
<1>1. CASE ~Stands(c)
  BY <1>1 DEF Without, Stands
<1>2. CASE Stands(c)
  <2> DEFINE k == CHOOSE i \in 1 .. Len(queue) : queue[i] = c
             w == [i \in 1 .. Len(queue) - 1 |-> queue[IF i < k THEN i ELSE i + 1]]
  <2>1. k \in 1 .. Len(queue) /\ queue[k] = c
    BY <1>2 DEF Stands
  <2>2. Without(c) = w
    BY <1>2 DEF Without, Stands
  <2> HIDE DEF k
  <2>3. Len(queue) \in Nat /\ \A i \in 1 .. Len(queue) : queue[i] \in Callers
    OBVIOUS
  <2>4. \A i \in 1 .. Len(queue) - 1 : w[i] = queue[IF i < k THEN i ELSE i + 1] /\ w[i] \in Callers
    BY <2>1, <2>3
  <2>5. w \in Seq(Callers) /\ Len(w) = Len(queue) - 1
    <3>1. Len(queue) - 1 \in Nat
      BY <2>1, <2>3
    <3>2. w \in [1 .. Len(queue) - 1 -> Callers]
      BY <2>4
    <3>3. QED
      BY <3>1, <3>2
  <2> HIDE DEF w
  <2>6. ASSUME NEW d \in Callers \ {c}, Stands(d)
        PROVE  /\ \E i \in 1 .. Len(w) : w[i] = d
               /\ queue[1] = d => w[1] = d
    <3>1. PICK j \in 1 .. Len(queue) : queue[j] = d
      BY <2>6 DEF Stands
    <3>2. j # k
      BY <2>1, <2>6, <3>1
    <3>3. CASE j < k
      <4>1. j \in 1 .. Len(queue) - 1 /\ w[j] = d
        BY <2>1, <2>3, <2>4, <3>1, <3>3
      <4>2. queue[1] = d => w[1] = d
        BY <2>1, <2>3, <2>4, <2>6, <3>3
      <4>3. QED
        BY <2>5, <4>1, <4>2
    <3>4. CASE j > k
      <4>1. j - 1 \in 1 .. Len(queue) - 1 /\ w[j - 1] = d
        BY <2>1, <2>3, <2>4, <3>1, <3>4
      <4>2. queue[1] = d => w[1] = d
        BY <2>1, <2>3, <2>4, <2>6, <3>1, <3>4
      <4>3. QED
        BY <2>5, <4>1, <4>2, Zenon
    <3>5. QED
      BY <2>1, <2>3, <3>1, <3>2, <3>3, <3>4
  <2>7. QED
    BY <2>2, <2>5, <2>6
<1>3. QED
  BY <1>1, <1>2

LEMMA AppendKeeps ==
  ASSUME queue \in Seq(Callers), NEW c \in Callers, queue' = Append(queue, c)
  PROVE  /\ queue' \in Seq(Callers) /\ Stands(c)'
         /\ \A d \in Callers : Stands(d) => Stands(d)' /\ (queue[1] = d => queue'[1] = d)
<1>1. /\ queue' \in Seq(Callers) /\ Len(queue') = Len(queue) + 1
      /\ queue'[Len(queue) + 1] = c /\ Len(queue) \in Nat
      /\ \A i \in 1 .. Len(queue) : queue'[i] = queue[i]
  OBVIOUS
<1>2. QED
  BY <1>1 DEF Stands

Retriable(r) == r.attempt < MaxGetRetries

(* A caller takes a step that touches neither the channel nor the network. *)
LEMMA CallMoves ==
  ASSUME CallsInv, NEW c \in Callers, NEW r \in CallRecord, call' = [call EXCEPT ![c] = r],
         UNCHANGED <<pause, seq, epoch, channel, sent, answers, executed, budget, stale, rushed>>,
         pending' \subseteq pending, \A p \in pending' : p.by # c,
         queue' \in Seq(Callers),
         \A d \in Callers \ {c} : Stands(d) => Stands(d)' /\ (queue[1] = d => queue'[1] = d),
         r.at \in {"queue", "pace", "backoff"} => c \notin Diagnostics,
         c \notin Diagnostics =>
           /\ r.at \in Ahead => Stands(c)'
           /\ r.at \in Holding => queue'[1] = c
           /\ r.at \in {"reserve", "reserved"} => pause = 0,
         r.at = "reserved" => channel = <<>> /\ \A d \in Callers : ~At(d, "reserved"),
         r.id = call[c].id \/ (r.id = 0 /\ NoRequest(c) /\ NoReply(c)),
         r.at \in Unsent => NoRequest(c) /\ NoReply(c) /\ executed[c] = 0,
         r.at # "answered",
         r.at = "done" => r.got.by = c /\ r.got.id = r.id,
         r.at = "backoff" => Retriable(r)
  PROVE  CallsInv'
<1>1. CallTypeOK /\ LineOK /\ IdsOK /\ OneUnderWay
  BY DEF CallsInv
<1>2. \A d \in Callers : call'[d] = IF d = c THEN r ELSE call[d]
  BY <1>1 DEF CallTypeOK
<1>3. CallTypeOK'
  BY <1>1 DEF CallTypeOK
<1>4. LineOK'
  <2>1. \A d \in Callers : call'[d].at \in {"queue", "pace", "backoff"} => d \notin Diagnostics
    BY <1>1, <1>2 DEF LineOK
  <2>2. ASSUME NEW d \in Callers \ Diagnostics
        PROVE  /\ call'[d].at \in Ahead => Stands(d)'
               /\ call'[d].at \in Holding => queue'[1] = d
               /\ call'[d].at \in {"reserve", "reserved"} => pause' = 0
    <3>1. CASE d = c
      BY <1>2, <3>1
    <3>2. CASE d # c
      <4>1. Holding \subseteq Ahead /\ call'[d] = call[d]
        BY <1>2, <3>2, Zenon DEF Holding, Ahead
      <4>2. call[d].at \in Ahead => Stands(d)
        BY <1>1, Zenon DEF LineOK, Stands
      <4>3. QED
        BY <1>1, <3>2, <4>1, <4>2, Zenon DEF LineOK
    <3>3. QED
      BY <3>1, <3>2, Zenon
  <2>3. \A d \in Callers : call'[d].at = "reserved" =>
          channel' = <<>> /\ \A e \in Callers : call'[e].at = "reserved" => e = d
    BY <1>1, <1>2 DEF LineOK, At
  <2>4. QED
    BY <2>1, <2>2, <2>3, Zenon DEF LineOK, Stands, At
<1>5. Queued' = Queued /\ \A d \in Callers : NoRequest(d)' = NoRequest(d) /\ NoReply(d)' = NoReply(d)
  BY Zenon DEF Queued, NoRequest, NoReply
<1>6. \A m \in Queued \union sent \union answers : m.by \in Callers
  BY <1>1 DEF CallTypeOK, Queued, Request
<1>7. IdsOK'
  <2>1. \A m \in Queued \union sent \union answers : m.by # c \/ r.id = call[c].id
    BY Zenon DEF NoRequest, NoReply
  <2>2. \A d \in Callers : call'[d].id = call[d].id \/ (d = c /\ call'[d].id = 0)
    BY <1>2, Zenon
  <2>3. \A d \in Callers : call'[d].id < seq
    BY <1>1, <2>2, Zenon DEF IdsOK
  <2>4. \A d, e \in Callers : call'[d].id = call'[e].id /\ d # e => call'[d].id = 0
    BY <1>1, <2>2 DEF IdsOK
  <2>5. \A m \in Queued \union sent \union answers : m.id = call'[m.by].id /\ m.id > 0
    BY <1>1, <1>2, <1>6, <2>1 DEF IdsOK
  <2>6. QED
    BY <1>1, <1>5, <2>3, <2>4, <2>5, Zenon DEF IdsOK
<1>8. OneUnderWay'
  <2>1. ASSUME NEW d \in Callers
        PROVE  /\ call'[d].at \in Unsent => NoRequest(d) /\ NoReply(d) /\ executed[d] = 0
               /\ call'[d].at = "answered" => NoRequest(d) /\ NoReply(d) /\
                    (call'[d].got.status = 429 => executed[d] = 0)
               /\ call'[d].at \in {"answered", "done"} =>
                    call'[d].got.by = d /\ call'[d].got.id = call'[d].id
               /\ call'[d].at = "backoff" => call'[d].attempt < MaxGetRetries
    BY <1>1, <1>2, SMTT(30) DEF OneUnderWay, Knows, At, Retriable
  <2>2. \A a \in answers : NoRequest(a.by)' /\ (a.status = 429 => executed'[a.by] = 0)
    BY <1>1, <1>5, <1>6, SMTT(30) DEF OneUnderWay, MessagesApart
  <2>3. \A d \in Callers : ~NoRequest(d)' => executed'[d] = 0
    BY <1>1, <1>5, Zenon DEF OneUnderWay, MessagesApart
  <2>4. QED
    BY <1>1, <1>5, <2>1, <2>2, <2>3, SMTT(30) DEF OneUnderWay, MessagesApart, Knows, At
<1>9. NoLeak'
  <2>1. \A p \in pending : p.by \in Callers
    BY <1>1, Zenon DEF CallTypeOK, Request
  <2>2. QED
    BY <1>2, <2>1 DEF CallsInv, NoLeak, At
<1>10. AtMostOnce' /\ NeverStale' /\ NeverRushed'
  BY Zenon DEF CallsInv, AtMostOnce, NeverStale, NeverRushed
<1>11. QED
  BY <1>3, <1>4, <1>7, <1>8, <1>9, <1>10 DEF CallsInv

LEMMA StartHolds ==
  ASSUME CallsInv, NEW c \in Callers, Start(c)
  PROVE  CallsInv'
<1>1. CallTypeOK /\ LineOK /\ OneUnderWay /\ NoLeak /\ call[c] \in CallRecord /\ call[c].at = "new"
  BY Zenon DEF CallsInv, CallTypeOK, Start, At
<1> DEFINE x == IF ~HasSlot(c) THEN "failed" ELSE IF c \in Diagnostics THEN "reserve" ELSE "queue"
           r == [call[c] EXCEPT !.epoch = epoch, !.at = x]
<1>2. call' = [call EXCEPT ![c] = r]
  BY <1>1, Zenon DEF Start, CallTypeOK
<1>3. /\ x \in {"failed", "reserve", "queue"}
      /\ (x = "reserve" => c \in Diagnostics) /\ (x = "queue" => c \notin Diagnostics)
      /\ queue' = IF x = "queue" THEN Append(queue, c) ELSE queue
  BY DEF Start
<1> HIDE DEF x
<1>4. r \in CallRecord /\ r.at = x /\ r.id = call[c].id
  <2>1. epoch \in Nat
    BY <1>1 DEF CallTypeOK
  <2>2. x \in CallPhases
    BY <1>3, Zenon DEF CallPhases
  <2>3. QED
    BY <1>1, <2>1, <2>2, Zenon DEF CallRecord
<1> HIDE DEF r
<1>5. /\ queue' \in Seq(Callers) /\ (x = "queue" => Stands(c)')
      /\ \A d \in Callers \ {c} : Stands(d) => Stands(d)' /\ (queue[1] = d => queue'[1] = d)
  <2>1. CASE x = "queue"
    <3>1. queue \in Seq(Callers) /\ queue' = Append(queue, c)
      BY <1>1, <1>3, <2>1 DEF CallTypeOK
    <3>2. QED
      BY <3>1, AppendKeeps
  <2>2. CASE x # "queue"
    BY <1>1, <1>3, <2>2 DEF CallTypeOK, Stands
  <2>3. QED
    BY <2>1, <2>2
<1>6. UNCHANGED <<pause, seq, epoch, channel, sent, answers, executed, budget, stale, rushed>>
      /\ pending' = pending
  BY DEF Start, net, history
<1>7. pending' \subseteq pending /\ \A p \in pending' : p.by # c
  BY <1>1, <1>6 DEF NoLeak, At
<1>8. NoRequest(c) /\ NoReply(c) /\ executed[c] = 0
  BY <1>1, Zenon DEF OneUnderWay, Knows, Unsent
<1>9. c \notin Diagnostics =>
        /\ r.at \in Ahead => Stands(c)'
        /\ r.at \in Holding => queue'[1] = c
        /\ r.at \in {"reserve", "reserved"} => pause = 0
  BY <1>3, <1>4, <1>5 DEF Ahead, Holding
<1>10. r.at \notin {"reserved", "answered", "done", "backoff", "pace"}
       /\ (r.at = "queue" => c \notin Diagnostics)
  BY <1>3, <1>4
<1>11. QED
  BY <1>2, <1>4, <1>5, <1>6, <1>7, <1>8, <1>9, <1>10, CallMoves, Zenon

(* Before the request is sent: Acquire, Pace, Reserve, and the refusal of Send. *)
LEMMA WaitsHold ==
  ASSUME CallsInv, NEW c \in Callers, Acquire(c) \/ Pace(c) \/ Reserve(c) \/ (Send(c) /\ ~MaySend(c))
  PROVE  CallsInv'
<1>1. CallTypeOK /\ LineOK /\ OneUnderWay /\ NoLeak /\ call[c] \in CallRecord
  BY Zenon DEF CallsInv, CallTypeOK
<1>2. PICK x \in {"pace", "reserve", "reserved", "failed"} :
        /\ call' = [call EXCEPT ![c] = [call[c] EXCEPT !.at = x]]
        /\ \/ Acquire(c) /\ x = "pace"
           \/ Pace(c) /\ x = "reserve"
           \/ Reserve(c) /\ x = "reserved"
           \/ Send(c) /\ ~MaySend(c) /\ x = "failed"
  BY <1>1, Zenon DEF Acquire, Pace, Reserve, Send, Goes, CallTypeOK
<1> DEFINE r == [call[c] EXCEPT !.at = x]
<1>3. /\ r \in CallRecord /\ r.at = x /\ r.id = call[c].id
  <2>1. x \in CallPhases
    BY <1>2 DEF CallPhases
  <2>2. QED
    BY <1>1, <2>1 DEF CallRecord
<1>4. call' = [call EXCEPT ![c] = r]
  BY <1>2
<1> HIDE DEF r
<1>5. /\ UNCHANGED <<pause, seq, epoch, channel, sent, answers, executed, budget, stale, rushed>>
      /\ pending' = pending /\ queue' \in {queue, Without(c)} /\ (x # "failed" => queue' = queue)
  BY <1>2, Zenon DEF Acquire, Pace, Reserve, Send, net, history
<1>6. call[c].at \in Ahead /\ call[c].at \in Unsent /\ call[c].at # "wait"
  BY <1>2, Zenon DEF Acquire, Pace, Reserve, Send, At, Ahead, Unsent
<1>7. /\ queue' \in Seq(Callers)
      /\ \A d \in Callers \ {c} : Stands(d) => Stands(d)' /\ (queue[1] = d => queue'[1] = d)
  <2>1. CASE queue' = queue
    BY <1>1, <2>1 DEF CallTypeOK, Stands
  <2>2. CASE queue' = Without(c)
    <3>1. queue \in Seq(Callers)
      BY <1>1 DEF CallTypeOK
    <3>2. QED
      BY <2>2, <3>1, WithoutKeeps, Zenon DEF Stands
  <2>3. QED
    BY <1>5, <2>1, <2>2
<1>8. NoRequest(c) /\ NoReply(c) /\ executed[c] = 0
  BY <1>1, <1>6, Zenon DEF OneUnderWay, Knows
<1>9. pending' \subseteq pending /\ \A p \in pending' : p.by # c
  BY <1>1, <1>5, <1>6, SMTT(30) DEF NoLeak, At
<1>10. r.at \in {"queue", "pace", "backoff"} => c \notin Diagnostics
  BY <1>1, <1>2, <1>3 DEF Acquire, At, LineOK
<1>11. ASSUME c \notin Diagnostics
       PROVE  /\ r.at \in Ahead => Stands(c)'
              /\ r.at \in Holding => queue'[1] = c
              /\ r.at \in {"reserve", "reserved"} => pause = 0
  <2>1. Stands(c)
    BY <1>1, <1>6, <1>11, Zenon DEF LineOK, Stands
  <2>2. CASE x = "pace"
    <3>1. Head(queue) = c /\ queue' = queue /\ queue # <<>>
      BY <1>1, <1>2, <1>5, <2>1, <2>2 DEF Acquire, Stands, CallTypeOK
    <3>2. Head(queue) = queue[1]
      BY <1>1, <3>1 DEF CallTypeOK
    <3>3. QED
      BY <1>3, <2>1, <2>2, <3>1, <3>2 DEF Stands
  <2>3. CASE x = "reserve"
    <3>1. call[c].at = "pace" /\ pause = 0 /\ queue' = queue
      BY <1>2, <1>5, <2>3 DEF Pace, At
    <3>2. queue[1] = c
      BY <1>1, <1>11, <3>1, Zenon DEF LineOK, Holding
    <3>3. QED
      BY <2>1, <3>1, <3>2, Zenon DEF Stands
  <2>4. CASE x = "reserved"
    <3>1. call[c].at = "reserve" /\ queue' = queue
      BY <1>2, <1>5, <2>4 DEF Reserve, At
    <3>2. queue[1] = c /\ pause = 0
      BY <1>1, <1>11, <3>1, Zenon DEF LineOK, Holding
    <3>3. QED
      BY <2>1, <3>1, <3>2 DEF Stands
  <2>5. CASE x = "failed"
    BY <1>3, <2>5 DEF Ahead, Holding
  <2>6. QED
    BY <2>2, <2>3, <2>4, <2>5
<1>12. r.at = "reserved" => channel = <<>> /\ \A d \in Callers : ~At(d, "reserved")
  BY <1>2, <1>3 DEF Reserve, Room
<1>13. r.at \notin {"answered", "done", "backoff", "queue"}
  BY <1>2, <1>3
<1>14. QED
  BY <1>3, <1>4, <1>5, <1>7, <1>8, <1>9, <1>10, <1>11, <1>12, <1>13, CallMoves, Zenon

(* After the answer, and when the call is given up: Answered, Again, Abandon. *)
LEMMA AnsweredHolds ==
  ASSUME CallsInv, NEW c \in Callers, Answered(c)
  PROVE  CallsInv'
<1>1. CallTypeOK /\ LineOK /\ OneUnderWay /\ NoLeak /\ call[c] \in CallRecord /\ At(c, "answered")
  BY Zenon DEF CallsInv, CallTypeOK, Answered
<1>2. PICK x \in {"failed", "backoff", "done"} :
        /\ call' = [call EXCEPT ![c] = [call[c] EXCEPT !.at = x]]
        /\ x = "backoff" => Retries(c)
  BY <1>1, ZenonT(60) DEF Answered, Goes, CallTypeOK
<1> DEFINE r == [call[c] EXCEPT !.at = x]
<1>3. /\ r \in CallRecord /\ r.at = x /\ r.id = call[c].id /\ r.got = call[c].got
      /\ r.attempt = call[c].attempt
  <2>1. x \in CallPhases
    BY <1>2 DEF CallPhases
  <2>2. QED
    BY <1>1, <2>1 DEF CallRecord
<1>4. call' = [call EXCEPT ![c] = r]
  BY <1>2
<1> HIDE DEF r
<1>5. /\ UNCHANGED <<pause, seq, epoch, channel, sent, answers, executed, budget, stale, rushed>>
      /\ pending' = pending /\ queue' = queue
  BY DEF Answered, net, history
<1>6. /\ queue' \in Seq(Callers)
      /\ \A d \in Callers \ {c} : Stands(d) => Stands(d)' /\ (queue[1] = d => queue'[1] = d)
  BY <1>1, <1>5 DEF CallTypeOK, Stands
<1>7. pending' \subseteq pending /\ \A p \in pending' : p.by # c
  BY <1>1, <1>5, Zenon DEF NoLeak, At
<1>8. r.at = "backoff" => /\ c \notin Diagnostics /\ call[c].got.status = 429
                          /\ Retriable(r)
  BY <1>2, <1>3, CallsAssumption DEF Retries, Retriable
<1>9. r.at \in Unsent => NoRequest(c) /\ NoReply(c) /\ executed[c] = 0
  BY <1>1, <1>2, <1>3, <1>8, SMTT(30) DEF OneUnderWay, Knows, Unsent
<1>10. r.got.by = c /\ r.got.id = r.id
  BY <1>1, <1>3, Zenon DEF OneUnderWay, Knows, At
<1>11. /\ r.at \in {"queue", "pace", "backoff"} => c \notin Diagnostics
       /\ r.at \notin Ahead /\ r.at \notin Holding
       /\ r.at \notin {"reserve", "reserved", "answered"}
  BY <1>2, <1>3, <1>8 DEF Ahead, Holding
<1>12. r \in CallRecord /\ r.id = call[c].id
  BY <1>3
<1>13. UNCHANGED <<pause, seq, epoch, channel, sent, answers, executed, budget, stale, rushed>>
  BY <1>5
<1>14. CASE r.at = "failed"
  BY <1>4, <1>6, <1>7, <1>9, <1>11, <1>12, <1>13, <1>14, CallMoves, Zenon
<1>15. CASE r.at = "done"
  BY <1>4, <1>6, <1>7, <1>9, <1>10, <1>11, <1>12, <1>13, <1>15, CallMoves, Zenon
<1>16. CASE r.at = "backoff"
  <2>1. c \notin Diagnostics /\ Retriable(r)
    BY <1>8, <1>16
  <2>2. NoRequest(c) /\ NoReply(c) /\ executed[c] = 0
    BY <1>9, <1>16 DEF Unsent
  <2>3. r.at \notin {"reserve", "reserved", "answered", "done"}
    BY <1>16
  <2>4. r.at \notin Ahead /\ r.at \notin Holding
    BY <1>11
  <2>5. QED
    BY <1>4, <1>6, <1>7, <1>12, <1>13, <2>1, <2>2, <2>3, <2>4, CallMoves, Zenon
<1>17. QED
  BY <1>2, <1>3, <1>14, <1>15, <1>16

LEMMA AgainHolds ==
  ASSUME CallsInv, NEW c \in Callers, Again(c)
  PROVE  CallsInv'
<1>1. CallTypeOK /\ LineOK /\ OneUnderWay /\ NoLeak /\ call[c] \in CallRecord /\ At(c, "backoff")
  BY Zenon DEF CallsInv, CallTypeOK, Again
<1> DEFINE r == [call[c] EXCEPT !.at = "queue", !.attempt = call[c].attempt + 1,
                                !.id = NoId, !.got = NoAnswer]
<1>2. call[c].attempt \in 0 .. MaxGetRetries /\ call[c].attempt + 1 \in 0 .. MaxGetRetries
  BY <1>1, SMTT(30) DEF OneUnderWay, Knows, CallRecord, MaxGetRetries
<1>3. /\ r \in CallRecord /\ r.at = "queue" /\ r.id = 0
  <2>1. NoAnswer \in Answer
    BY DEF NoAnswer, NoId, Answer
  <2>2. "queue" \in CallPhases
    BY DEF CallPhases
  <2>3. QED
    BY <1>1, <1>2, <2>1, <2>2, Zenon DEF CallRecord, NoId
<1>4. call' = [call EXCEPT ![c] = r]
  BY <1>1, Zenon DEF Again, CallTypeOK
<1> HIDE DEF r
<1>5. /\ UNCHANGED <<pause, seq, epoch, channel, sent, answers, executed, budget, stale, rushed>>
      /\ pending' = pending /\ queue' = Append(queue, c)
  BY DEF Again, net, history
<1>6. /\ queue' \in Seq(Callers) /\ Stands(c)'
      /\ \A d \in Callers \ {c} : Stands(d) => Stands(d)' /\ (queue[1] = d => queue'[1] = d)
  <2>1. queue \in Seq(Callers)
    BY <1>1 DEF CallTypeOK
  <2>2. QED
    BY <1>5, <2>1, AppendKeeps, SMTT(30)
<1>7. pending' \subseteq pending /\ \A p \in pending' : p.by # c
  BY <1>1, <1>5 DEF NoLeak, At
<1>8. NoRequest(c) /\ NoReply(c) /\ executed[c] = 0 /\ c \notin Diagnostics
  BY <1>1, Zenon DEF OneUnderWay, Knows, Unsent, LineOK, At
<1>9. r.at \notin Holding /\ r.at \notin {"reserve", "reserved", "answered", "done", "backoff"}
  BY <1>3 DEF Holding
<1>10. QED
  BY <1>3, <1>4, <1>5, <1>6, <1>7, <1>8, <1>9, CallMoves, Zenon

LEMMA AbandonHolds ==
  ASSUME CallsInv, NEW c \in Callers, Abandon(c)
  PROVE  CallsInv'
<1>1. CallTypeOK /\ LineOK /\ OneUnderWay /\ NoLeak /\ call[c] \in CallRecord
  BY Zenon DEF CallsInv, CallTypeOK
<1> DEFINE r == [call[c] EXCEPT !.at = "failed"]
<1>2. /\ r \in CallRecord /\ r.at = "failed" /\ r.id = call[c].id
  <2>1. "failed" \in CallPhases
    BY DEF CallPhases
  <2>2. QED
    BY <1>1, <2>1 DEF CallRecord
<1>3. call' = [call EXCEPT ![c] = r]
  BY <1>1 DEF Abandon, Goes, CallTypeOK
<1> HIDE DEF r
<1>4. /\ UNCHANGED <<pause, seq, epoch, channel, sent, answers, executed, budget, stale, rushed>>
      /\ pending' = {p \in pending : p.id # call[c].id} /\ queue' = Without(c)
  BY Zenon DEF Abandon, net, history
<1>5. /\ queue' \in Seq(Callers)
      /\ \A d \in Callers \ {c} : Stands(d) => Stands(d)' /\ (queue[1] = d => queue'[1] = d)
  BY <1>1, <1>4, WithoutKeeps, ZenonT(60) DEF CallTypeOK, Stands
<1>6. pending' \subseteq pending /\ \A p \in pending' : p.by # c
  BY <1>1, <1>4, Zenon DEF NoLeak
<1>7. /\ r.at \notin Ahead /\ r.at \notin Holding /\ r.at \notin Unsent
      /\ r.at \notin {"queue", "pace", "reserve", "reserved", "answered", "done", "backoff"}
  BY <1>2, Zenon DEF Ahead, Holding, Unsent
<1>8. QED
  BY <1>2, <1>3, <1>4, <1>5, <1>6, <1>7, CallMoves, Zenon

(* A sequence of length zero is the empty one. *)
LEMMA NoneLong ==
  ASSUME NEW S, NEW s \in Seq(S)
  PROVE  Len(s) \in Nat /\ (Len(s) = 0 <=> s = <<>>)
OBVIOUS

(* The channel holds one message at most. *)
LEMMA ChannelShape ==
  ASSUME CallTypeOK
  PROVE  /\ Queued \subseteq Request /\ \A m, n \in Queued : m = n
         /\ channel # <<>> => Tail(channel) = <<>> /\ Queued = {Head(channel)} \ {Other}
         /\ channel = <<>> => Queued = {}
<1>1. channel \in Seq(Request \union {Other}) /\ Len(channel) <= 1
  BY Zenon DEF CallTypeOK
<1>2. ASSUME channel # <<>>
      PROVE  Head(channel) \in Request \union {Other} /\ Tail(channel) = <<>>
  <2>1. Len(channel) = 1
    <3>1. Len(channel) \in Nat \ {0}
      BY <1>1, <1>2, NoneLong, Zenon
    <3>2. \A n \in Nat \ {0} : n <= 1 => n = 1
      OBVIOUS
    <3>3. QED
      BY <1>1, <3>1, <3>2, Zenon
  <2>2. Head(channel) \in Request \union {Other}
    BY <1>1, <2>1
  <2>3. Tail(channel) \in Seq(Request \union {Other}) /\ Len(Tail(channel)) = 0
    BY <1>1, <1>2, <2>1
  <2>4. Tail(channel) = <<>>
    BY <2>3, NoneLong, Zenon
  <2>5. QED
    BY <2>2, <2>4
<1>3. QED
  BY <1>2 DEF Queued

(* What is under way belongs to somebody. *)
LEMMA Belongs ==
  ASSUME CallTypeOK
  PROVE  \A m \in Queued \union sent \union answers \union pending : m.by \in Callers /\ m.id \in Nat
<1>1. Queued \subseteq Request
  BY ChannelShape, Zenon
<1>2. QED
  BY <1>1 DEF CallTypeOK, Request

(* A caller whose turn it is puts its request into the channel. *)
LEMMA SendHolds ==
  ASSUME CallsInv, NEW c \in Callers, Send(c), MaySend(c)
  PROVE  CallsInv'
<1>1. /\ CallTypeOK /\ LineOK /\ IdsOK /\ OneUnderWay /\ NoLeak
      /\ AtMostOnce /\ ~stale /\ ~rushed /\ call[c] \in CallRecord /\ call[c].at = "reserved"
  BY Zenon DEF CallsInv, CallTypeOK, NeverStale, NeverRushed, Send, At
<1> DEFINE m == [id |-> seq, by |-> c]
           r == [call[c] EXCEPT !.at = "wait", !.id = seq]
<1>2. /\ queue' = Without(c) /\ seq' = seq + 1 /\ pending' = pending \union {m}
      /\ channel' = Append(channel, m) /\ pause' = IF c \in Diagnostics THEN pause ELSE 1
      /\ UNCHANGED <<epoch, sent, answers, executed, budget>>
  BY DEF Send, net
<1>3. call' = [call EXCEPT ![c] = r]
  BY <1>1, ZenonT(60) DEF Send, CallTypeOK
<1>4. seq \in Nat /\ m \in Request /\ m.id = seq /\ m.by = c /\ m # Other
  <2>1. seq \in Nat /\ c # NoOne
    BY <1>1, CallsAssumption DEF CallTypeOK
  <2>2. QED
    BY <2>1 DEF Request, Other
<1>5. r \in CallRecord /\ r.at = "wait" /\ r.id = seq
  <2>1. "wait" \in CallPhases
    BY Zenon DEF CallPhases
  <2>2. QED
    BY <1>1, <1>4, <2>1, Zenon DEF CallRecord
<1> HIDE DEF m, r
<1>6. \A d \in Callers : call'[d] = IF d = c THEN r ELSE call[d]
  BY <1>1, <1>3 DEF CallTypeOK
<1>7. channel = <<>> /\ channel' = <<m>> /\ Queued = {} /\ Queued' = {m}
  <2>1. channel = <<>>
    BY <1>1 DEF LineOK, At
  <2>2. channel' = <<m>>
    BY <1>2, <2>1
  <2>3. QED
    BY <1>4, <2>1, <2>2 DEF Queued
<1>8. NoRequest(c) /\ NoReply(c) /\ executed[c] = 0
  BY <1>1, Zenon DEF OneUnderWay, Knows, Unsent
<1>9. c \notin Diagnostics => pause = 0 /\ queue[1] = c
  BY <1>1, Zenon DEF LineOK, Holding
<1>10. ~stale' /\ ~rushed' /\ stale' \in BOOLEAN /\ rushed' \in BOOLEAN
  <2>1. /\ stale' = (stale \/ call[c].epoch # epoch \/ call[c].left = 0)
        /\ rushed' = (rushed \/ (c \notin Diagnostics /\ pause > 0))
    BY DEF Send
  <2>2. call[c].epoch = epoch /\ call[c].left # 0
    BY <1>1 DEF MaySend, CallRecord
  <2>3. ~(c \notin Diagnostics /\ pause > 0)
    BY <1>9
  <2>4. QED
    BY <1>1, <2>1, <2>2, <2>3, Zenon
<1>11. queue \in Seq(Callers) /\ queue' \in Seq(Callers)
       /\ \A d \in Callers \ {c} : Stands(d) => Stands(d)' /\ (queue[1] = d => queue'[1] = d)
  <2>1. queue \in Seq(Callers)
    BY <1>1 DEF CallTypeOK
  <2>2. QED
    BY <1>2, <2>1, WithoutKeeps, Zenon DEF Stands
<1>12. CallTypeOK'
  <2>1. channel' \in Seq(Request \union {Other}) /\ Len(channel') <= 1
    BY <1>4, <1>7
  <2>2. call' \in [Callers -> CallRecord]
    BY <1>1, <1>3, <1>5, ZenonT(60) DEF CallTypeOK
  <2>3. pending' \subseteq Request /\ pause' \in 0 .. 1 /\ seq' \in Nat
    BY <1>1, <1>2, <1>4 DEF CallTypeOK
  <2>4. QED
    BY <1>1, <1>2, <1>10, <1>11, <2>1, <2>2, <2>3, ZenonT(60) DEF CallTypeOK
<1>13. LineOK'
  <2>1. ASSUME NEW d \in Callers \ Diagnostics
        PROVE  /\ call'[d].at \in Ahead => Stands(d)'
               /\ call'[d].at \in Holding => queue'[1] = d
               /\ call'[d].at \in {"reserve", "reserved"} => pause' = 0
    <3>1. CASE d = c
      BY <1>5, <1>6, <3>1, Zenon DEF Ahead, Holding
    <3>2. CASE d # c
      <4>1. call'[d] = call[d] /\ Holding \subseteq Ahead /\ {"reserve", "reserved"} \subseteq Holding
        BY <1>6, <3>2 DEF Holding, Ahead
      <4>2. call[d].at \in Ahead => Stands(d)
        BY <1>1, Zenon DEF LineOK, Stands
      <4>3. call[d].at \in Holding => queue[1] = d
        BY <1>1, SMTT(30) DEF LineOK
      <4>4. call[d].at \in {"reserve", "reserved"} => c \in Diagnostics /\ pause = 0
        BY <1>1, <1>9, <3>2, <4>1, <4>3, Zenon DEF LineOK
      <4>5. QED
        BY <1>2, <1>11, <3>2, <4>1, <4>2, <4>3, <4>4, Zenon
    <3>3. QED
      BY <3>1, <3>2
  <2>2. \A d \in Callers : call'[d].at # "reserved"
    BY <1>1, <1>5, <1>6, SMTT(30) DEF LineOK, At
  <2>3. \A d \in Callers : call'[d].at \in {"queue", "pace", "backoff"} => d \notin Diagnostics
    BY <1>1, <1>5, <1>6, Zenon DEF LineOK
  <2>4. QED
    BY <2>1, <2>2, <2>3, Zenon DEF LineOK, Stands, At
<1>14. \A n \in sent \union answers : n.by \in Callers \ {c}
  BY <1>1, <1>8, Belongs DEF NoRequest, NoReply
<1>15. IdsOK'
  <2>1. \A d \in Callers : call[d].id \in Nat /\ call[d].id < seq
    BY <1>1, Zenon DEF CallTypeOK, CallRecord, IdsOK
  <2>2. \A d \in Callers : call'[d].id = IF d = c THEN seq ELSE call[d].id
    BY <1>5, <1>6, Zenon
  <2>3. \A d \in Callers : call'[d].id < seq'
    BY <1>2, <1>4, <2>1, <2>2, SMTT(30)
  <2>4. \A d, e \in Callers : call'[d].id = call'[e].id /\ d # e => call'[d].id = 0
    BY <1>1, <1>4, <2>1, <2>2, SMTT(30) DEF IdsOK
  <2>5. \A n \in sent \union answers : n.id = call'[n.by].id /\ n.id > 0
    BY <1>1, <1>14, <2>2, Zenon DEF IdsOK
  <2>6. m.id = call'[m.by].id /\ m.id > 0 /\ seq' > 0
    BY <1>1, <1>2, <1>4, <2>2, SMTT(30) DEF IdsOK
  <2>7. \A p \in pending' : p.id > 0
    BY <1>1, <1>2, <2>6, Zenon DEF IdsOK
  <2>8. QED
    BY <1>2, <1>7, <2>3, <2>4, <2>5, <2>6, <2>7, Zenon DEF IdsOK
<1>16. \A d \in Callers \ {c} : NoRequest(d)' = NoRequest(d) /\ NoReply(d)' = NoReply(d)
  BY <1>2, <1>4, <1>7, Zenon DEF NoRequest, NoReply
<1>17. OneUnderWay'
  <2>1. \A n \in Queued', q \in sent' : q.by # n.by
    BY <1>2, <1>4, <1>7, <1>14, Zenon
  <2>2. \A a \in answers' : NoRequest(a.by)' /\ (a.status = 429 => executed'[a.by] = 0)
    BY <1>1, <1>2, <1>14, <1>16, SMTT(30) DEF OneUnderWay, MessagesApart
  <2>3. \A d \in Callers : ~NoRequest(d)' => executed'[d] = 0
    BY <1>1, <1>2, <1>8, <1>16, Zenon DEF OneUnderWay, MessagesApart
  <2>4. ASSUME NEW d \in Callers
        PROVE  /\ call'[d].at \in Unsent => NoRequest(d)' /\ NoReply(d)' /\ executed'[d] = 0
               /\ call'[d].at = "answered" => NoRequest(d)' /\ NoReply(d)' /\
                    (call'[d].got.status = 429 => executed'[d] = 0)
               /\ call'[d].at \in {"answered", "done"} =>
                    call'[d].got.by = d /\ call'[d].got.id = call'[d].id
               /\ call'[d].at = "backoff" => call'[d].attempt < MaxGetRetries
    <3>1. CASE d = c
      BY <1>5, <1>6, <3>1, Zenon DEF Unsent
    <3>2. CASE d # c
      BY <1>1, <1>2, <1>6, <1>16, <3>2, SMTT(30) DEF OneUnderWay, Knows, At
    <3>3. QED
      BY <3>1, <3>2, Zenon
  <2>5. /\ \A q, n \in sent' : q.by = n.by => q = n
        /\ \A a, b \in answers' : a.by = b.by => a = b
    BY <1>1, <1>2, Zenon DEF OneUnderWay, MessagesApart
  <2>6. QED
    BY <2>1, <2>2, <2>3, <2>4, <2>5, Zenon DEF OneUnderWay, MessagesApart, Knows, At
<1>18. NoLeak'
  <2>1. \A p \in pending : p.by \in Callers \ {c}
    BY <1>1, Belongs DEF NoLeak, At
  <2>2. QED
    BY <1>1, <1>2, <1>4, <1>5, <1>6, <2>1, Zenon DEF NoLeak, At
<1>19. AtMostOnce' /\ NeverStale' /\ NeverRushed'
  BY <1>1, <1>2, <1>10, Zenon DEF AtMostOnce, NeverStale, NeverRushed
<1>20. QED
  BY <1>12, <1>13, <1>15, <1>17, <1>18, <1>19 DEF CallsInv

(* The channel and the network take a step: what is under way for a caller moves on or
   is lost, and no caller moves. *)
LEMMA NetworkMoves ==
  ASSUME CallsInv, CallTypeOK', UNCHANGED <<call, queue, pause, seq, stale, rushed>>,
         pending' \subseteq pending,
         \A c \in Callers : At(c, "reserved") => channel' = <<>>,
         Queued' \subseteq Queued,
         \A m \in sent' : m \in sent \/ (m \in Queued /\ m \notin Queued'),
         \A a \in answers' : a \in answers \/
           \E m \in sent \ sent' : a.id = m.id /\ a.by = m.by /\ (a.status = 429 => executed'[m.by] = 0),
         \A a, b \in answers' : a \notin answers /\ b \notin answers => a = b,
         \A c \in Callers :
           \/ executed'[c] = executed[c]
           \/ executed'[c] = 1 /\ NoRequest(c)' /\ \E m \in sent : m.by = c /\ \A a \in answers' : a.by = c => a \notin answers /\ a.status # 429
  PROVE  CallsInv'
<1>1. CallTypeOK /\ LineOK /\ IdsOK /\ OneUnderWay /\ NoLeak /\ AtMostOnce
  BY DEF CallsInv
<1>2. LineOK'
  BY <1>1, SMTT(30) DEF LineOK, At
<1>3. \A m \in Queued \union sent \union answers : m.by \in Callers
  BY <1>1, Belongs
<1>4. \A c \in Callers : NoRequest(c) => NoRequest(c)'
  BY DEF NoRequest
<1>5. IdsOK'
  BY <1>1, SMTT(30) DEF IdsOK
<1>6. \A c \in Callers : NoRequest(c) /\ NoReply(c) => NoReply(c)' /\ executed'[c] = executed[c]
  BY SMTT(30) DEF NoRequest, NoReply
<1>7. OneUnderWay'
  <2>1. \A n \in Queued', q \in sent' : q.by # n.by
    BY <1>1, ChannelShape, SMTT(30) DEF OneUnderWay, MessagesApart
  <2>2. \A q, n \in sent' : q.by = n.by => q = n
    BY <1>1, ChannelShape, SMTT(30) DEF OneUnderWay, MessagesApart
  <2>3. \A a \in answers, m \in sent : a.by # m.by
    BY <1>1, <1>3, SMTT(30) DEF OneUnderWay, MessagesApart, NoRequest
  <2>4. \A a, b \in answers' : a.by = b.by => a = b
    BY <1>1, <2>3, SMTT(30) DEF OneUnderWay, MessagesApart
  <2>5. ASSUME NEW a \in answers'
        PROVE  NoRequest(a.by)' /\ (a.status = 429 => executed'[a.by] = 0)
    <3>1. CASE a \in answers
      BY <1>1, <1>3, <1>4, <2>3, <3>1, SMTT(30) DEF OneUnderWay, MessagesApart
    <3>2. CASE a \notin answers
      <4>1. PICK m \in sent \ sent' : a.by = m.by /\ (a.status = 429 => executed'[m.by] = 0)
        BY <2>5, <3>2
      <4>2. \A n \in Queued \union sent : n.by = m.by => n = m /\ n \notin Queued
        BY <1>1, <4>1, SMTT(30) DEF OneUnderWay, MessagesApart
      <4>3. NoRequest(m.by)'
        BY <4>1, <4>2, SMTT(30) DEF NoRequest
      <4>4. QED
        BY <4>1, <4>3, ZenonT(60)
    <3>3. QED
      BY <3>1, <3>2, Zenon
  <2>6. \A c \in Callers : ~NoRequest(c)' => executed'[c] = 0
    BY <1>1, <1>4, SMTT(30) DEF OneUnderWay, MessagesApart
  <2>7. QED
    BY <1>1, <1>4, <1>6, <2>1, <2>2, <2>4, <2>5, <2>6, SMTT(30) DEF OneUnderWay, MessagesApart, Knows, At
<1>8. NoLeak' /\ NeverStale' /\ NeverRushed'
  BY SMTT(30) DEF CallsInv, NoLeak, NeverStale, NeverRushed, At
<1>9. AtMostOnce'
  BY <1>1, SMTT(30) DEF AtMostOnce
<1>10. QED
  BY <1>2, <1>5, <1>7, <1>8, <1>9, Zenon DEF CallsInv

LEMMA UploadHolds ==
  ASSUME CallsInv, Upload
  PROVE  CallsInv'
<1>1. CallTypeOK /\ channel # <<>> /\ channel' = Tail(channel)
      /\ sent' = sent \union ({Head(channel)} \ {Other})
      /\ UNCHANGED <<call, queue, pause, pending, seq, epoch, answers, executed, budget, stale, rushed>>
  BY DEF CallsInv, Upload, history
<1>2. channel' = <<>> /\ Queued' = {} /\ sent' = sent \union Queued /\ Queued \subseteq Request
  BY <1>1, ChannelShape, Zenon DEF Queued
<1>3. CallTypeOK'
  <2>1. channel' \in Seq(Request \union {Other}) /\ Len(channel') <= 1
    BY <1>2
  <2>2. QED
    BY <1>1, <1>2, <2>1, ZenonT(60) DEF CallTypeOK
<1>4. QED
  BY <1>1, <1>2, <1>3, NetworkMoves, Zenon

LEMMA OtherControlHolds ==
  ASSUME CallsInv, OtherControl
  PROVE  CallsInv'
<1>1. /\ CallTypeOK /\ Room /\ channel' = <<Other>>
      /\ budget' = [budget EXCEPT !.other = budget.other + 1]
      /\ UNCHANGED <<call, queue, pause, pending, seq, epoch, sent, answers, executed, stale, rushed>>
  BY DEF CallsInv, OtherControl, history
<1>2. Queued' = {} /\ \A c \in Callers : ~At(c, "reserved")
  BY <1>1 DEF Queued, Room
<1>3. CallTypeOK'
  <2>1. channel' \in Seq(Request \union {Other}) /\ Len(channel') <= 1
    BY <1>1
  <2>2. budget' \in [lost : Nat, busy : Nat, other : Nat]
    <3>1. budget \in [lost : Nat, busy : Nat, other : Nat]
      BY <1>1 DEF CallTypeOK
    <3>2. QED
      BY <1>1, <3>1
  <2>3. QED
    BY <1>1, <2>1, <2>2, Zenon DEF CallTypeOK
<1>4. QED
  BY <1>1, <1>2, <1>3, NetworkMoves

(* The server answers a request, having executed it or not. *)
LEMMA ReplyHolds ==
  ASSUME CallsInv, NEW r \in sent, Execute(r) \/ Throttle(r)
  PROVE  CallsInv'
<1>1. CallTypeOK /\ OneUnderWay /\ r \in Request /\ r.by \in Callers /\ r.id \in Nat
  BY ZenonT(60) DEF CallsInv, CallTypeOK, Request
<1>2. PICK status \in {200, 429} :
        /\ Reply(r, status)
        /\ \/ status = 200 /\ executed' = [executed EXCEPT ![r.by] = executed[r.by] + 1]
              /\ budget' = budget
           \/ status = 429 /\ executed' = executed
              /\ budget' = [budget EXCEPT !.busy = budget.busy + 1]
  BY DEF Execute, Throttle
<1> DEFINE a == [id |-> r.id, by |-> r.by, status |-> status]
<1>3. /\ sent' = sent \ {r} /\ answers' = answers \union {a}
      /\ UNCHANGED <<call, queue, pause, pending, seq, epoch, channel, stale, rushed>>
  BY <1>2 DEF Reply, history
<1>4. a \in [id : Nat, by : Callers, status : {200, 429}] /\ a.id = r.id /\ a.by = r.by
      /\ a.status = status
  BY <1>1, <1>2
<1> HIDE DEF a
<1>5. executed[r.by] = 0
  BY <1>1, SMTT(30) DEF OneUnderWay, MessagesApart, NoRequest
<1>6. \A c \in Callers : executed'[c] = IF c = r.by /\ status = 200 THEN 1 ELSE executed[c]
  BY <1>1, <1>2, <1>5 DEF CallTypeOK
<1>7. Queued' = Queued
  BY <1>3 DEF Queued
<1>8. CallTypeOK'
  <2>1. budget' \in [lost : Nat, busy : Nat, other : Nat]
    <3>1. budget \in [lost : Nat, busy : Nat, other : Nat]
      BY <1>1, Zenon DEF CallTypeOK
    <3>2. QED
      BY <1>2, <3>1
  <2>2. executed' \in [Callers -> Nat]
    <3>1. executed \in [Callers -> Nat]
      BY <1>1 DEF CallTypeOK
    <3>2. QED
      BY <1>1, <1>2, <1>5, <3>1
  <2>3. sent' \subseteq Request /\ answers' \subseteq [id : Nat, by : Callers, status : {200, 429}]
    BY <1>1, <1>3, <1>4, SMTT(30) DEF CallTypeOK
  <2>4. QED
    BY <1>1, <1>3, <2>1, <2>2, <2>3, ZenonT(60) DEF CallTypeOK
<1>9. NoRequest(r.by)' /\ \A b \in answers : b.by # r.by
  <2>1. \A n \in Queued \union sent : n.by = r.by => n = r /\ n \notin Queued
    BY <1>1, SMTT(30) DEF OneUnderWay, MessagesApart
  <2>2. QED
    BY <1>1, <1>3, <1>7, <2>1, SMTT(30) DEF NoRequest, OneUnderWay, MessagesApart
<1>10. \A c \in Callers : At(c, "reserved") => channel' = <<>>
  BY <1>3, Zenon DEF CallsInv, LineOK
<1>11. \A b \in answers' : b \in answers \/
         \E m \in sent \ sent' : b.id = m.id /\ b.by = m.by /\ (b.status = 429 => executed'[m.by] = 0)
  BY <1>1, <1>3, <1>4, <1>5, <1>6, SMTT(30)
<1>12. \A c \in Callers :
         \/ executed'[c] = executed[c]
         \/ executed'[c] = 1 /\ NoRequest(c)' /\ \E m \in sent :
              m.by = c /\ \A b \in answers' : b.by = c => b \notin answers /\ b.status # 429
  <2>1. SUFFICES ASSUME status = 200
                 PROVE  executed'[r.by] = 1 /\ \A b \in answers' : b.by = r.by =>
                          b \notin answers /\ b.status # 429
    BY <1>2, <1>6, <1>9
  <2>2. QED
    BY <1>1, <1>3, <1>4, <1>6, <1>9, <2>1, SMTT(30)
<1>13. /\ Queued' \subseteq Queued /\ pending' \subseteq pending
       /\ \A m \in sent' : m \in sent \/ (m \in Queued /\ m \notin Queued')
       /\ \A b, d \in answers' : b \notin answers /\ d \notin answers => b = d
  BY <1>3, <1>7
<1>14. UNCHANGED <<call, queue, pause, seq, stale, rushed>>
  BY <1>3
<1>15. QED
  BY <1>8, <1>10, <1>11, <1>12, <1>13, <1>14, NetworkMoves, Zenon

LEMMA LoseHolds ==
  ASSUME CallsInv, Lose
  PROVE  CallsInv'
<1>1. CallTypeOK /\ LineOK
  BY DEF CallsInv
<1>2. /\ sent' \subseteq sent /\ answers' \subseteq answers
      /\ budget' = [budget EXCEPT !.lost = budget.lost + 1]
      /\ UNCHANGED <<call, queue, pause, pending, seq, epoch, channel, executed, stale, rushed>>
  BY DEF Lose, history
<1>3. Queued' = Queued
  BY <1>2 DEF Queued
<1>4. CallTypeOK'
  <2>1. budget' \in [lost : Nat, busy : Nat, other : Nat]
    <3>1. budget \in [lost : Nat, busy : Nat, other : Nat]
      BY <1>1 DEF CallTypeOK
    <3>2. QED
      BY <1>2, <3>1
  <2>2. QED
    BY <1>1, <1>2, <2>1, SMTT(30) DEF CallTypeOK
<1>5. \A c \in Callers : At(c, "reserved") => channel' = <<>>
  BY <1>1, <1>2 DEF LineOK
<1>6. QED
  BY <1>2, <1>3, <1>4, <1>5, NetworkMoves

LEMMA ResetHolds ==
  ASSUME CallsInv, reset
  PROVE  CallsInv'
<1>1. /\ CallTypeOK /\ epoch' = epoch + 1 /\ pending' = {} /\ channel' = <<>>
      /\ UNCHANGED <<call, queue, pause, seq, sent, answers, executed, budget, stale, rushed>>
  BY DEF CallsInv, reset, net, history
<1>2. Queued' = {}
  BY <1>1 DEF Queued
<1>3. CallTypeOK'
  <2>1. channel' \in Seq(Request \union {Other}) /\ Len(channel') <= 1
    BY <1>1
  <2>2. QED
    BY <1>1, <2>1 DEF CallTypeOK
<1>4. QED
  BY <1>1, <1>2, <1>3, NetworkMoves, ZenonT(60)

(* An answer reaches the caller whose id it has, and nobody else. *)
LEMMA ResponseHolds ==
  ASSUME CallsInv, NEW a \in answers, on_mgmt_response(a)
  PROVE  CallsInv'
<1>1. CallTypeOK /\ LineOK /\ IdsOK /\ OneUnderWay /\ NoLeak /\ AtMostOnce
  BY DEF CallsInv
<1>2. /\ answers' = answers \ {a} /\ pending' = {p \in pending : p.id # a.id}
      /\ UNCHANGED <<queue, pause, seq, epoch, channel, sent, executed, budget, stale, rushed>>
  BY Zenon DEF on_mgmt_response, history
<1>3. a.by \in Callers /\ a \in Answer /\ a.id \in Nat
  BY <1>1, CallsAssumption, SMTT(30) DEF CallTypeOK, Answer
<1>4. \A p \in pending : p.by \in Callers /\ p = [id |-> p.id, by |-> p.by]
  BY <1>1, SMTT(30) DEF CallTypeOK, Request
<1>5. \A c \in Callers : [id |-> a.id, by |-> c] \in pending => c = a.by /\ At(c, "wait")
  BY <1>1, <1>3, SMTT(30) DEF NoLeak, IdsOK
<1> DEFINE r == [call[a.by] EXCEPT !.at = "answered", !.got = a]
           hit == [id |-> a.id, by |-> a.by] \in pending
<1>6. /\ call' = [d \in Callers |-> call'[d]]
      /\ \A d \in Callers : call'[d] = IF hit /\ d = a.by THEN r ELSE call[d]
  <2>1. call' = [c \in Callers |-> IF [id |-> a.id, by |-> c] \in pending
                   THEN [call[c] EXCEPT !.at = "answered", !.got = a] ELSE call[c]]
    BY Zenon DEF on_mgmt_response
  <2>2. ASSUME NEW d \in Callers PROVE call'[d] = IF hit /\ d = a.by THEN r ELSE call[d]
    <3>1. CASE d = a.by
      BY <2>1, <3>1, Zenon
    <3>2. CASE d # a.by
      BY <1>5, <2>1, <3>2, Zenon
    <3>3. QED
      BY <3>1, <3>2
  <2>3. QED
    BY <2>1, <2>2, Zenon
<1>7. /\ r \in CallRecord /\ r.at = "answered" /\ r.got = a /\ r.id = call[a.by].id
  <2>1. call[a.by] \in CallRecord /\ "answered" \in CallPhases
    BY <1>1, <1>3 DEF CallTypeOK, CallPhases
  <2>2. QED
    BY <1>3, <2>1, Zenon DEF CallRecord
<1> HIDE DEF r
<1>8. \A d \in Callers : call'[d] = IF hit /\ d = a.by THEN r ELSE call[d]
  BY <1>6
<1>9. hit => call[a.by].at = "wait" /\ a.id = call[a.by].id
  BY <1>1, <1>3, <1>5, Zenon DEF IdsOK, At
<1> HIDE DEF hit
<1>10. CallTypeOK'
  <2>1. \A d \in Callers : call'[d] \in CallRecord
    BY <1>1, <1>7, <1>8, ZenonT(60) DEF CallTypeOK
  <2>2. call' \in [Callers -> CallRecord]
    BY <1>6, <2>1
  <2>3. QED
    BY <1>1, <1>2, <2>2, SMTT(30) DEF CallTypeOK
<1>11. \A d \in Callers : call'[d].at = call[d].at \/
         (call'[d].at = "answered" /\ call[d].at = "wait")
  BY <1>7, <1>8, <1>9
<1>12. LineOK'
  BY <1>1, <1>2, <1>11, SMTT(30) DEF LineOK, At, Ahead, Holding
<1>13. \A d \in Callers : call'[d].id = call[d].id
  BY <1>7, <1>8
<1>14. Queued' = Queued /\ \A d \in Callers : NoRequest(d)' = NoRequest(d)
                                          /\ (NoReply(d) => NoReply(d)')
  BY <1>2, Zenon DEF Queued, NoRequest, NoReply
<1>15. IdsOK'
  <2>1. \A m \in Queued \union sent \union answers : m.by \in Callers
    BY <1>1, Belongs
  <2>2. QED
    BY <1>1, <1>2, <1>13, <1>14, <2>1, ZenonT(60) DEF IdsOK
<1>16. NoRequest(a.by) /\ NoReply(a.by)' /\ (a.status = 429 => executed[a.by] = 0)
  BY <1>1, <1>2, SMTT(30) DEF OneUnderWay, MessagesApart, NoReply
<1>17. OneUnderWay'
  <2>1. ASSUME NEW d \in Callers
        PROVE  /\ call'[d].at \in Unsent => NoRequest(d)' /\ NoReply(d)' /\ executed'[d] = 0
               /\ call'[d].at = "answered" => NoRequest(d)' /\ NoReply(d)' /\
                    (call'[d].got.status = 429 => executed'[d] = 0)
               /\ call'[d].at \in {"answered", "done"} =>
                    call'[d].got.by = d /\ call'[d].got.id = call'[d].id
               /\ call'[d].at = "backoff" => call'[d].attempt < MaxGetRetries
    <3>1. CASE hit /\ d = a.by
      BY <1>2, <1>7, <1>8, <1>9, <1>14, <1>16, <3>1, SMTT(30) DEF Unsent
    <3>2. CASE ~(hit /\ d = a.by)
      BY <1>1, <1>2, <1>8, <1>14, <3>2, SMTT(30) DEF OneUnderWay, Knows, At
    <3>3. QED
      BY <3>1, <3>2, Zenon
  <2>2. \A b \in answers' : b \in answers /\ b.by \in Callers
    BY <1>1, <1>2, Belongs
  <2>3. \A b \in answers' : NoRequest(b.by)' /\ (b.status = 429 => executed'[b.by] = 0)
    <3>1. \A b \in answers : NoRequest(b.by) /\ (b.status = 429 => executed[b.by] = 0)
      BY <1>1, Zenon DEF OneUnderWay, MessagesApart
    <3>2. QED
      BY <1>2, <1>14, <2>2, <3>1, SMTT(30)
  <2>4. MessagesApart'
    BY <1>1, <1>2, <1>14, <2>2, <2>3, Zenon DEF OneUnderWay, MessagesApart
  <2>5. QED
    BY <2>1, <2>4, Zenon DEF OneUnderWay, Knows, At
<1>18. NoLeak'
  BY <1>1, <1>2, <1>4, <1>8, <1>9, Zenon DEF NoLeak, At
<1>19. AtMostOnce' /\ NeverStale' /\ NeverRushed'
  BY <1>2, Zenon DEF CallsInv, AtMostOnce, NeverStale, NeverRushed
<1>20. QED
  BY <1>10, <1>12, <1>15, <1>17, <1>18, <1>19, Zenon DEF CallsInv

LEMMA CallTickHolds ==
  ASSUME CallsInv, Tick
  PROVE  CallsInv'
<1>1. CallTypeOK /\ LineOK /\ IdsOK /\ OneUnderWay /\ NoLeak
  BY DEF CallsInv
<1>2. /\ pause' = Less(pause)
      /\ UNCHANGED <<queue, pending, seq, epoch, channel, sent, answers, executed, budget, stale, rushed>>
  BY Zenon DEF Tick, net, history
<1>3. \A d \in Callers :
        /\ call'[d] \in CallRecord /\ call'[d].at = call[d].at /\ call'[d].id = call[d].id
        /\ call'[d].got = call[d].got /\ call'[d].attempt = call[d].attempt
  <2>1. ASSUME NEW d \in Callers
        PROVE  /\ call'[d] \in CallRecord /\ call'[d].at = call[d].at /\ call'[d].id = call[d].id
               /\ call'[d].got = call[d].got /\ call'[d].attempt = call[d].attempt
    <3>1. call[d] \in CallRecord
      BY <1>1 DEF CallTypeOK
    <3>2. Less(call[d].left) \in 0 .. Timeout
      <4>1. call[d].left \in 0 .. Timeout /\ Timeout \in Nat
        BY <3>1, CallsAssumption DEF CallRecord
      <4>2. QED
        BY <4>1, SMTT(30) DEF Less
    <3>3. call'[d] = call[d] \/ call'[d] = [call[d] EXCEPT !.left = Less(call[d].left)]
      BY DEF Tick
    <3>4. QED
      BY <3>1, <3>2, <3>3 DEF CallRecord
  <2>2. QED
    BY <2>1, SMTT(30)
<1>4. CallTypeOK'
  <2>1. call' \in [Callers -> CallRecord]
    <3>1. call' = [d \in Callers |-> call'[d]]
      BY DEF Tick
    <3>2. QED
      BY <1>3, <3>1
  <2>2. pause' \in 0 .. 1
    BY <1>1, <1>2 DEF CallTypeOK, Less
  <2>3. QED
    BY <1>1, <1>2, <2>1, <2>2, SMTT(30) DEF CallTypeOK
<1>5. pause = 0 => pause' = 0
  BY <1>2 DEF Less
<1>6. LineOK'
  BY <1>1, <1>2, <1>3, <1>5, Zenon DEF LineOK, At
<1>7. Queued' = Queued /\ \A d \in Callers : NoRequest(d)' = NoRequest(d) /\ NoReply(d)' = NoReply(d)
  BY <1>2, Zenon DEF Queued, NoRequest, NoReply
<1>8. \A m \in Queued \union sent \union answers \union pending : m.by \in Callers
  BY <1>1, Belongs
<1>9. IdsOK'
  BY <1>1, <1>2, <1>3, <1>7, <1>8, SMTT(30) DEF IdsOK
<1>10. OneUnderWay'
  <2>1. \A b \in answers' : NoRequest(b.by)' /\ (b.status = 429 => executed'[b.by] = 0)
    <3>1. \A b \in answers : NoRequest(b.by) /\ (b.status = 429 => executed[b.by] = 0)
      BY <1>1, Zenon DEF OneUnderWay, MessagesApart
    <3>2. QED
      BY <1>2, <1>7, <1>8, <3>1, SMTT(30)
  <2>2. MessagesApart'
    BY <1>1, <1>2, <1>7, <2>1, Zenon DEF OneUnderWay, MessagesApart
  <2>3. \A d \in Callers : Knows(d)'
    BY <1>1, <1>2, <1>3, <1>7, SMTT(30) DEF OneUnderWay, Knows, At
  <2>4. QED
    BY <2>2, <2>3, Zenon DEF OneUnderWay
<1>11. NoLeak' /\ AtMostOnce' /\ NeverStale' /\ NeverRushed'
  BY <1>2, <1>3, <1>8, Zenon DEF CallsInv, NoLeak, AtMostOnce, NeverStale, NeverRushed, At
<1>12. QED
  BY <1>4, <1>6, <1>9, <1>10, <1>11 DEF CallsInv

LEMMA StepCalls == CallsInv /\ [CallsNext]_callVars => CallsInv'
<1> SUFFICES ASSUME CallsInv, [CallsNext]_callVars PROVE CallsInv'
  OBVIOUS
<1>1. CASE UNCHANGED callVars
  <2>1. UNCHANGED <<call, queue, pause, pending, seq, epoch, channel, sent, answers, executed,
                    budget, stale, rushed>>
    BY <1>1, Zenon DEF callVars
  <2>2. CallTypeOK' /\ Queued' = Queued
    BY <2>1, ZenonT(60) DEF CallsInv, CallTypeOK, Queued
  <2>3. \A c \in Callers : At(c, "reserved") => channel' = <<>>
    BY <2>1, Zenon DEF CallsInv, LineOK
  <2>4. QED
    BY <2>1, <2>2, <2>3, NetworkMoves, ZenonT(60)
<1>2. ASSUME NEW c \in Callers, Proceeds(c) PROVE CallsInv'
  BY <1>2, StartHolds, WaitsHold, SendHolds, AnsweredHolds, AgainHolds DEF Proceeds
<1>3. ASSUME NEW c \in Callers, Abandon(c) \/ TimesOut(c) \/ SessionChanged(c) PROVE CallsInv'
  BY <1>3, AbandonHolds, Zenon DEF TimesOut, SessionChanged
<1>4. QED
  BY <1>1, <1>2, <1>3, ResetHolds, ResponseHolds, UploadHolds, OtherControlHolds, ReplyHolds,
     LoseHolds, CallTickHolds, Zenon DEF CallsNext

(* Whatever calls there are and however they overlap, are dropped or retried: one that
   returns has its own answer, no request is executed twice, none is sent after a reset or
   a deadline or within the interval, and no entry is left behind (mgmt_call, reset,
   on_mgmt_response). *)
THEOREM CallsStaySound == CallsSpec => [](CallTypeOK /\ CallsSound)
<1>1. CallsInv => CallTypeOK /\ CallsSound
  BY Zenon DEF CallsInv, CallsSound, OwnAnswer, OneUnderWay, Knows, At
<1>2. QED
  BY InitCalls, StepCalls, <1>1, PTL DEF CallsSpec
=============================================================================
