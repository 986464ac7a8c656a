------------------------------ MODULE MgmtClient ------------------------------
(***************************************************************************)
(* The client of the management API inside the tunnel: concurrent calls    *)
(* share a paced send queue, a bounded control channel and a table of      *)
(* pending answers; a call ends with an answer, a timeout, or the reset    *)
(* that a new session brings.  The server may throttle a request, answers  *)
(* may be late or lost, and a late answer may meet a newer session.        *)
(* One tick is REQUEST_INTERVAL.                                           *)
(***************************************************************************)
EXTENDS Naturals, FiniteSets, Sequences

CONSTANTS
  Gets,       \* callers of GET outside the diagnostic routes
  Mutations,  \* callers of any other method
  Diagnostics,\* callers of the diagnostic routes
  Slots,      \* MAX_ACTIVE_REQUESTS
  Timeout,    \* a call's deadline, in ticks
  MaxEpoch,   \* bound on resets
  MaxLosses,  \* bound on lost packets
  MaxBusy,    \* bound on answers 429
  MaxFull     \* bound on other messages in the control channel

Callers == Gets \union Mutations \union Diagnostics
MaxGetRetries == 2
NoId == 0
NoOne == "none"

ASSUME CallsAssumption ==
  /\ Gets \intersect Diagnostics = {} /\ NoOne \notin Callers
  /\ {Slots, Timeout, MaxEpoch, MaxLosses, MaxBusy, MaxFull} \subseteq Nat

VARIABLES
  call,      \* each caller: [at, epoch, left, attempt, id, got]
  queue,     \* who waits for or holds the send queue, in order
  pause,     \* ticks until the next send is due
  pending,   \* the pending request ids, with their callers
  seq,       \* req_seq
  epoch,     \* session_epoch
  channel,   \* the control channel, of one place
  sent,      \* requests on their way to the server
  answers,   \* answers on their way back
  executed,  \* how often the server executed each caller's request
  budget,    \* losses, busy answers and other messages so far
  stale,     \* a request was sent for an old session or after its deadline
  rushed     \* two requests were sent within one interval

callVars == <<call, queue, pause, pending, seq, epoch, channel, sent, answers,
          executed, budget, stale, rushed>>
net == <<sent, answers, executed, budget>>
history == <<stale, rushed>>

NoAnswer == [id |-> NoId, by |-> NoOne, status |-> 0]
Other == [id |-> NoId, by |-> NoOne]
New == [at |-> "new", epoch |-> 0, left |-> Timeout, attempt |-> 0,
        id |-> NoId, got |-> NoAnswer]

CallsInit ==
  /\ call = [c \in Callers |-> New]
  /\ queue = <<>> /\ pause = 0 /\ pending = {} /\ seq = 1 /\ epoch = 0
  /\ channel = <<>> /\ sent = {} /\ answers = {}
  /\ executed = [c \in Callers |-> 0]
  /\ budget = [lost |-> 0, busy |-> 0, other |-> 0]
  /\ stale = FALSE /\ rushed = FALSE

Running(c) == call[c].at \notin {"new", "done", "failed"}
At(c, step) == call[c].at = step
Goes(c, step) == [call EXCEPT ![c].at = step]

(* The queue once c has left it, wherever c stood. *)
Without(c) ==
  IF \E i \in 1 .. Len(queue) : queue[i] = c
  THEN LET k == CHOOSE i \in 1 .. Len(queue) : queue[i] = c
       IN [i \in 1 .. Len(queue) - 1 |-> queue[IF i < k THEN i ELSE i + 1]]
  ELSE queue

-----------------------------------------------------------------------------
(* mgmt_call.                                                              *)

(* The diagnostic routes have slots of their own. *)
Peers(c) == IF c \in Diagnostics THEN Diagnostics ELSE Callers \ Diagnostics
HasSlot(c) == Cardinality({d \in Peers(c) : Running(d)}) < Slots

(* A diagnostic request is neither queued nor paced. *)
Start(c) ==
  /\ At(c, "new")
  /\ call' = [call EXCEPT ![c].epoch = epoch, ![c].at =
                 IF ~HasSlot(c) THEN "failed"
                 ELSE IF c \in Diagnostics THEN "reserve" ELSE "queue"]
  /\ queue' = IF HasSlot(c) /\ c \notin Diagnostics THEN Append(queue, c) ELSE queue
  /\ UNCHANGED <<pause, pending, seq, epoch, channel, net, history>>

Acquire(c) ==
  /\ At(c, "queue") /\ Head(queue) = c
  /\ call' = Goes(c, "pace")
  /\ UNCHANGED <<queue, pause, pending, seq, epoch, channel, net, history>>

Pace(c) ==
  /\ At(c, "pace") /\ pause = 0
  /\ call' = Goes(c, "reserve")
  /\ UNCHANGED <<queue, pause, pending, seq, epoch, channel, net, history>>

Room == channel = <<>> /\ \A c \in Callers : ~At(c, "reserved")

Reserve(c) ==
  /\ At(c, "reserve") /\ Room
  /\ call' = Goes(c, "reserved")
  /\ UNCHANGED <<queue, pause, pending, seq, epoch, channel, net, history>>

(* Session and deadline, checked under the mutex that reset takes. *)
MaySend(c) == call[c].epoch = epoch /\ call[c].left > 0

Send(c) ==
  /\ At(c, "reserved")
  /\ queue' = Without(c)
  /\ IF MaySend(c)
     THEN /\ seq' = seq + 1
          /\ pending' = pending \union {[id |-> seq, by |-> c]}
          /\ channel' = Append(channel, [id |-> seq, by |-> c])
          /\ pause' = IF c \in Diagnostics THEN pause ELSE 1
          /\ call' = [call EXCEPT ![c].at = "wait", ![c].id = seq]
          /\ stale' = (stale \/ call[c].epoch # epoch \/ call[c].left = 0)
          /\ rushed' = (rushed \/ (c \notin Diagnostics /\ pause > 0))
     ELSE /\ call' = Goes(c, "failed")
          /\ UNCHANGED <<seq, pending, channel, pause, history>>
  /\ UNCHANGED <<epoch, net>>

(* Only a throttled GET is tried again. *)
Retries(c) ==
  c \in Gets /\ call[c].got.status = 429 /\ call[c].attempt < MaxGetRetries

Answered(c) ==
  /\ At(c, "answered")
  /\ call' = IF call[c].left = 0 THEN Goes(c, "failed")
             ELSE Goes(c, IF Retries(c) THEN "backoff" ELSE "done")
  /\ UNCHANGED <<queue, pause, pending, seq, epoch, channel, net, history>>

Again(c) ==
  /\ At(c, "backoff")
  /\ call' = [call EXCEPT ![c].at = "queue", ![c].attempt = @ + 1,
                          ![c].id = NoId, ![c].got = NoAnswer]
  /\ queue' = Append(queue, c)
  /\ UNCHANGED <<pause, pending, seq, epoch, channel, net, history>>

Awaits(c) ==
  call[c].at \in {"queue", "pace", "reserve", "wait", "answered", "backoff"}

(* The future is dropped: the queue is left and the pending entry removed. *)
Abandon(c) ==
  /\ Awaits(c)
  /\ call' = Goes(c, "failed") /\ queue' = Without(c)
  /\ pending' = {p \in pending : p.id # call[c].id}
  /\ UNCHANGED <<pause, seq, epoch, channel, net, history>>

TimesOutMutantRetries(c) ==
  /\ call[c].left = 0 /\ At(c, "wait") /\ call[c].attempt < MaxGetRetries
  /\ call' = [call EXCEPT ![c].at = "queue", ![c].attempt = @ + 1, ![c].left = Timeout]
  /\ queue' = Append(queue, c)
  /\ pending' = {p \in pending : p.id # call[c].id}
  /\ UNCHANGED <<pause, seq, epoch, channel, net, history>>

TimesOutMutantAnswer(c) == call[c].left = 0 /\ At(c, "wait") /\ Abandon(c)

TimesOut(c) == call[c].left = 0 /\ Abandon(c)

SessionChanged(c) == call[c].epoch # epoch /\ Abandon(c)

-----------------------------------------------------------------------------
(* The session loop.                                                       *)

reset ==
  /\ epoch < MaxEpoch
  /\ epoch' = epoch + 1 /\ pending' = {} /\ channel' = <<>>
  /\ UNCHANGED <<call, queue, pause, seq, net, history>>

on_mgmt_response(a) ==
  /\ a \in answers
  /\ answers' = answers \ {a}
  /\ pending' = {p \in pending : p.id # a.id}
  /\ call' = [c \in Callers |->
       IF [id |-> a.id, by |-> c] \in pending
       THEN [call[c] EXCEPT !.at = "answered", !.got = a] ELSE call[c]]
  /\ UNCHANGED <<queue, pause, seq, epoch, channel, sent, executed, budget, history>>

(* The upload loop takes a message from the control channel. *)
Upload ==
  /\ channel # <<>>
  /\ channel' = Tail(channel)
  /\ sent' = sent \union ({Head(channel)} \ {Other})
  /\ UNCHANGED <<call, queue, pause, pending, seq, epoch, answers, executed,
                 budget, history>>

OtherControl ==
  /\ Room /\ budget.other < MaxFull
  /\ channel' = <<Other>> /\ budget' = [budget EXCEPT !.other = @ + 1]
  /\ UNCHANGED <<call, queue, pause, pending, seq, epoch, sent, answers,
                 executed, history>>

-----------------------------------------------------------------------------
(* The server, the network and the clock.                                  *)

Reply(r, status) ==
  /\ sent' = sent \ {r}
  /\ answers' = answers \union {[id |-> r.id, by |-> r.by, status |-> status]}
  /\ UNCHANGED <<call, queue, pause, pending, seq, epoch, channel, history>>

Execute(r) ==
  /\ r \in sent /\ Reply(r, 200)
  /\ executed' = [executed EXCEPT ![r.by] = @ + 1]
  /\ UNCHANGED budget

Throttle(r) ==
  /\ r \in sent /\ budget.busy < MaxBusy /\ Reply(r, 429)
  /\ budget' = [budget EXCEPT !.busy = @ + 1]
  /\ UNCHANGED executed

Lose ==
  /\ budget.lost < MaxLosses
  /\ \/ \E r \in sent : sent' = sent \ {r} /\ UNCHANGED answers
     \/ \E a \in answers : answers' = answers \ {a} /\ UNCHANGED sent
  /\ budget' = [budget EXCEPT !.lost = @ + 1]
  /\ UNCHANGED <<call, queue, pause, pending, seq, epoch, channel, executed,
                 history>>

Less(n) == IF n = 0 THEN 0 ELSE n - 1

Tick ==
  /\ \E c \in Callers : Running(c) /\ call[c].left > 0
  /\ pause' = Less(pause)
  /\ call' = [c \in Callers |-> IF Running(c)
       THEN [call[c] EXCEPT !.left = Less(@)] ELSE call[c]]
  /\ UNCHANGED <<queue, pending, seq, epoch, channel, net, history>>

Proceeds(c) ==
  \/ Start(c) \/ Acquire(c) \/ Pace(c) \/ Reserve(c) \/ Send(c)
  \/ Answered(c) \/ Again(c)

CallsNext ==
  \/ \E c \in Callers : Proceeds(c) \/ Abandon(c) \/ TimesOut(c) \/ SessionChanged(c)
  \/ reset
  \/ \E a \in answers : on_mgmt_response(a)
  \/ Upload \/ OtherControl
  \/ \E r \in sent : Execute(r) \/ Throttle(r)
  \/ Lose
  \/ Tick

CallsFairness ==
  /\ \A c \in Callers : /\ WF_callVars(Start(c)) /\ WF_callVars(Send(c))
                        /\ WF_callVars(Answered(c)) /\ WF_callVars(TimesOut(c))
  /\ WF_callVars(Tick)

CallsSpec == CallsInit /\ [][CallsNext]_callVars
FairCallsSpec == CallsSpec /\ CallsFairness

-----------------------------------------------------------------------------
CallPhases == {"new", "queue", "pace", "reserve", "reserved", "wait", "answered", "backoff",
               "done", "failed"}
Answer == [id : Nat, by : Callers \union {NoOne}, status : {0, 200, 429}]
CallRecord == [at : CallPhases, epoch : Nat, left : 0 .. Timeout, attempt : 0 .. MaxGetRetries,
               id : Nat, got : Answer]
Request == [id : Nat, by : Callers]

(* Every part of the state has its type, and the control channel its one place. *)
CallTypeOK ==
  /\ call \in [Callers -> CallRecord]
  /\ queue \in Seq(Callers) /\ pause \in 0 .. 1
  /\ pending \subseteq Request /\ seq \in Nat /\ epoch \in Nat
  /\ channel \in Seq(Request \union {Other}) /\ Len(channel) <= 1
  /\ sent \subseteq Request
  /\ answers \subseteq [id : Nat, by : Callers, status : {200, 429}]
  /\ executed \in [Callers -> Nat]
  /\ budget \in [lost : Nat, busy : Nat, other : Nat]
  /\ stale \in BOOLEAN /\ rushed \in BOOLEAN

(* A call that returns has the answer to its own request, although calls   *)
(* overlap, answers are late and a reset lies between (req_seq is not      *)
(* reset, on_mgmt_response drops an unknown id).                           *)
OwnAnswer ==
  \A c \in Callers : At(c, "done") => call[c].got.by = c /\ call[c].got.id = call[c].id

(* The server executes the request of a call at most once: only a          *)
(* throttled GET, which was not executed, is sent again (mgmt_call).       *)
AtMostOnce == \A c \in Callers : executed[c] <= 1

(* No request enters the channel for a session that has been reset, nor    *)
(* after the caller's deadline, however long it waited for queue and place *)
(* (the check under the pending mutex).                                    *)
NeverStale == ~stale

(* Two administrative requests are never sent within one interval,         *)
(* whoever sends them and whoever gave up waiting in between (send_queue). *)
NeverRushed == ~rushed

(* Every pending id belongs to a call that waits for it: a timeout, a      *)
(* dropped future and a reset leave no entry behind (PendingCleanup).      *)
NoLeak ==
  \A p \in pending : At(p.by, "wait") /\ call[p.by].id = p.id

(* What the calls of the management API may rely on, although they overlap, *)
(* are dropped and retried, and answers come late (mgmt_call, reset,        *)
(* on_mgmt_response).                                                       *)
CallsSound == OwnAnswer /\ AtMostOnce /\ NeverStale /\ NeverRushed /\ NoLeak

(* Every call returns, also when the channel stays full, the queue's       *)
(* holder waits or no answer comes (timeout_at around the whole request).  *)
Returns == \A c \in Callers : <>(call[c].at \in {"done", "failed"})
=============================================================================
