------------------------------- MODULE Rekey -------------------------------
(***************************************************************************)
(* The inline rekey of an established session, both ends and the network.  *)
(* The gateway's two-second sweep asks for a rekey with a KeyRotate that   *)
(* names a fresh server key; the client answers with a KeyRotate that      *)
(* names a fresh client key, sealed under the old session keys; the        *)
(* gateway derives the next session keys and confirms with a ControlAck    *)
(* under them.  Both ends keep the old keys for a grace period.  Packets   *)
(* may be lost and overtake each other but are never delivered twice (the  *)
(* replay windows: RecvWindow, SessionUplink).                             *)
(*                                                                         *)
(* Session keys are symbolic: deriving from keys k with server key s and   *)
(* client key c gives Append(k, <<s, c>>), so two ends hold the same keys  *)
(* exactly when their sequences are equal.                                 *)
(***************************************************************************)
EXTENDS Integers, Sequences, FiniteSets, SequencesExt

CONSTANTS
  MaxAttempts,     \* MAX_REKEY_SEND_ATTEMPTS
  Retransmit,      \* ticks of the sweep between two sends of a KeyRotate
  StartPeriod,     \* ticks of the sweep between two rounds of initiation
  Interval,        \* REKEY_INTERVAL_SECS, in ticks
  Grace,           \* REKEY_TRANSITION_GRACE (client), in ticks
  HardCap,         \* REKEY_TRANSITION_HARD_CAP (client), in ticks
  ServerGrace,     \* INLINE_REKEY_GRACE_MIN, in ticks
  AckTimeout,      \* REKEY_ACK_TIMEOUT, in ticks
  KeepAlive,       \* ticks between two keepalives of the client
  Delay,           \* the longest a packet is under way, in ticks
  HeavyTraffic,    \* TRUE iff REKEY_BYTES_THRESHOLD can be reached
  MaxRekeys,       \* bound: rekeys the gateway initiates
  MaxFaults        \* bound: packets lost and ticks the upload task stalls

ASSUME RekeyAssumption ==
  /\ {MaxAttempts, Retransmit, StartPeriod, Interval, Grace, HardCap,
      ServerGrace, AckTimeout, KeepAlive} \subseteq Nat \ {0}
  /\ {Delay, MaxRekeys, MaxFaults} \subseteq Nat
  /\ HeavyTraffic \in BOOLEAN

VARIABLES
  srv,      \* the gateway's session
  cli,      \* the client
  net,      \* packets under way
  tick,     \* the sweep's counter, modulo StartPeriod and KeepAlive
  derived,  \* history: every session key the client has derived
  faults    \* history: faults so far

vars == <<srv, cli, net, tick, derived, faults>>

-----------------------------------------------------------------------------
FirstKey == << >>
NoKey == << <<0, 0>> >>          \* Option::None
NoEph == 0

Pairs == (0 .. MaxRekeys) \X (0 .. MaxRekeys + MaxRekeys)
Keys == {<< >>} \cup {<<p>> : p \in Pairs} \cup (Pairs \X Pairs)
                \cup (Pairs \X Pairs \X Pairs)

\* derive_session_keys(dh(server_eph, client_eph), Some(session_key), client_eph)
DeriveSessionKeys(key, serverEph, clientEph) ==
  Append(key, <<serverEph, clientEph>>)

Down(kind, key, eph, n) ==
  [to |-> "client", kind |-> kind, key |-> key, eph |-> eph, n |-> n, age |-> 0]
Up(kind, key, eph, n) ==
  [to |-> "server", kind |-> kind, key |-> key, eph |-> eph, n |-> n, age |-> 0]

Waiting == cli.pc # "run"        \* the receive loop is inside the handler

Minimum(a, b) == IF a <= b THEN a ELSE b

Init ==
  /\ srv = [key |-> FirstKey, prev |-> NoKey, grace |-> 0, pending |-> NoEph,
            attempts |-> 0, sinceSent |-> 0, sinceRekey |-> 0, bytes |-> FALSE,
            outbox |-> NoEph, rekeys |-> 0]
  /\ cli = [key |-> FirstKey, prev |-> NoKey, deadline |-> 0, hard |-> 0,
            eph |-> NoEph, response |-> NoEph, upload |-> FirstKey,
            staged |-> NoKey, pc |-> "run", next |-> NoKey, request |-> NoEph,
            waited |-> 0, acked |-> FALSE, queue |-> << >>, made |-> 0]
  /\ net = {}
  /\ tick = 0
  /\ derived = {FirstKey}
  /\ faults = 0

-----------------------------------------------------------------------------
(* The gateway.                                                            *)

\* Traffic carries bytes_since_rekey over the threshold.
Traffic ==
  /\ HeavyTraffic
  /\ ~srv.bytes
  /\ srv' = [srv EXCEPT !.bytes = TRUE]
  /\ UNCHANGED <<cli, net, tick, derived, faults>>

\* One session of rekey_retransmits_due: resend, or give up.
RekeyRetransmitsDue(s) ==
  IF s.pending = NoEph \/ s.sinceSent < Retransmit THEN s
  ELSE IF s.attempts < MaxAttempts
    THEN [s EXCEPT !.attempts = @ + 1, !.sinceSent = 0, !.outbox = s.pending]
    ELSE [s EXCEPT !.pending = NoEph, !.attempts = 0, !.sinceRekey = 0]

\* One session of start_rekeying_sessions.
StartRekeying(s) ==
  IF /\ s.pending = NoEph
     /\ s.sinceRekey >= Interval \/ s.bytes
     /\ s.rekeys < MaxRekeys
    THEN [s EXCEPT !.pending = s.rekeys + 1, !.rekeys = @ + 1, !.attempts = 1,
                   !.sinceSent = 0, !.outbox = s.rekeys + 1]
    ELSE s

\* The sweep sends the KeyRotate it collected, under the keys of that moment.
SendKeyRotate ==
  /\ srv.outbox # NoEph
  /\ net' = net \cup {Down("KeyRotate", srv.key, srv.outbox, srv.attempts)}
  /\ srv' = [srv EXCEPT !.outbox = NoEph]
  /\ UNCHANGED <<cli, tick, derived, faults>>

\* commit_session_rekey
CommitSessionRekey(s, clientEph) ==
  [s EXCEPT !.key = DeriveSessionKeys(s.key, s.pending, clientEph),
            !.prev = s.key, !.grace = ServerGrace, !.pending = NoEph,
            !.attempts = 0, !.bytes = FALSE, !.sinceRekey = 0]

ServerReads(key) == key = srv.key \/ (srv.grace > 0 /\ key = srv.prev)

\* A packet the gateway cannot read is dropped; an answer commits the pending
\* rekey, or is ignored when there is none; a keepalive is acknowledged.
ServerReceive(m) ==
  /\ m.to = "server"
  /\ IF ~ServerReads(m.key) \/ (m.kind = "KeyRotate" /\ srv.pending = NoEph)
       THEN /\ net' = net \ {m}
            /\ UNCHANGED srv
       ELSE IF m.kind = "KeyRotate"
         THEN /\ srv' = CommitSessionRekey(srv, m.eph)
              /\ net' = (net \ {m}) \cup {Down("ControlAck", srv'.key, NoEph, 0)}
         ELSE /\ net' = (net \ {m}) \cup {Down("KeepaliveAck", srv.key, NoEph, 0)}
              /\ UNCHANGED srv
  /\ UNCHANGED <<cli, tick, derived, faults>>

-----------------------------------------------------------------------------
(* The client's receive loop.                                              *)

PromotePendingUploadKeys(c) ==
  IF c.staged = NoKey THEN c
  ELSE [c EXCEPT !.upload = c.staged, !.staged = NoKey]

\* The transition deadline is looked at only when a packet arrives.
CloseTransition(c) ==
  IF c.prev # NoKey /\ c.deadline = 0
    THEN PromotePendingUploadKeys([c EXCEPT !.prev = NoKey, !.hard = 0])
    ELSE c

\* A KeyRotate that repeats the request already answered: queue the same
\* answer with the old keys swapped into the upload state, and wait.
ResendResponse(c, m) ==
  IF c.prev = NoKey \/ c.response = NoEph THEN c
  ELSE [c EXCEPT !.upload = c.prev, !.pc = "resend", !.waited = 0,
                 !.acked = FALSE,
                 !.queue = Append(@, [eph |-> c.response, n |-> m.n])]

\* A fresh KeyRotate: derive from the current keys, queue the answer, wait.
AnswerKeyRotate(c, m) ==
  [c EXCEPT !.made = @ + 1, !.pc = "switch", !.waited = 0, !.acked = FALSE,
            !.request = m.eph,
            !.next = DeriveSessionKeys(c.key, m.eph, c.made + 1),
            !.queue = Append(@, [eph |-> c.made + 1, n |-> m.n])]

\* Mutant: every KeyRotate is taken for a fresh request.
HandleServerControlMutantNoDuplicateCheck(c, m) ==
  IF m.kind # "KeyRotate" THEN c ELSE AnswerKeyRotate(c, m)

\* Mutant: the comparison with the request already answered is inverted.
HandleServerControlMutantInvertedCheck(c, m) ==
  IF m.kind # "KeyRotate" THEN c
  ELSE IF m.eph # c.eph THEN ResendResponse(c, m)
  ELSE AnswerKeyRotate(c, m)

HandleServerControl(c, m) ==
  IF m.kind # "KeyRotate" THEN c
  ELSE IF m.eph = c.eph THEN ResendResponse(c, m)
  ELSE AnswerKeyRotate(c, m)

\* receive_and_write_packet: close an expired transition, try the session keys
\* (success proves the commit), then the transition keys.
ClientReceive(m) ==
  LET c == CloseTransition(cli) IN
  /\ m.to = "client"
  /\ ~Waiting
  /\ cli' = IF m.key = c.key
              THEN HandleServerControl(PromotePendingUploadKeys(c), m)
              ELSE IF c.prev # NoKey /\ m.key = c.prev
                THEN HandleServerControl(c, m)
                ELSE c
  /\ derived' = derived \cup (IF cli'.pc = "switch" THEN {cli'.next} ELSE {})
  /\ net' = net \ {m}
  /\ UNCHANGED <<srv, tick, faults>>

\* The upload task seals the oldest queued answer with the keys of the upload
\* state and fires the rendezvous of whoever waits.
EncryptControl ==
  /\ cli.queue # << >>
  /\ net' = net \cup {Up("KeyRotate", cli.upload, Head(cli.queue).eph, Head(cli.queue).n)}
  /\ cli' = [cli EXCEPT !.queue = Tail(@), !.acked = Waiting]
  /\ UNCHANGED <<srv, tick, derived, faults>>

Rendezvous == cli.acked \/ cli.waited >= AckTimeout

\* Mutant: the old keys are kept only for packets in flight.
CompleteSwitchMutantShortGrace ==
  /\ cli.pc = "switch"
  /\ Rendezvous
  /\ cli' = [cli EXCEPT !.prev = cli.key, !.key = cli.next, !.deadline = 1,
                        !.hard = HardCap, !.eph = cli.request,
                        !.response = cli.made, !.staged = cli.next,
                        !.pc = "run", !.next = NoKey, !.request = NoEph,
                        !.waited = 0, !.acked = FALSE]
  /\ UNCHANGED <<srv, net, tick, derived, faults>>

\* The answer is sealed, or the wait timed out: switch the receive keys and
\* stage the upload keys.
CompleteSwitch ==
  /\ cli.pc = "switch"
  /\ Rendezvous
  /\ cli' = [cli EXCEPT !.prev = cli.key, !.key = cli.next, !.deadline = Grace,
                        !.hard = HardCap, !.eph = cli.request,
                        !.response = cli.made, !.staged = cli.next,
                        !.pc = "run", !.next = NoKey, !.request = NoEph,
                        !.waited = 0, !.acked = FALSE]
  /\ UNCHANGED <<srv, net, tick, derived, faults>>

\* The resend is sealed, or timed out: restore the upload keys, extend the
\* transition up to the hard cap.
CompleteResend ==
  /\ cli.pc = "resend"
  /\ Rendezvous
  /\ cli' = [cli EXCEPT !.upload = IF cli.staged # NoKey THEN cli.prev ELSE cli.key,
                        !.deadline = Minimum(Grace, cli.hard), !.pc = "run",
                        !.waited = 0, !.acked = FALSE]
  /\ UNCHANGED <<srv, net, tick, derived, faults>>

-----------------------------------------------------------------------------
(* The network and time.                                                   *)

Lose(m) ==
  /\ faults < MaxFaults
  /\ net' = net \ {m}
  /\ faults' = faults + 1
  /\ UNCHANGED <<srv, cli, tick, derived>>

Saturate(n) == IF n > 0 THEN n - 1 ELSE 0

\* A tick of the sweep: retransmit or give up, initiate on every
\* StartPeriod-th tick; timers advance, and the client's keepalive is sent.
\* A packet that has been under way for Delay ticks arrives before the next
\* tick, unless the client's receive loop is inside the rendezvous.
Tick ==
  LET t == (tick + 1) % (StartPeriod * KeepAlive)
      aged == [srv EXCEPT !.sinceSent = Minimum(@ + 1, Retransmit),
                          !.sinceRekey = Minimum(@ + 1, Interval),
                          !.grace = Saturate(@)]
      swept == RekeyRetransmitsDue(aged)
      ping == IF t % KeepAlive = 0 THEN {Up("Keepalive", cli.upload, NoEph, 0)} ELSE {}
  IN
  /\ srv.outbox = NoEph
  /\ \A m \in net : m.age < Delay \/ (m.to = "client" /\ Waiting)
  /\ Waiting => ~Rendezvous
  /\ cli.queue # << >> => faults < MaxFaults
  /\ faults' = IF cli.queue # << >> THEN faults + 1 ELSE faults
  /\ tick' = t
  /\ srv' = IF t % StartPeriod = 0 THEN StartRekeying(swept) ELSE swept
  /\ cli' = [cli EXCEPT !.deadline = Saturate(@), !.hard = Saturate(@),
                        !.waited = IF Waiting THEN @ + 1 ELSE 0]
  /\ net' = {[m EXCEPT !.age = Minimum(@ + 1, Delay)] : m \in net} \cup ping
  /\ UNCHANGED derived

Next ==
  \/ Traffic
  \/ SendKeyRotate
  \/ \E m \in net : ServerReceive(m)
  \/ \E m \in net : ClientReceive(m)
  \/ EncryptControl
  \/ CompleteSwitch
  \/ CompleteResend
  \/ \E m \in net : Lose(m)
  \/ Tick

\* A packet that was under way for long enough is received.
Arrival == \E m \in net : m.age = Delay /\ (ServerReceive(m) \/ ClientReceive(m))

\* The sweep task, the receive loop and the upload task are timer and
\* socket driven and run forever; a packet that is not lost arrives.
Fairness ==
  /\ WF_vars(Tick)
  /\ WF_vars(SendKeyRotate)
  /\ WF_vars(EncryptControl)
  /\ WF_vars(CompleteSwitch \/ CompleteResend)
  /\ WF_vars(Arrival)

Spec == Init /\ [][Next]_vars /\ Fairness

-----------------------------------------------------------------------------
(* Properties.                                                             *)

\* Type invariant of both ends and the packets under way.
TypeOK ==
  /\ {srv.key, srv.prev, cli.key, cli.prev, cli.upload, cli.staged, cli.next} \subseteq Keys
  /\ srv.pending \in 0 .. srv.rekeys
  /\ srv.attempts \in 0 .. MaxAttempts
  /\ srv.outbox # NoEph => srv.pending \in {NoEph, srv.outbox}
  /\ cli.pc \in {"run", "switch", "resend"}
  /\ cli.deadline <= cli.hard
  /\ cli.staged \in {NoKey, cli.key}
  /\ \A m \in net : m.key \in Keys /\ m.age \in 0 .. Delay
  /\ faults \in 0 .. MaxFaults

\* The gateway only ever commits session keys that the client derived too:
\* whichever copy of the client's answer commit_session_rekey consumes, both
\* sides end up with the same key pair (control_handler.rs, KeyRotate).
KeysConverge == srv.key \in derived

\* While fewer packets are lost than a KeyRotate has transmissions, the gateway
\* can always read what the client sends: the upload keys change only after
\* the commit, and within the gateway's grace for the old keys.
UplinkReadable == ServerReads(cli.upload)

\* ... and the client can always read what the gateway sends: the new keys are
\* in place when the commit is, and the old ones are kept until then.
DownlinkReadable ==
  \/ srv.key \in {cli.key, cli.next}
  \/ srv.key = cli.prev /\ cli.deadline > 0

\* A rekey that the gateway starts is committed, and the client's upload path
\* reaches the committed keys, whatever is lost within the bound on faults.
RekeyCompletes ==
  srv.pending # NoEph ~> (srv.pending = NoEph /\ cli.upload = srv.key /\ srv.key # FirstKey)

=============================================================================
