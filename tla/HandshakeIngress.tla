-------------------------- MODULE HandshakeIngress --------------------------
(***************************************************************************)
(* Admission of handshakes by the gateway: handle_unmasked_packet_with_    *)
(* source of aivpn-server/src/gateway/packet_ingress.rs up to the first    *)
(* ServerHello, against clients that retry as handshake_retry.rs does.     *)
(*                                                                         *)
(* A packet without a session is worth a scan of all clients only if no    *)
(* other handshake of its IP address is under way, its address is not in a *)
(* cooldown, and the gateway has CPU credit.  The clients here share one   *)
(* IP address.  A client keeps its port when it reconnects, so the         *)
(* cooldown its last packets have earned after a restart of the server     *)
(* meets its next handshake.                                               *)
(*                                                                         *)
(* Times count down, one unit per Tick, so that a behaviour has no end.    *)
(***************************************************************************)
EXTENDS Integers, FiniteSets

CONSTANTS Clients, Workers,
          HANDSHAKE_TIMEOUT, FirstInterval, MAX_RETRY_INTERVAL,
          HelloGap,      \* 200 ms between hellos after the second
          MaxHellos,     \* 16
          LivePause,     \* 1 s for an address with a session
          BasePause,     \* 2 s, doubled with every failure up to the third
          MaxCredit,     \* 100 ms of scanning, refilled by a tenth of the time
          MaxCost,       \* cost of an expensive scan
          MaxExpensive, MaxLosses, MaxHeld, MaxRestarts  \* bounds on the faults

VARIABLES client,     \* what each client does
          key,        \* number of its latest attempt: names its ephemeral key
          net,        \* packets on their way
          session,    \* the gateway's sessions
          opened,     \* keys the gateway has opened a session for
          cooldown,   \* handshake_cooldowns: address -> [fails, left]
          credit,     \* PreauthBudget
          scan,       \* what each worker scans for; the lock of the IP is held meanwhile
          missed,     \* packets each worker has found no session for
          faults,     \* faults so far
          silenced    \* history: a retry of a waiting client was left unanswered

vars == <<client, key, net, session, opened, cooldown, credit, scan, missed, faults, silenced>>

Kinds == {"init", "hello", "data"}
Packet(c, kind, k) == [c |-> c, kind |-> kind, key |-> k, held |-> FALSE]
None == {}
NoCooldown == [fails |-> 0, left |-> 0]
NoFaults == [lost |-> 0, held |-> 0, restarts |-> 0, expensive |-> 0]

Down == [phase |-> "down", left |-> 0, next |-> 0, interval |-> 0]

Init ==
    /\ client = [c \in Clients |-> Down]
    /\ key = [c \in Clients |-> 0]
    /\ net = {}
    /\ session = {} /\ opened = {}
    /\ cooldown = [c \in Clients |-> NoCooldown]
    /\ credit = MaxCredit
    /\ scan = [w \in Workers |-> None] /\ missed = [w \in Workers |-> None]
    /\ faults = NoFaults
    /\ silenced = FALSE

server == <<session, opened, cooldown, credit, scan, missed, silenced>>
-----------------------------------------------------------------------------
(* Clients *)

Least(a, b) == IF a < b THEN a ELSE b

Connect(c) ==
    /\ client[c].phase = "down"
    /\ key' = [key EXCEPT ![c] = @ + 1]
    /\ client' = [client EXCEPT ![c] = [phase |-> "trying", left |-> HANDSHAKE_TIMEOUT,
                                        next |-> FirstInterval, interval |-> FirstInterval]]
    /\ net' = net \union {Packet(c, "init", key[c] + 1)}
    /\ UNCHANGED <<server, faults>>

\* HandshakeRetry: the retry is due, or the attempt is over.
Doubled(i) == Least(2 * i, MAX_RETRY_INTERVAL)

Resend(c) ==
    /\ client[c].phase = "trying"
    /\ client[c].next = 0 \/ client[c].left = 0
    /\ IF client[c].left = 0
       THEN client' = [client EXCEPT ![c] = Down] /\ net' = net
       ELSE /\ client' = [client EXCEPT ![c].interval = Doubled(@),
                                        ![c].next = Least(Doubled(client[c].interval), client[c].left)]
            /\ net' = net \union {Packet(c, "init", key[c])}
    /\ UNCHANGED <<key, server, faults>>

ReceiveHello(p) ==
    /\ p \in net /\ p.kind = "hello"
    /\ net' = net \ {p}
    /\ client' = IF client[p.c].phase = "trying" /\ p.key = key[p.c]
                 THEN [client EXCEPT ![p.c] = [Down EXCEPT !.phase = "up"]] ELSE client
    /\ UNCHANGED <<key, server, faults>>

Known(c) == \E s \in session : s.c = c /\ s.key = key[c] /\ s.ratcheted

\* A connected client sends; it hears nothing from a gateway that does not know it and
\* connects again sooner or later.
SendData(c) ==
    /\ client[c].phase = "up" /\ ~Known(c)
    /\ Packet(c, "data", key[c]) \notin net
    /\ client[c].next = 0
    /\ client' = [client EXCEPT ![c].next = 1]
    /\ net' = net \union {Packet(c, "data", key[c])}
    /\ UNCHANGED <<key, server, faults>>

RxSilence(c) ==
    /\ client[c].phase = "up" /\ <<c, key[c]>> \notin {<<s.c, s.key>> : s \in session}
    /\ client' = [client EXCEPT ![c] = Down]
    /\ UNCHANGED <<key, net, server, faults>>
-----------------------------------------------------------------------------
(* The gateway *)

\* admit_initial_hello
Exhausted(s) == s.sends >= MaxHellos
admit_initial_hello(s) ==
    ~Exhausted(s) /\ s.age < HANDSHAKE_TIMEOUT /\ (s.sends >= 2 => s.gap = 0)

Said(s) == [s EXCEPT !.sends = @ + 1, !.gap = HelloGap]

\* complete_session_ratchet: the client has shown that it received the hello.
ProvenMutantInTime(s) == [s EXCEPT !.ratcheted = s.age < HANDSHAKE_TIMEOUT]
Proven(s) == [s EXCEPT !.ratcheted = TRUE]

\* find_existing_session and what follows for a session found: a retry of the handshake is
\* answered again, a packet under the ratcheted key proves the address.
Lookup(w, p) ==
    LET found == {s \in session : s.c = p.c /\ s.key = p.key}
    IN  /\ p \in net /\ p.kind \in {"init", "data"}
        /\ missed[w] = None /\ scan[w] = None
        /\ \/ /\ found = {}
              /\ missed' = [missed EXCEPT ![w] = {p}]
              /\ net' = net \ {p}
              /\ UNCHANGED <<session, cooldown, silenced>>
           \/ /\ p.kind = "init"
              /\ \E s \in found :
                    IF s.ratcheted \/ ~admit_initial_hello(s)
                    THEN /\ net' = net \ {p}
                         /\ silenced' = \/ silenced
                                        \/ /\ ~s.ratcheted /\ s.gap = 0
                                           /\ client[p.c].phase = "trying" /\ key[p.c] = p.key
                                           /\ client[p.c].left > 0
                         /\ UNCHANGED session
                    ELSE /\ net' = (net \ {p}) \union {Packet(p.c, "hello", p.key)}
                         /\ session' = (session \ {s}) \union {Said(s)}
                         /\ UNCHANGED silenced
              /\ UNCHANGED <<missed, cooldown>>
           \/ /\ p.kind = "data"
              /\ \E s \in found :
                    session' = {o \in session : o.c # p.c} \union {Proven(s)}
              /\ cooldown' = [cooldown EXCEPT ![p.c] = NoCooldown]
              /\ net' = net \ {p}
              /\ UNCHANGED <<missed, silenced>>
        /\ UNCHANGED <<client, key, opened, credit, scan, faults>>

\* handshake_locks, handshake_cooldowns, PreauthLease::acquire: go on or drop the packet.
PassesMutantNoLock(p) == cooldown[p.c].left = 0 /\ credit > 0
Passes(p) ==
    /\ \A w \in Workers : scan[w] = None
    /\ cooldown[p.c].left = 0
    /\ credit > 0

Begin(w) ==
    /\ \E p \in missed[w] : scan' = IF Passes(p) THEN [scan EXCEPT ![w] = {p}] ELSE scan
    /\ missed' = [missed EXCEPT ![w] = None]
    /\ UNCHANGED <<client, key, net, session, opened, cooldown, credit, faults, silenced>>

\* create_authenticated_session takes a key once.
Creates(p) == p.kind = "init" /\ <<p.c, p.key>> \notin opened

Pause(fails) == IF fails = 0 THEN LivePause ELSE BasePause * 2 ^ Least(fails, 3)
PauseFor(fails) == [fails |-> fails, left |-> Pause(fails)]

\* The scan ends: a new session and its ServerHello, or a cooldown.
Failed(p) ==
    IF \E s \in session : s.c = p.c THEN PauseFor(0)
    ELSE PauseFor(Least(cooldown[p.c].fails + 1, 3))

Finish(w) ==
    /\ \E p \in scan[w] :
          IF Creates(p)
          THEN /\ session' = session \union {[c |-> p.c, key |-> p.key, ratcheted |-> FALSE,
                                              sends |-> 1, age |-> 0, gap |-> HelloGap]}
               /\ opened' = opened \union {<<p.c, p.key>>}
               /\ net' = net \union {Packet(p.c, "hello", p.key)}
               /\ UNCHANGED cooldown
          ELSE /\ cooldown' = [cooldown EXCEPT ![p.c] = Failed(p)]
               /\ UNCHANGED <<session, opened, net>>
    /\ \/ UNCHANGED <<credit, faults>>
       \/ /\ faults.expensive < MaxExpensive
          /\ credit' = credit - MaxCost
          /\ faults' = [faults EXCEPT !.expensive = @ + 1]
    /\ scan' = [scan EXCEPT ![w] = None]
    /\ UNCHANGED <<client, key, missed, silenced>>
-----------------------------------------------------------------------------
(* Time and faults *)

Dec(n) == IF n = 0 THEN 0 ELSE n - 1

\* Time passes when everything that is not held up has been dealt with.
Tick ==
    /\ \A p \in net : p.held
    /\ \A w \in Workers : scan[w] = None /\ missed[w] = None
    /\ \A c \in Clients : /\ client[c].phase = "trying" => client[c].next > 0 /\ client[c].left > 0
                          /\ client[c].phase # "down"
    /\ client' = [c \in Clients |-> [client[c] EXCEPT !.left = Dec(@), !.next = Dec(@)]]
    /\ session' = {[s EXCEPT !.age = IF s.ratcheted \/ @ = HANDSHAKE_TIMEOUT THEN @ ELSE @ + 1,
                             !.gap = Dec(@)] : s \in session}
    /\ cooldown' = [c \in Clients |-> [cooldown[c] EXCEPT !.left = Dec(@)]]
    /\ credit' = Least(credit + 1, MaxCredit)
    /\ UNCHANGED <<key, net, opened, scan, missed, faults, silenced>>

Lose(p) ==
    /\ p \in net /\ faults.lost < MaxLosses
    /\ faults' = [faults EXCEPT !.lost = @ + 1]
    /\ net' = net \ {p}
    /\ UNCHANGED <<client, key, server>>

Hold(p) ==
    /\ p \in net /\ ~p.held /\ faults.held < MaxHeld
    /\ faults' = [faults EXCEPT !.held = @ + 1]
    /\ net' = (net \ {p}) \union {[p EXCEPT !.held = TRUE]}
    /\ UNCHANGED <<client, key, server>>

Restart ==
    /\ faults.restarts < MaxRestarts
    /\ faults' = [faults EXCEPT !.restarts = @ + 1]
    /\ session' = {} /\ opened' = {}
    /\ cooldown' = [c \in Clients |-> NoCooldown]
    /\ credit' = MaxCredit
    /\ scan' = [w \in Workers |-> None] /\ missed' = [w \in Workers |-> None]
    /\ UNCHANGED <<client, key, net, silenced>>

Next ==
    \/ \E c \in Clients : Connect(c) \/ Resend(c) \/ SendData(c) \/ RxSilence(c)
    \/ \E p \in net : ReceiveHello(p) \/ Lose(p) \/ Hold(p)
    \/ \E w \in Workers, p \in net : Lookup(w, p)
    \/ \E w \in Workers : Begin(w) \/ Finish(w)
    \/ Tick
    \/ Restart

Hear == \E p \in net : ReceiveHello(p)
Work(w) == (\E p \in net : Lookup(w, p)) \/ Begin(w) \/ Finish(w)

\* Clients and workers keep running, packets arrive unless they are lost, time passes.
Fairness ==
    /\ \A c \in Clients : /\ WF_vars(Connect(c) \/ Resend(c)) /\ WF_vars(SendData(c))
                          /\ WF_vars(RxSilence(c))
    /\ WF_vars(Hear)
    /\ \A w \in Workers : WF_vars(Work(w))
    /\ WF_vars(Tick)

Spec == Init /\ [][Next]_vars /\ Fairness

-----------------------------------------------------------------------------
\* The two packets of one handshake that are scanned one after the other, both having
\* missed the session, open one session.
OneSessionPerKey ==
    \A s, t \in session : s.c = t.c /\ s.key = t.key => s = t

\* One handshake of an IP address is scanned at a time.
OneScan == Cardinality({w \in Workers : scan[w] # None}) <= 1

\* "Replying with a normal pre-ratchet ControlAck leaves the client stuck forever": a retry
\* that reaches its waiting session is answered unless an answer has just been sent.
NeverSilenced == ~silenced

\* Whatever is lost, late, dropped for the lock, the cooldown or the budget, and whatever
\* cooldown a restart has brought on, every client is connected in the end.
Reconnects == \A c \in Clients : <>[](client[c].phase = "up" /\ Known(c))
=============================================================================
