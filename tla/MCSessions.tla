----------------------------- MODULE MCSessions -----------------------------
(***************************************************************************)
(* How a session begins and how its packets are received, for TLC: the     *)
(* claims of initial keyspaces (HandshakeReplay), the handshake packets of *)
(* clients behind one address (HandshakeIngress) and the receive workers   *)
(* of one session (SessionUplink). The parts share no variable, so a       *)
(* behaviour of the whole is one behaviour of each; TLC explores those in  *)
(* which one part, chosen at the start, moves. Handshake windows are two   *)
(* units long, so that a client's retries straddle a boundary, and there   *)
(* is one tombstone fewer than keyspaces. Tag window, stride, lookahead    *)
(* and recovery range keep the proportions of the code (512, 128, 4096,    *)
(* 2048), and the packets are sparse.                                      *)
(***************************************************************************)
EXTENDS HandshakeReplay, SessionUplink, TLC

CONSTANTS w1, w2

VARIABLES part, client, key, net, session, opened, cooldown, credit, scan,
          missed, faults, silenced

ingressVars == <<client, key, net, session, opened, cooldown, credit, scan,
                 missed, faults, silenced>>
whole == <<part, replayVars, ingressVars, uplinkVars>>

(* Four keys; the client never outruns the tags published while a rekey is *)
(* pending.                                                                *)
Sealed == {<<0, 0>>, <<1, 0>>, <<1, 1>>, <<1, 70>>, <<2, 9>>, <<2, 71>>, <<3, 66>>}

(* Two clients behind one address, two workers, a lost packet, two late    *)
(* ones and an expensive scan; a unit of time is a second                  *)
Ingress == INSTANCE HandshakeIngress WITH
  Clients <- {"c1", "c2"}, Workers <- {w1, w2}, HANDSHAKE_TIMEOUT <- 10,
  FirstInterval <- 1, MAX_RETRY_INTERVAL <- 2, HelloGap <- 1, MaxHellos <- 8,
  LivePause <- 1, BasePause <- 2, MaxCredit <- 1, MaxCost <- 2,
  MaxExpensive <- 1, MaxLosses <- 1, MaxHeld <- 2, MaxRestarts <- 0

WholeInit ==
  /\ part \in {"replay", "ingress", "uplink"}
  /\ ReplayInit
  /\ part # "replay" => made = [k \in Keyspaces |-> 0]
  /\ Ingress!Init
  /\ UplinkInit

WholeNext ==
  /\ UNCHANGED part
  /\ \/ part = "replay" /\ ReplayNext /\ UNCHANGED <<ingressVars, uplinkVars>>
     \/ part = "ingress" /\ Ingress!Next
        /\ UNCHANGED <<replayVars, uplinkVars>>
     \/ part = "uplink" /\ UplinkNext /\ UNCHANGED <<replayVars, ingressVars>>

WholeSpec == WholeInit /\ [][WholeNext]_whole

Alike == Permutations({w1, w2})

-----------------------------------------------------------------------------
(* Two packets of one handshake that have both missed the session open one *)
(* session; one handshake of an IP address is scanned at a time; and a     *)
(* retry that reaches its waiting session is answered with the ServerHello *)
(* unless an answer has just been sent, so that an honest client does not  *)
(* meet the limit on repeated hellos (create_client_session, the scan lock *)
(* and the un-ratcheted session of packet_ingress).                        *)
HandshakesSound ==
  part = "ingress" =>
    Ingress!OneSessionPerKey /\ Ingress!OneScan /\ Ingress!NeverSilenced

-----------------------------------------------------------------------------
(* The client is further ahead than the tags published while a rekey is    *)
(* pending reach, but not further than the scan around the search centre.  *)
Far == INSTANCE SessionUplink WITH
  Packets <- {<<1, 0>>, <<1, 1>>, <<1, 72>>}, MaxKey <- 2

FarSpec ==
  /\ part = "uplink" /\ ReplayInit /\ made = [k \in Keyspaces |-> 0]
  /\ Ingress!Init /\ Far!UplinkInit
  /\ [][Far!UplinkNext /\ UNCHANGED <<part, replayVars, ingressVars>>]_whole

(* The same as AtMostOnce for such packets: preserve_replay_for_grace      *)
(* promises to carry over the history of the old key, stale counters       *)
(* included.                                                               *)
FarAtMostOnce == Far!AtMostOnce
=============================================================================
