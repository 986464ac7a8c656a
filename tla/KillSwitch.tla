---------------------------- MODULE KillSwitch -----------------------------
(***************************************************************************)
(* The kill switch of the Linux client: firewall rules that let out only   *)
(* loopback, the tunnel and the server.  It is built and taken down by a   *)
(* row of nft or iptables commands, any of which may fail; the client may  *)
(* be killed between any two, reconnects with another tunnel name or       *)
(* server, and is started again over what the last process left.           *)
(*                                                                         *)
(* A packet leaves when both firewalls let it; whether nft is installed    *)
(* does not change while the machine runs.  The mark of an alternative     *)
(* transport is one more accepted class and is not distinguished here.     *)
(***************************************************************************)
EXTENDS Naturals, Sequences, SequencesExt

CONSTANTS Tuns,              \* names of tunnel interfaces
          V4, V6,            \* servers by the family of their address
          Steady,            \* commands that never fail for no reason of ours (a busy lock)
          MaxFaults,         \* how often the others do
          MaxKills,          \* deaths of the process
          MaxAttempts        \* connection attempts

Families == {"iptables", "ip6tables"}
Servers == V4 \cup V6
Classes == {"lo", "other"} \cup Tuns \cup Servers

Operations == {"table", "chain", "rule", "drop table", "check", "guard", "unguard", "new", "flush",
               "append", "jump", "unjump", "delete"}
Refusable == Operations \ Steady

VARIABLES hasNft,            \* nft --version succeeds
          nft,               \* [table, chain, rules] of inet aivpn_ks
          OUTPUT,            \* per family: the sequence of our rules in OUTPUT
          AIVPN_KS,          \* per family: the chain's rules, Gone without a chain
          script,            \* commands the process still has to run
          pc,                \* what the process runs them for
          tun, server,       \* parameters of the current attempt
          state,             \* kill_switch_state of the attempt's tunnel
          reconnect,         \* reconnect_kill_switch of the loop
          shutdown,
          faults, kills, attempts,
          owes,              \* this process has begun to set up a kill switch
          clean              \* it cleans that up, and no command was refused since

firewall == <<nft, OUTPUT, AIVPN_KS>>
bounds == <<faults, kills, attempts>>
history == <<owes, clean>>
vars == <<hasNft, firewall, script, pc, tun, server, state, reconnect, shutdown, bounds, history>>

Gone == <<"gone">>
NoTable == [table |-> FALSE, chain |-> FALSE, rules |-> {}]
Unset == [active |-> FALSE, cleanup_needed |-> FALSE, some |-> FALSE]
Held == [active |-> FALSE, cleanup_needed |-> TRUE, some |-> TRUE]

Init ==
    /\ hasNft \in BOOLEAN
    /\ nft = NoTable
    /\ OUTPUT = [f \in Families |-> <<>>]
    /\ AIVPN_KS = [f \in Families |-> Gone]
    /\ script = <<>>
    /\ pc = "down"
    /\ tun \in Tuns /\ server \in Servers
    /\ state = Unset /\ reconnect = Unset
    /\ shutdown = FALSE
    /\ faults = 0 /\ kills = 0 /\ attempts = 0
    /\ owes = FALSE /\ clean = FALSE
-----------------------------------------------------------------------------
(* The commands.  Must says that the code gives up when the command fails.  *)
Cmd(f, op, arg, must) == [f |-> f, op |-> op, arg |-> arg, must |-> must]

Family(s) == IF s \in V6 THEN "ip6tables" ELSE "iptables"

NftScript ==
    << Cmd("nft", "table", "", TRUE), Cmd("nft", "chain", "", TRUE), Cmd("nft", "flush", "", TRUE),
       Cmd("nft", "rule", "lo", TRUE), Cmd("nft", "rule", tun', TRUE),
       Cmd("nft", "rule", server', TRUE) >>

Guard(f) == << Cmd(f, "check", "", FALSE), Cmd(f, "guard", "", TRUE) >>

RebuildMutantReleaseFirst(f) ==
    << Cmd(f, "new", "", FALSE), Cmd(f, "flush", "", TRUE), Cmd(f, "unguard", "", TRUE),
       Cmd(f, "unjump", "", FALSE), Cmd(f, "append", "lo", TRUE), Cmd(f, "append", tun', TRUE) >>
    \o (IF f = Family(server') THEN << Cmd(f, "append", server', TRUE) >> ELSE <<>>)
    \o << Cmd(f, "append", "DROP", TRUE), Cmd(f, "jump", "", TRUE) >>

Rebuild(f) ==
    << Cmd(f, "new", "", FALSE), Cmd(f, "flush", "", TRUE), Cmd(f, "unjump", "", FALSE),
       Cmd(f, "append", "lo", TRUE), Cmd(f, "append", tun', TRUE) >>
    \o (IF f = Family(server') THEN << Cmd(f, "append", server', TRUE) >> ELSE <<>>)
    \o << Cmd(f, "append", "DROP", TRUE), Cmd(f, "jump", "", TRUE), Cmd(f, "unguard", "", TRUE) >>

activate_iptables ==
    Guard("iptables") \o Guard("ip6tables") \o Rebuild("iptables") \o Rebuild("ip6tables")

activate_impl == IF hasNft THEN NftScript ELSE activate_iptables

clear_iptables(f) ==
    << Cmd(f, "unjump", "", FALSE), Cmd(f, "flush", "", FALSE), Cmd(f, "delete", "", FALSE),
       Cmd(f, "unguard", "", FALSE) >>

clear_stale_impl ==
    << Cmd("nft", "drop table", "", FALSE) >> \o clear_iptables("iptables") \o clear_iptables("ip6tables")
-----------------------------------------------------------------------------
(* What nft and iptables do with a command: whether it applies, and its     *)
(* effect when it does.                                                     *)
Without(s, r) ==
    LET i == CHOOSE j \in DOMAIN s : s[j] = r /\ \A k \in 1..j-1 : s[k] # r IN RemoveAt(s, i)

Has(s, r) == \E i \in DOMAIN s : s[i] = r

Applies(c) ==
    IF c.f = "nft"
    THEN CASE c.op = "table"           -> TRUE
           [] c.op = "chain"           -> nft.table
           [] c.op = "drop table"      -> hasNft /\ nft.table
           [] OTHER                    -> nft.chain
    ELSE CASE c.op = "check"           -> Has(OUTPUT[c.f], "guard")
           [] c.op = "guard"           -> TRUE
           [] c.op = "new"             -> AIVPN_KS[c.f] = Gone
           [] c.op \in {"flush", "append", "jump"} -> AIVPN_KS[c.f] # Gone
           [] c.op = "unjump"          -> Has(OUTPUT[c.f], "jump")
           [] c.op = "unguard"         -> Has(OUTPUT[c.f], "guard")
           [] OTHER                    -> AIVPN_KS[c.f] = <<>> /\ ~ Has(OUTPUT[c.f], "jump")

Effect(c) ==
    IF c.f = "nft"
    THEN /\ nft' = CASE c.op = "table"      -> [nft EXCEPT !.table = TRUE]
                     [] c.op = "chain"      -> [nft EXCEPT !.chain = TRUE]
                     [] c.op = "flush"      -> [nft EXCEPT !.rules = {}]
                     [] c.op = "rule"       -> [nft EXCEPT !.rules = @ \cup {c.arg}]
                     [] OTHER               -> NoTable
         /\ UNCHANGED <<OUTPUT, AIVPN_KS>>
    ELSE /\ OUTPUT' = [OUTPUT EXCEPT ![c.f] =
                CASE c.op \in {"guard", "jump"} -> <<c.op>> \o @
                  [] c.op = "unjump"            -> Without(@, "jump")
                  [] c.op = "unguard"           -> Without(@, "guard")
                  [] OTHER                      -> @]
         /\ AIVPN_KS' = [AIVPN_KS EXCEPT ![c.f] =
                CASE c.op \in {"new", "flush"}  -> <<>>
                  [] c.op = "append"            -> Append(@, c.arg)
                  [] c.op = "delete"            -> Gone
                  [] OTHER                      -> @]
         /\ UNCHANGED nft
-----------------------------------------------------------------------------
(* Verdicts of the two firewalls on a packet of class p in a family.        *)
InFamily(p, f) == p \in Servers => f = Family(p)

NftPasses(p) == nft.chain => p \in nft.rules

(* The chain passes a packet when it accepts it before it drops everything, *)
(* and decides nothing when it does neither.                                *)
ChainPasses(f, p) ==
    \E i \in DOMAIN AIVPN_KS[f] : AIVPN_KS[f][i] = p /\ \A j \in 1..i-1 : AIVPN_KS[f][j] # "DROP"

ChainDecides(f, p) == Has(AIVPN_KS[f], "DROP") \/ ChainPasses(f, p)

IptPasses(f, p) ==
    LET decides(r) == r = "guard" \/ ChainDecides(f, p)
        deciding == SelectSeq(OUTPUT[f], decides)
    IN  deciding # <<>> => (deciding[1] = "jump" /\ ChainPasses(f, p))

Passes(f, p) == NftPasses(p) /\ IptPasses(f, p)
Sealed(f) == ~ Passes(f, "other")
-----------------------------------------------------------------------------
(* The process.                                                             *)
Start ==
    /\ pc \in {"down", "exited"}
    /\ pc' = "loop"
    /\ state' = Unset /\ reconnect' = Unset /\ shutdown' = FALSE
    /\ owes' = FALSE
    /\ UNCHANGED <<hasNft, firewall, script, tun, server, bounds, clean>>

RequestShutdown ==
    /\ pc \in {"loop", "activating", "up", "backoff"} /\ ~ shutdown
    /\ shutdown' = TRUE
    /\ UNCHANGED <<hasNft, firewall, script, pc, tun, server, state, reconnect, bounds, history>>

(* A new client with a fresh tunnel name and the pool's server sets up its  *)
(* routes and activates the kill switch.                                    *)
activate_kill_switch ==
    /\ pc = "loop" /\ ~ shutdown /\ attempts < MaxAttempts
    /\ attempts' = attempts + 1
    /\ tun' \in Tuns /\ server' \in Servers
    /\ state' = Held
    /\ script' = activate_impl
    /\ pc' = "activating"
    /\ owes' = TRUE
    /\ UNCHANGED <<hasNft, firewall, reconnect, shutdown, faults, kills, clean>>

take_kill_switch == reconnect' = IF state.some THEN state ELSE reconnect

(* client.run fails: the loop takes the kill switch over and backs off.     *)
Failed ==
    /\ take_kill_switch
    /\ state' = Unset
    /\ pc' = "backoff"
    /\ script' = <<>>

(* An attempt that fails before its kill switch.                            *)
FailEarly ==
    /\ pc = "loop" /\ ~ shutdown
    /\ state' = Unset
    /\ pc' = "backoff"
    /\ UNCHANGED <<hasNft, firewall, script, tun, server, reconnect, shutdown, bounds, history>>

LoseSession ==
    /\ pc = "up"
    /\ Failed
    /\ UNCHANGED <<hasNft, firewall, tun, server, shutdown, bounds, history>>

Backoff ==
    /\ pc = "backoff"
    /\ IF shutdown
       THEN pc' = "leaving"
       ELSE pc' = "loop"
    /\ UNCHANGED <<hasNft, firewall, script, tun, server, state, reconnect, shutdown, bounds, history>>

StopAtTop ==
    /\ pc = "loop" /\ shutdown
    /\ pc' = "leaving"
    /\ UNCHANGED <<hasNft, firewall, script, tun, server, state, reconnect, shutdown, bounds, history>>

(* client.run returns Ok, is rejected for good, or finds its local port     *)
(* taken, which may be before its kill switch is set up.                    *)
Finish ==
    /\ pc \in {"loop", "up"}
    /\ pc' = "leaving"
    /\ UNCHANGED <<hasNft, firewall, script, tun, server, state, reconnect, shutdown, bounds, history>>

deactivate(ks) == IF ks.active \/ ks.cleanup_needed THEN clear_stale_impl ELSE <<>>

(* The client's kill switch is deactivated, then the loop's.                *)
Leave ==
    /\ pc = "leaving"
    /\ script' = deactivate(state) \o deactivate(reconnect)
    /\ pc' = "clearing"
    /\ clean' = owes
    /\ UNCHANGED <<hasNft, firewall, tun, server, state, reconnect, shutdown, bounds, owes>>

(* aivpn-client kill-switch clear, run by the user after a crash.           *)
clear_for_operator ==
    /\ pc = "down"
    /\ script' = clear_stale_impl
    /\ pc' = "clearing"
    /\ clean' = TRUE
    /\ state' = Unset /\ reconnect' = Unset
    /\ UNCHANGED <<hasNft, firewall, tun, server, shutdown, bounds, owes>>

(* The next command, which the environment may make fail.  A guard that the *)
(* check finds is not inserted again.                                       *)
RunCommand ==
    /\ pc \in {"activating", "clearing"} /\ script # <<>>
    /\ LET c == Head(script)
           rest == IF c.op = "check" THEN Tail(Tail(script)) ELSE Tail(script)
       IN  \/ /\ Applies(c)
              /\ Effect(c)
              /\ script' = rest
              /\ UNCHANGED <<pc, state, reconnect, faults, clean>>
           \/ /\ \/ ~ Applies(c) /\ UNCHANGED <<faults, clean>>
                 \/ /\ Applies(c) /\ c.op \in Refusable /\ faults < MaxFaults
                    /\ faults' = faults + 1 /\ clean' = FALSE
              /\ UNCHANGED firewall
              /\ IF c.must
                 THEN Failed
                 ELSE script' = Tail(script) /\ UNCHANGED <<pc, state, reconnect>>
    /\ UNCHANGED <<hasNft, tun, server, shutdown, kills, attempts, owes>>

Activated ==
    /\ pc = "activating" /\ script = <<>>
    /\ pc' = "up"
    /\ state' = [state EXCEPT !.active = TRUE]
    /\ UNCHANGED <<hasNft, firewall, script, tun, server, reconnect, shutdown, bounds, history>>

Exited ==
    /\ pc = "clearing" /\ script = <<>>
    /\ pc' = "exited"
    /\ state' = Unset /\ reconnect' = Unset
    /\ UNCHANGED <<hasNft, firewall, script, tun, server, shutdown, bounds, history>>

(* SIGKILL, or a panic: the rules stay, what the process knew is lost.      *)
Kill ==
    /\ pc \notin {"down", "exited"} /\ kills < MaxKills
    /\ kills' = kills + 1
    /\ pc' = "down"
    /\ script' = <<>>
    /\ state' = Unset /\ reconnect' = Unset
    /\ UNCHANGED <<hasNft, firewall, tun, server, shutdown, faults, attempts, history>>

Next ==
    \/ Start \/ RequestShutdown \/ activate_kill_switch \/ FailEarly \/ LoseSession \/ Backoff
    \/ StopAtTop \/ Finish \/ Leave \/ clear_for_operator \/ RunCommand \/ Activated \/ Exited
    \/ Kill

Spec == Init /\ [][Next]_vars
-----------------------------------------------------------------------------
(* Once a family is sealed it stays sealed through reconnects, failed       *)
(* commands, half-built rules, kills and restarts, until somebody asks for  *)
(* the rules to go: an intentional exit or kill-switch clear.               *)
StaysSealed == [][pc # "clearing" => \A f \in Families : Sealed(f) => Sealed(f)']_vars

(* While the client runs with its kill switch active, exactly loopback, its *)
(* own tunnel and its own server are let out: no rule of an earlier tunnel or server    *)
(* survives, and neither is the tunnel itself shut in.                      *)
LetsOutItsOwn ==
    pc = "up" =>
        \A f \in Families, p \in Classes :
            InFamily(p, f) => (Passes(f, p) <=> p \in {"lo", tun, server})

(* After an intentional exit, or kill-switch clear, whose commands were not *)
(* refused nothing is blocked any more, whoever set the rules up, however   *)
(* far, and whatever was refused before.                                    *)
LeavesNothing ==
    pc = "exited" /\ clean => \A f \in Families, p \in Classes : InFamily(p, f) => Passes(f, p)

(* "Guard остается после прерванной перестройки и не дублируется"           *)
(* (kill_switch.rs): the guard is in OUTPUT once at most.                   *)
GuardOnce == \A f \in Families : Len(SelectSeq(OUTPUT[f], LAMBDA r : r = "guard")) <= 1
=============================================================================
