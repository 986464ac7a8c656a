-------------------------------- MODULE Fec --------------------------------
(***************************************************************************)
(* Forward error correction of uplink data: FecSender and FecReceiver of   *)
(* aivpn-common/src/fec.rs, and what the gateway does with their results.  *)
(*                                                                         *)
(* The sender closes every group of packets with a repair packet, the      *)
(* exclusive or of the group.  The receiver forwards packets as they come  *)
(* and rebuilds the one missing packet of a group.  It remembers a bounded *)
(* number of groups in progress, of completed groups and of groups given   *)
(* up, and unrolls the 16-bit group number.  Packets can be lost and can   *)
(* be overtaken, but not by more than the replay window lets through.      *)
(*                                                                         *)
(* A packet is a pair of its true group number and its index; the          *)
(* exclusive or of a collection of packets is their symmetric difference.  *)
(***************************************************************************)
EXTENDS Integers, Sequences, FiniteSets, SequencesExt, Functions

CONSTANTS Sizes,       \* group sizes; 0 switches the correction off
          GroupMod,    \* 65536: group numbers are u16
          MaxPending,  \* MAX_PENDING_GROUPS: 8
          Remembered,  \* COMPLETED_GROUPS and RETIRED_GROUPS: 512
          Lag,         \* the replay window, in packets: 512
          MaxGap,      \* groups that can be lost in a row
          MaxGroups,   \* bound on the groups sent
          MaxResizes   \* bound on the changes of the group size

\* Remembered >= Lag, as in the code.

VARIABLES sender,     \* FecSender with its FecEncoder
          resizes,    \* changes of the size so far
          sent,       \* number of packets sent
          net,        \* packets on their way
          pending, completed, retired, retiredOrder, highest, next_ticket,  \* FecReceiver
          expired,    \* groups with a lower ticket are older than PENDING_TTL
          heard,      \* history: the newest group of which anything arrived
          forwarded,  \* history: packets forwarded
          again,      \* history: packets forwarded once more
          refused     \* history: packets dropped as duplicates but not forwarded before

rx == <<pending, completed, retired, retiredOrder, highest, next_ticket>>
vars == <<sender, resizes, sent, net, rx, expired, heard, forwarded, again, refused>>

Xor(s, t) == (s \ t) \union (t \ s)
NoRepair == {<<-1, -1>>}
Off == 0

Init ==
    /\ \E size \in Sizes \ {Off} :
           sender = [size |-> size, requested |-> size, group |-> 0, count |-> 0, xor |-> {}]
    /\ resizes = 0
    /\ sent = 0
    /\ net = {}
    /\ pending = <<>> /\ completed = <<>>
    /\ retired = <<>> /\ retiredOrder = <<>>
    /\ highest = -1 /\ next_ticket = 0
    /\ expired = 0
    /\ heard = -1
    /\ forwarded = {} /\ again = {}
    /\ refused = {}

-----------------------------------------------------------------------------
(* The sender *)

\* apply_group_at_boundary: a new size waits for the end of the group.
apply_group_at_boundary(s) == IF s.count = 0 THEN [s EXCEPT !.size = s.requested] ELSE s

set_group(size) ==
    /\ resizes < MaxResizes
    /\ resizes' = resizes + 1
    /\ sender' = apply_group_at_boundary([sender EXCEPT !.requested = size])
    /\ UNCHANGED <<sent, net, rx, expired, heard, forwarded, again, refused>>

InWindow(packets, last) == {p \in packets : last - p.no < Lag}

\* One data packet and, at the end of the group, its repair packet.
feed ==
    LET p == <<sender.group, sender.count>>
        xor == Xor(sender.xor, {p})
        data == [no |-> sent, repair |-> FALSE, group |-> sender.group,
                 size |-> sender.size, index |-> sender.count, xor |-> {p}]
        full == sender.count + 1 >= sender.size
        repair == [data EXCEPT !.no = sent + 1, !.repair = TRUE, !.xor = xor]
    IN  /\ sender.size # Off
        /\ sender.group < MaxGroups
        /\ sender.group - heard <= MaxGap
        /\ IF full
           THEN /\ sender' = apply_group_at_boundary(
                                 [sender EXCEPT !.count = 0, !.xor = {}, !.group = @ + 1])
                /\ net' = InWindow(net \union {data, repair}, sent + 1)
                /\ sent' = sent + 2
           ELSE /\ sender' = [sender EXCEPT !.count = @ + 1, !.xor = xor]
                /\ net' = InWindow(net \union {data}, sent)
                /\ sent' = sent + 1
        /\ UNCHANGED <<resizes, rx, expired, heard, forwarded, again, refused>>

-----------------------------------------------------------------------------
(* The receiver *)

\* position: the unrolled number nearest to the highest one so far.
PositionMutantLow(seq) == GroupMod + seq

position(seq) ==
    LET distance == (seq - highest) % GroupMod
    IN  IF highest = -1 THEN GroupMod + seq
        ELSE IF distance < GroupMod \div 2 THEN highest + distance
        ELSE highest - (GroupMod - distance)

\* remember_incomplete, for a set of groups in the order of their tickets.
OlderFirst(ps) == SetToSortSeq(ps, LAMBDA p, q : pending[p].ticket < pending[q].ticket)

retire(ps) ==
    LET fresh == OlderFirst(ps \ DOMAIN retired)
        all == retiredOrder \o fresh
        order == SubSeq(all, Len(all) - (IF Len(all) > Remembered THEN Remembered ELSE Len(all)) + 1,
                        Len(all))
    IN  [pending |-> Restrict(pending, DOMAIN pending \ ps),
         retired |-> [p \in Range(order) |->
                         IF p \in DOMAIN retired THEN retired[p]
                         ELSE [size |-> pending[p].size, seen |-> pending[p].seen]],
         order |-> order]

\* sweep, and in ensure_group the eviction of the oldest group.
Leaving(pos, creates) ==
    LET old == {p \in DOMAIN pending : pending[p].ticket < expired}
        rest == DOMAIN pending \ old
        oldest == {p \in rest : \A q \in rest : pending[p].ticket <= pending[q].ticket}
    IN  IF creates /\ pos \notin rest /\ Cardinality(rest) >= MaxPending
        THEN old \union oldest ELSE old

NewGroup(size) ==
    [size |-> size, xor |-> {}, seen |-> {}, repair |-> NoRepair, ticket |-> next_ticket]

\* finish: complete with all members, or with all but one and the repair.
Rebuilds(g) == g.repair # NoRepair /\ Cardinality(g.seen) = g.size - 1
Completes(g) == Cardinality(g.seen) = g.size \/ Rebuilds(g)
missing_packet(g) == Xor(g.repair, g.xor)

\* record and repair for a packet m, with what the gateway forwards.
Arrive(m) ==
    LET pos == position(m.group % GroupMod)
        isDone == pos \in Range(completed)
        aged == retire(Leaving(pos, FALSE))
        isRetired == ~isDone /\ pos \in DOMAIN aged.retired
        swept == retire(Leaving(pos, ~isDone /\ ~isRetired))
        known == pos \in DOMAIN swept.pending
        before == IF known THEN swept.pending[pos] ELSE NewGroup(m.size)
        after == IF m.repair THEN [before EXCEPT !.repair = m.xor]
                 ELSE [before EXCEPT !.xor = Xor(@, m.xor), !.seen = @ \union {m.index}]
        p == <<m.group, m.index>>
        forward(ps) == /\ forwarded' = forwarded \union ps
                       /\ again' = again \union (ps \intersect forwarded)
        drop == /\ forward({})
                /\ refused' = IF m.repair \/ {p} \in forwarded THEN refused ELSE refused \union {p}
    IN  /\ m \in net
        /\ net' = net \ {m}
        /\ highest' = IF pos > highest THEN pos ELSE highest
        /\ heard' = IF m.group > heard THEN m.group ELSE heard
        /\ \/ /\ isDone
              /\ pending' = aged.pending /\ retired' = aged.retired /\ retiredOrder' = aged.order
              /\ drop
              /\ UNCHANGED <<completed, next_ticket>>
           \/ /\ isRetired                                        \* accept_retired
              /\ pending' = aged.pending /\ retiredOrder' = aged.order
              /\ IF m.repair \/ m.size # aged.retired[pos].size
                    \/ m.index \in aged.retired[pos].seen
                 THEN retired' = aged.retired /\ drop
                 ELSE /\ retired' = [aged.retired EXCEPT ![pos].seen = @ \union {m.index}]
                      /\ forward({{p}})
                      /\ UNCHANGED refused
              /\ UNCHANGED <<completed, next_ticket>>
           \/ /\ ~isDone /\ ~isRetired
              /\ retired' = swept.retired /\ retiredOrder' = swept.order
              /\ next_ticket' = IF known THEN next_ticket ELSE next_ticket + 1
              /\ IF before.size # m.size \/ (m.repair /\ before.repair # NoRepair)
                    \/ (~m.repair /\ m.index \in before.seen)
                 THEN pending' = swept.pending /\ drop /\ UNCHANGED completed
                 ELSE IF Completes(after)
                 THEN /\ pending' = Restrict(swept.pending, DOMAIN swept.pending \ {pos})
                      /\ completed' = LET all == Append(completed, pos)
                                      IN  IF Len(all) > Remembered THEN Tail(all) ELSE all
                      /\ forward((IF m.repair THEN {} ELSE {{p}})
                                 \union (IF Cardinality(after.seen) < after.size
                                         THEN {missing_packet(after)} ELSE {}))
                      /\ UNCHANGED refused
                 ELSE /\ pending' = [q \in DOMAIN swept.pending \union {pos} |->
                                        IF q = pos THEN after ELSE swept.pending[q]]
                      /\ forward(IF m.repair THEN {} ELSE {{p}})
                      /\ UNCHANGED <<completed, refused>>
        /\ UNCHANGED <<sender, resizes, sent, expired>>

\* PENDING_TTL passes for the groups with the lowest tickets.
Expire ==
    /\ \E t \in expired + 1 .. next_ticket : expired' = t
    /\ UNCHANGED <<sender, resizes, sent, net, rx, heard, forwarded, again, refused>>

Next ==
    \/ feed
    \/ \E size \in Sizes : set_group(size)
    \/ \E m \in net : Arrive(m)
    \/ Expire

Spec == Init /\ [][Next]_vars
-----------------------------------------------------------------------------
\* A packet the receiver rebuilds is one packet the sender sent: groups are never
\* blended, whatever is lost, late or given up.
RebuiltIsReal == \A f \in forwarded : Cardinality(f) = 1

\* No IP packet is forwarded twice, as an original and as rebuilt.
ForwardedOnce == again = {}

\* A packet is dropped as a duplicate only if it has been forwarded: an old group
\* with the same 16-bit number never blocks a new one.
RefusedWasForwarded == refused = {}
=============================================================================
