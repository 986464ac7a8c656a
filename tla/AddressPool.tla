---------------------------- MODULE AddressPool ----------------------------
(***************************************************************************)
(* VPN addresses across the nodes of a pool: allocation from the node's    *)
(* own slice (ip_allocation.rs::allocate_vpn_ip), revocation, and the      *)
(* address part of merge_from_json, where the copy of a peer may claim an  *)
(* address that is taken.  A node's client list is a sequence, as in       *)
(* clients.json; a merge applies a peer's list in its order.               *)
(***************************************************************************)
EXTENDS AddressPlan, Sequences, SequencesExt

CONSTANTS Nodes,
          Ids,           \* client ids, ordered as the strings compare
          MaxHost,       \* max_host_offset of the subnet
          NumPartitions, \* what default_num_partitions gives for the subnet
          IndexOf,       \* Nodes -> partition index
          ServerIp,      \* Nodes -> the node's own address
          Seed,          \* Ids -> fnv1a_hash of the id
          Legacy,        \* Nodes -> clients that predate partitioning
          MaxClock,      \* bound on creation times
          MaxOld         \* bound on lists in flight

VARIABLES
  db,      \* node -> sequence of [id, dead, ip, born]
  cursor,  \* node -> next_host_offset
  clock,
  net,     \* <<to, list>>: lists on their way to a node
  full     \* node -> the last allocation failed

vars == <<db, cursor, clock, net, full>>

Range1(n) == apply_partition(MaxHost, NumPartitions, IndexOf[n])
Step(o, r) == IF o + 1 >= r.end THEN r.start ELSE o + 1

LiveAt(list, ip) == \E k \in DOMAIN list : list[k].ip = ip /\ ~list[k].dead
Free(n, list, ip) == ip # ServerIp[n] /\ ~LiveAt(list, ip)

(* The first free offset of the range from o on, wrapping once: {} if none *)
Probe(n, list, o) ==
  LET r == Range1(n)
      len == r.end - r.start
      At(k) == r.start + ((o - r.start + k) % len)
      ks == {k \in 0..len - 1 : Free(n, list, At(k))}
  IN {At(k) : k \in {j \in ks : \A l \in ks : j <= l}}

Start(n) ==
  LET r == Range1(n)
  IN IF cursor[n] = 0 \/ cursor[n] \notin r.start .. r.end - 1
     THEN r.start ELSE cursor[n]

deterministic_reassign_offset(n, list, i) ==
  LET r == Range1(n) IN Probe(n, list, r.start + (Seed[i] % (r.end - r.start)))

-----------------------------------------------------------------------------
(* merge_from_json, one incoming record at a time *)

Older(a, b) == a.born < b.born \/ (a.born = b.born /\ a.id < b.id)
Pos(list, P(_)) == {k \in DOMAIN list : P(list[k]) /\ \A l \in 1..k - 1 : ~P(list[l])}
SetIp(list, k, ip) == [list EXCEPT ![k].ip = ip]

\* Mutant: the resident record always keeps its address.
InsertLiveMutantResidentWins(n, list, inc) ==
  LET to == deterministic_reassign_offset(n, list, inc.id)
  IN IF ~LiveAt(list, inc.ip) THEN Append(list, inc)
     ELSE IF to = {} THEN list
     ELSE Append(list, [inc EXCEPT !.ip = CHOOSE ip \in to : TRUE])

(* An unknown live record: the older of two claimants keeps the address,
   the other is given one of this node's slice. *)
InsertLive(n, list, inc) ==
  LET hit == Pos(list, LAMBDA c : c.ip = inc.ip /\ c.id # inc.id /\ ~c.dead)
      k == CHOOSE j \in hit : TRUE
      loser == IF Older(inc, list[k]) THEN list[k].id ELSE inc.id
      to == deterministic_reassign_offset(n, list, loser)
      ip == CHOOSE a \in to : TRUE
  IN IF hit = {} THEN Append(list, inc)
     ELSE IF to = {} THEN list
     ELSE IF loser = inc.id THEN Append(list, [inc EXCEPT !.ip = ip])
     ELSE Append(SetIp(list, k, ip), inc)

(* It may not sit on this node's own address either. *)
OffServerIp(n, list, inc) ==
  IF inc.ip # ServerIp[n] THEN {inc}
  ELSE {[inc EXCEPT !.ip = ip] : ip \in deterministic_reassign_offset(n, list, inc.id)}

MergeIn(n, list, inc) ==
  LET k == Pos(list, LAMBDA c : c.id = inc.id)
      moved == OffServerIp(n, list, inc)
  IN IF k # {}
     THEN IF inc.dead THEN [list EXCEPT ![CHOOSE j \in k : TRUE].dead = TRUE] ELSE list
     ELSE IF inc.dead THEN Append(list, inc)
     ELSE IF moved = {} THEN list
     ELSE InsertLive(n, list, CHOOSE m \in moved : TRUE)

merge_from_json(n, list, incoming) ==
  FoldLeft(LAMBDA acc, inc : MergeIn(n, acc, inc), list, incoming)

-----------------------------------------------------------------------------
Record(i, ip, born) == [id |-> i, dead |-> FALSE, ip |-> ip, born |-> born]
Known == {c.id : c \in UNION {Range(db[n]) : n \in Nodes}}

Init ==
  /\ db = Legacy
  /\ cursor = [n \in Nodes |-> 0]
  /\ clock = 1
  /\ net = {}
  /\ full = [n \in Nodes |-> FALSE]

\* Mutant: the search gives up one offset early.
AddMutantShort(n, i) ==
  LET r == Range1(n)
      to == Probe(n, db[n], Start(n)) \ {r.start + ((Start(n) - r.start + r.end - r.start - 1) % (r.end - r.start))}
  IN /\ i \notin Known
     /\ IF to = {} THEN full' = [full EXCEPT ![n] = TRUE] /\ UNCHANGED <<db, cursor>>
        ELSE LET ip == CHOOSE a \in to : TRUE
             IN /\ db' = [db EXCEPT ![n] = Append(@, Record(i, ip, clock))]
                /\ cursor' = [cursor EXCEPT ![n] = Step(ip, r)]
                /\ full' = [full EXCEPT ![n] = FALSE]
     /\ UNCHANGED <<clock, net>>

(* insert_client with allocate_vpn_ip; the id is new *)
Add(n, i) ==
  LET to == Probe(n, db[n], Start(n))
  IN /\ i \notin Known
     /\ IF to = {} THEN full' = [full EXCEPT ![n] = TRUE] /\ UNCHANGED <<db, cursor>>
        ELSE LET ip == CHOOSE a \in to : TRUE
             IN /\ db' = [db EXCEPT ![n] = Append(@, Record(i, ip, clock))]
                /\ cursor' = [cursor EXCEPT ![n] = Step(ip, Range1(n))]
                /\ full' = [full EXCEPT ![n] = FALSE]
     /\ UNCHANGED <<clock, net>>

(* remove_client: the tombstone stays, its address is free again *)
Revoke(n, k) ==
  /\ ~db[n][k].dead
  /\ db' = [db EXCEPT ![n][k].dead = TRUE]
  /\ full' = [full EXCEPT ![n] = FALSE]
  /\ UNCHANGED <<cursor, clock, net>>

(* A node sends its list; it is merged later, if at all *)
Send(n, m) ==
  /\ n # m /\ Len(db[n]) > 0
  /\ Cardinality(net) < MaxOld
  /\ net' = net \union {<<m, db[n]>>}
  /\ UNCHANGED <<db, cursor, clock, full>>

Merge(p) ==
  /\ net' = net \ {p}
  /\ db' = [db EXCEPT ![p[1]] = merge_from_json(p[1], @, p[2])]
  /\ full' = [full EXCEPT ![p[1]] = FALSE]
  /\ UNCHANGED <<cursor, clock>>

Tick ==
  /\ clock < MaxClock
  /\ clock' = clock + 1
  /\ UNCHANGED <<db, cursor, net, full>>

Next ==
  \/ \E n \in Nodes, i \in Ids : Add(n, i)
  \/ \E n \in Nodes : \E k \in DOMAIN db[n] : Revoke(n, k)
  \/ \E n, m \in Nodes : Send(n, m)
  \/ \E p \in net : Merge(p)
  \/ Tick

Spec == Init /\ [][Next]_vars
-----------------------------------------------------------------------------
(* Properties *)

(* Whatever lists arrive, and in whatever order, a node never has two live
   clients at one address, a live client at its own address, or two records
   of one id. *)
AddressesUnique ==
  \A n \in Nodes : \A j, k \in DOMAIN db[n] :
    /\ ~db[n][k].dead => db[n][k].ip # ServerIp[n]
    /\ j # k => /\ db[n][j].id # db[n][k].id
                /\ ~db[n][j].dead /\ ~db[n][k].dead => db[n][j].ip # db[n][k].ip

(* A merge takes an address from a client, resident or incoming, only for an
   older claimant of it or for the node itself: the winner's connection key
   stays valid on every node. *)
WinnerKeepsAddress ==
  [][\A p \in net \ net' :
       LET n == p[1]
           had == Range(db[n])
           fresh == {c \in Range(p[2]) : \A d \in had : c.id # d.id}
       IN \A old \in had \union fresh, new \in Range(db'[n]) :
            old.id = new.id /\ ~old.dead /\ ~new.dead /\ old.ip # new.ip =>
              \/ old.ip = ServerIp[n]
              \/ \E d \in Range(db'[n]) : d.ip = old.ip /\ Older(d, old)]_vars

(* Between nodes with slices of their own, no address is ever changed: what
   a node hands out is what every other node stores. *)
AddressesAgree ==
  \A n, m \in Nodes : \A c \in Range(db[n]), d \in Range(db[m]) :
    c.id = d.id => c.ip = d.ip

(* An allocation fails only when every address of the slice is taken. *)
FailsOnlyWhenFull ==
  \A n \in Nodes : full[n] =>
    \A o \in Range1(n).start .. Range1(n).end - 1 : ~Free(n, db[n], o)

(* Two nodes that have each other's clients agree on the address of every
   client, the one that lost a collision included. *)
SameReassignment ==
  \A n, m \in Nodes :
    {c.id : c \in Range(db[n])} = {c.id : c \in Range(db[m])} => 
      \A c \in Range(db[n]), d \in Range(db[m]) :
        c.id = d.id /\ ~c.dead /\ ~d.dead => c.ip = d.ip
=============================================================================
