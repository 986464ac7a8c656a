---------------------------- MODULE AddressPlan ----------------------------
(***************************************************************************)
(* How the pool divides the host offsets 1..max of the VPN subnet between  *)
(* its nodes (client_db/ip_allocation.rs) and what a node concludes from a *)
(* peer's announcement of its share (pool_partition.rs).                   *)
(***************************************************************************)
EXTENDS Integers

AtLeast(a, b) == IF a >= b THEN a ELSE b
AtMost(a, b) == IF a <= b THEN a ELSE b

TargetNumPartitions == 8
MinPartitionSize == 8
MaxPartitionSize == 254

(* default_num_partitions *)
default_num_partitions(max) ==
  IF max < 2 THEN 1
  ELSE LET size == AtMost(AtLeast(max \div TargetNumPartitions, MinPartitionSize),
                          MaxPartitionSize)
       IN AtLeast(max \div size, 1)

(* compute_partition_bounds: [start, end), the remainder in the last one *)
PartitionSize(max, num) == AtLeast(max \div num, 1)
PartitionStart(max, num, index) == AtMost(1 + index * PartitionSize(max, num), max)
PartitionEnd(max, num, index) ==
  IF index + 1 >= num THEN max + 1
  ELSE AtMost(PartitionStart(max, num, index) + PartitionSize(max, num), max + 1)

(* The offsets of a partition *)
Slice(max, num, index) ==
  PartitionStart(max, num, index) .. PartitionEnd(max, num, index) - 1

(* set_node_partition and set_node_partition_explicit, then apply_partition:
   the range [start, end) a node allocates from *)
apply_partition(max, num, index) ==
  IF max < 2 \/ num <= 1
  THEN [start |-> 1, end |-> max + 1]
  ELSE LET n == AtMost(num, max)
           i == (index % num) % n
       IN [start |-> PartitionStart(max, n, i), end |-> PartitionEnd(max, n, i)]

-----------------------------------------------------------------------------
(* A node's announcement: no partition is sent as index 0, size 0 of 1 *)
Announce(max, num, index, cidr) ==
  IF max < 2 \/ num <= 1
  THEN [cidr |-> cidr, index |-> 0, size |-> 0, num |-> 1]
  ELSE LET n == AtMost(num, max)
           i == (index % num) % n
       IN [cidr |-> cidr, index |-> i,
           size |-> PartitionEnd(max, n, i) - PartitionStart(max, n, i), num |-> n]

(* decode_peer_partition *)
decode_peer_partition(a) == IF a.size = 0 /\ a.num <= 1 THEN {} ELSE {a.index}

(* check_partition *)
check_partition(local, peer) ==
  IF local.cidr # peer.cidr THEN "SubnetMismatch"
  ELSE IF decode_peer_partition(local) \intersect decode_peer_partition(peer) # {}
       THEN "IndexConflict" ELSE "Ok"
=============================================================================
