------------------------------ MODULE SerialDb ------------------------------
(***************************************************************************)
(* What the shared client file promises to the processes that use it: the  *)
(* file is one database changed by one mutation at a time.  A step applies *)
(* a single admin operation to the record as it is NOW in the file; next   *)
(* to it only counters that grew and expired tombstones may differ.        *)
(***************************************************************************)
EXTENDS ClientRecord

VARIABLES db, now

Gone(r) == r.st = "none"

Init == (\A i \in Ids : Gone(db[i])) /\ now = 1

(* What one mutation may make of one record: create it, edit it, bind a
   device, or revoke it.  A tombstone stays one, time never runs back. *)
Mutated(old, new) ==
  /\ ~Gone(new)
  /\ old.st = "dead" => new.st = "dead"
  /\ new.at >= old.at
  /\ new.at <= now

(* The rest of a write: traffic counters grew, or the tombstone expired *)
Carried(old, new) ==
  \/ /\ Canonical(new) = Canonical(old)
     /\ new.bytes >= old.bytes
  \/ Gone(new) /\ Expired(old, now, TTL)

Mutate ==
  /\ \E i \in Ids :
       /\ Mutated(db[i], db'[i]) \/ Carried(db[i], db'[i])
       /\ \A j \in Ids \ {i} : Carried(db[j], db'[j])
  /\ now' = now

Tick == now' = now + 1 /\ db' = db

Next == Mutate \/ Tick

Spec == Init /\ [][Next]_<<db, now>>
=============================================================================
