---------------------------- MODULE ClientRecord ----------------------------
(***************************************************************************)
(* One client record of clients.json and the pure functions that decide    *)
(* which of two copies of it survives:                                     *)
(*   absorb_one_client   memory against disk (client_db/mod.rs),           *)
(*   merge_from_json     local against a pool peer's copy (merge.rs),      *)
(*   reap_expired_tombstones.                                              *)
(* A record is [st, at, val, ...]: st says whether it is missing, live or  *)
(* a tombstone (`deleted`); at is `updated_at` (0: no timestamp, a record  *)
(* of an old version); val stands for every other converging field (name,  *)
(* psk, enabled, qos, role, exit_node ...), as the rank of the record's    *)
(* canonical hash among contents with the same st and at.  Modules add     *)
(* their own fields (bytes, ip) for what does not converge.                *)
(***************************************************************************)
EXTENDS Naturals

CONSTANTS Ids,       \* client ids
          Vals,      \* contents a mutation can give a record
          TTL,       \* TOMBSTONE_TTL, in clock ticks
          MaxClock   \* bound on the wall clock

(* `deleted` and the presence of the record in `ClientDbFile.clients` *)
States == {"none", "live", "dead"}

(* The fields write_record_canonical_fields hashes, as one value *)
Canonical(r) == <<r.st, r.at, r.val>>

(* absorb_one_client: a strictly newer copy wins; at equal timestamps a
   tombstone wins, and otherwise any difference is taken from disk. *)
TakeDisk(m, d) ==
  \/ d.at > m.at
  \/ /\ d.at = m.at
     /\ IF d.st # m.st THEN d.st = "dead" ELSE Canonical(d) # Canonical(m)

(* merge_from_json, existing record: tombstones are sticky; between two
   records of the same liveness the later wins, and a tie goes to the
   smaller canonical hash. *)
IncomingWins(e, inc) ==
  IF e.st # inc.st
  THEN inc.st = "dead"
  ELSE \/ inc.at > e.at
       \/ inc.at = e.at /\ inc.val < e.val

(* The record after the existing-record branch of merge_from_json: the
   converging fields are copied, the others stay as they are locally. *)
MergeOne(e, inc) ==
  IF IncomingWins(e, inc)
  THEN [e EXCEPT !.st = inc.st, !.at = inc.at, !.val = inc.val]
  ELSE e

(* reap_expired_tombstones: a timestamped tombstone older than the TTL *)
Expired(r, now, ttl) == r.st = "dead" /\ r.at > 0 /\ r.at + ttl < now
=============================================================================
