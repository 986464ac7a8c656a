--------------------------- MODULE MaskTransition ---------------------------
(***************************************************************************)
(* One session's change of mask.  The client asks for a polymorphic        *)
(* variant (MaskPreference, up to five times), the server's policy may     *)
(* push one of its own, each push is one MaskUpdate over UDP, the server   *)
(* keeps the new mask pending for a grace period in which it decodes both  *)
(* layouts, and the client changes over when the MaskUpdate arrives.       *)
(* Packets are handled by concurrent tasks.  One tick is half a second.    *)
(***************************************************************************)
EXTENDS Naturals, FiniteSets, Sequences

CONSTANTS
  Boot,        \* the mask the session opened with
  Own,         \* the variant the client asks for
  Policy,      \* the variant polymorphic_all_sessions pushes
  Stateful,    \* the masks whose outer protocol keeps state (QUIC)
  CatalogLayout, \* the masks whose layout is that of the catalog's primary mask
  Tasks,       \* tasks of process_packets_concurrent
  PolicyOn,    \* polymorphic_all_sessions
  Losable,     \* kinds of packet the network may lose
  MaxLosses,   \* bound on losses
  MaxDelay,    \* bound on a packet's travel, in ticks
  MaxFlight    \* bound on client packets in flight

None == "none"
Masks == {Boot, Own, Policy}
Grace == 1
MaskPreferenceThrottle == 4
Attempts == 5
Kinds == {"preference", "keepalive"}

VARIABLES
  mask,       \* the session's mask at the server
  pending,    \* its pending mask, or None
  waited,     \* ticks since it was scheduled, up to Grace
  slot,       \* ticks until the preference slot is free again
  task,       \* each task's step and the pushes it is to make
  policyDue,  \* the descriptors and the policy's push are still to come
  cmask,      \* the client's mask
  confirmed,  \* polymorphic_confirmed
  sent,       \* preferences sent so far
  sleep,      \* ticks until the next one
  up,         \* packets to the server
  down,       \* MaskUpdates to the client
  lost,       \* packets lost so far
  repushed    \* a mask already active or pending was pushed again

vars == <<mask, pending, waited, slot, task, policyDue, cmask, confirmed,
          sent, sleep, up, down, lost, repushed>>
server == <<mask, pending, waited>>
client == <<cmask, confirmed, sent, sleep>>

Idle == [at |-> "read", todo |-> <<>>]

Init ==
  /\ mask = Boot /\ pending = None /\ waited = 0 /\ slot = 0
  /\ task = [t \in Tasks |-> Idle]
  /\ policyDue = PolicyOn
  /\ cmask = Boot /\ confirmed = FALSE /\ sent = 0 /\ sleep = 0
  /\ up = {} /\ down = {} /\ lost = 0 /\ repushed = FALSE

-----------------------------------------------------------------------------
(* The server's side of the change.                                        *)

LayoutOf(m) == IF m \in CatalogLayout THEN "catalog" ELSE m

DecodesMutantNoPending(m) ==
  LayoutOf(m) \in {LayoutOf(mask), "catalog"}

(* The layouts tried on a packet: the session's, the pending one's, the    *)
(* catalog's.                                                              *)
Decodes(m) ==
  \/ LayoutOf(m) \in {LayoutOf(mask), "catalog"}
  \/ pending # None /\ LayoutOf(m) = LayoutOf(pending)

Scheduled == IF pending # None THEN pending ELSE mask

Elapsed == pending # None /\ waited >= Grace

ProtocolConfirmed(m) ==
  /\ pending # None
  /\ (mask \in Stateful) # (m \in Stateful)
  /\ (pending \in Stateful) = (m \in Stateful)

commit_pending_mask(now) ==
  IF now THEN mask' = pending /\ pending' = None /\ waited' = 0
         ELSE UNCHANGED server

(* An authenticated packet commits a pending mask whose grace is over, or  *)
(* whose protocol it speaks.  The first one starts the policy's push, a    *)
(* preference the push of the client's variant.                            *)
Receive(t, p) ==
  /\ task[t] = Idle /\ p \in up
  /\ Decodes(p.mask)
  /\ up' = up \ {p}
  /\ commit_pending_mask(Elapsed \/ ProtocolConfirmed(p.mask))
  /\ policyDue' = FALSE
  /\ task' = [task EXCEPT ![t].todo =
       (IF policyDue THEN <<Policy>> ELSE <<>>)
         \o (IF p.kind = "preference" THEN <<Own>> ELSE <<>>)]
  /\ UNCHANGED <<slot, client, down, lost, repushed>>

Undecodable(p) ==
  /\ p \in up /\ ~Decodes(p.mask)
  /\ up' = up \ {p}
  /\ UNCHANGED <<server, slot, task, policyDue, client, down, lost, repushed>>

Done(t) == [task EXCEPT ![t] = [at |-> "read", todo |-> Tail(@.todo)]]
At(t, step) == task[t].todo # <<>> /\ task[t].at = step

polymorphic_variant_already_active(m) == Scheduled = m

(* The scheduled mask is read under the session's lock, which is released. *)
Read(t) ==
  /\ At(t, "read")
  /\ task' = IF polymorphic_variant_already_active(Head(task[t].todo))
             THEN Done(t) ELSE [task EXCEPT ![t].at = "claim"]
  /\ UNCHANGED <<server, slot, policyDue, client, up, down, lost, repushed>>

try_claim_mask_preference_slot(t) ==
  /\ At(t, "claim")
  /\ slot' = IF slot = 0 THEN MaskPreferenceThrottle ELSE slot
  /\ task' = IF slot = 0 THEN [task EXCEPT ![t].at = "send"] ELSE Done(t)
  /\ UNCHANGED <<server, policyDue, client, up, down, lost, repushed>>

(* The MaskUpdate leaves before the mask is scheduled: the send is awaited. *)
SendUpdate(t) ==
  /\ At(t, "send")
  /\ LET m == Head(task[t].todo)
     IN /\ down' = down \union {[mask |-> m, age |-> 0]}
        /\ repushed' = (repushed \/ Scheduled = m)
  /\ task' = [task EXCEPT ![t].at = "schedule"]
  /\ UNCHANGED <<server, slot, policyDue, client, up, lost>>

update_session_mask(t) ==
  /\ At(t, "schedule")
  /\ pending' = Head(task[t].todo) /\ waited' = 0
  /\ task' = Done(t)
  /\ UNCHANGED <<mask, slot, policyDue, client, up, down, lost, repushed>>

(* The server sends data or a control message of its own. *)
ServerSend ==
  /\ Elapsed /\ commit_pending_mask(TRUE)
  /\ UNCHANGED <<slot, task, policyDue, client, up, down, lost, repushed>>

-----------------------------------------------------------------------------
(* The client.                                                             *)

Room == Cardinality(up) < MaxFlight
Packet(kind, m) == [kind |-> kind, mask |-> m, age |-> 0]

SendPreference ==
  /\ ~confirmed /\ sent < Attempts /\ sleep = 0 /\ Room
  /\ up' = up \union {Packet("preference", cmask)}
  /\ sent' = sent + 1 /\ sleep' = sent + 1
  /\ UNCHANGED <<server, slot, task, policyDue, cmask, confirmed, down, lost,
                 repushed>>

SendKeepalive ==
  /\ Room /\ \A p \in up : p.kind # "keepalive"
  /\ up' = up \union {Packet("keepalive", cmask)}
  /\ UNCHANGED <<server, slot, task, policyDue, client, down, lost, repushed>>

(* The client changes over at once and answers in the new layout. *)
MaskUpdate(d) ==
  /\ d \in down /\ down' = down \ {d}
  /\ cmask' = d.mask
  /\ confirmed' = (confirmed \/ d.mask = Own)
  /\ up' = up \union {Packet("keepalive", d.mask)}
  /\ UNCHANGED <<server, slot, task, policyDue, sent, sleep, lost, repushed>>

-----------------------------------------------------------------------------
(* The network and the clock.                                              *)

Lose(kind) ==
  /\ lost < MaxLosses /\ kind \in Losable
  /\ \/ /\ \E p \in up : p.kind = kind /\ up' = up \ {p}
        /\ UNCHANGED down
     \/ /\ kind = "update" /\ \E d \in down : down' = down \ {d}
        /\ UNCHANGED up
  /\ lost' = lost + 1
  /\ UNCHANGED <<server, slot, task, policyDue, client, repushed>>

Less(n) == IF n = 0 THEN 0 ELSE n - 1
Older(s) == {[p EXCEPT !.age = @ + 1] : p \in s}

(* A task's steps take no time a tick would show, and no packet travels    *)
(* longer than MaxDelay; a preference that is due is sent.                 *)
Tick ==
  /\ \A t \in Tasks : task[t] = Idle
  /\ \A p \in up \union down : p.age < MaxDelay
  /\ ~(~confirmed /\ sent < Attempts /\ sleep = 0)
  /\ up' = Older(up) /\ down' = Older(down)
  /\ slot' = Less(slot) /\ sleep' = Less(sleep)
  /\ waited' = IF pending # None /\ waited < Grace THEN waited + 1 ELSE waited
  /\ UNCHANGED <<mask, pending, task, policyDue, cmask, confirmed, sent, lost,
                 repushed>>

TaskStep(t) ==
  \/ Read(t) \/ try_claim_mask_preference_slot(t)
  \/ SendUpdate(t) \/ update_session_mask(t)

Arrive(kind) ==
  \E p \in up : p.kind = kind /\ (Undecodable(p) \/ \E t \in Tasks : Receive(t, p))

Update == \E d \in down : MaskUpdate(d)

Next ==
  \/ \E kind \in Kinds : Arrive(kind)
  \/ \E t \in Tasks : TaskStep(t)
  \/ ServerSend
  \/ SendPreference \/ SendKeepalive
  \/ Update
  \/ \E kind \in Losable : Lose(kind)
  \/ Tick

Fairness ==
  /\ \A kind \in Kinds : WF_vars(Arrive(kind))
  /\ \A t \in Tasks : WF_vars(TaskStep(t))
  /\ WF_vars(SendPreference) /\ WF_vars(SendKeepalive)
  /\ WF_vars(Update)
  /\ WF_vars(Tick)

Spec == Init /\ [][Next]_vars /\ Fairness

-----------------------------------------------------------------------------
TypeOK ==
  /\ mask \in Masks /\ pending \in Masks \union {None} /\ waited \in 0 .. Grace
  /\ slot \in 0 .. MaskPreferenceThrottle
  /\ \A t \in Tasks : /\ task[t].at \in {"read", "claim", "send", "schedule"}
                      /\ Len(task[t].todo) <= 2
  /\ cmask \in Masks /\ sent \in 0 .. Attempts /\ sleep \in 0 .. Attempts
  /\ up \subseteq [kind : Kinds, mask : Masks, age : 0 .. MaxDelay]
  /\ down \subseteq [mask : Masks, age : 0 .. MaxDelay]

(* Once no MaskUpdate is on its way and no task is between its steps, the  *)
(* mask the client sends with is the one the server has or is about to     *)
(* have, whichever of preference and policy pushed first and in whatever   *)
(* order their tasks ran (on_mask_preference, the policy's push,           *)
(* try_claim_slot): neither end is left behind by the other.               *)
FramingAgrees ==
  down = {} /\ (\A t \in Tasks : task[t] = Idle) => cmask = Scheduled

(* A retried preference never makes the server push a variant that is      *)
(* already active or pending, also when two tasks read the session before  *)
(* either has scheduled it (on_mask_preference's idempotency check and     *)
(* slot): the client's traffic model is not reset in mid-connection.       *)
NeverRepushes == ~repushed

(* Both ends settle on one mask with nothing pending, and the client's     *)
(* request is granted, although a preference may be lost, the policy may   *)
(* hold the slot and the server may have nothing to send (payload_offsets  *)
(* and commit in packet_ingress, the retry task of the client).            *)
Settles == <>[](confirmed /\ cmask = mask /\ pending = None)

(* "a single lost packet must not disable polymorphic masks"               *)
(* (on_mask_preference): with one loss the client's request is granted.    *)
SurvivesOneLoss == <>confirmed
=============================================================================
