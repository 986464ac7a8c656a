----------------------------- MODULE CatalogPush -----------------------------
(***************************************************************************)
(* How a session learns of new masks: the store adds a mask and then bumps *)
(* its version; a keepalive compares that version with the one last sent   *)
(* to the session, sends the list of masks when they differ and records    *)
(* the version it had read.  Keepalives of one session may be handled by   *)
(* several tasks at once.  The client replaces its list by what arrives.   *)
(***************************************************************************)
EXTENDS Naturals, Sequences, FiniteSets

CONSTANTS
  Masks,      \* the masks that are added while the session lives
  Tasks,      \* tasks handling keepalives
  MaxLosses,  \* bound on lost lists
  MaxFlight   \* bound on lists in flight

VARIABLES
  store,        \* the masks in the store
  adding,       \* a mask stored but not yet counted: a set of at most one
  version,      \* catalog_version
  versionSent,  \* the session's mask_catalog_version_sent
  task,         \* [at, read] of each keepalive's task
  wire,         \* the lists on their way, in order
  last,         \* the last list sent
  list,         \* the client's list
  lost          \* lists lost so far

vars == <<store, adding, version, versionSent, task, wire, last, list, lost>>

Idle == [at |-> "idle", read |-> 0]

Init ==
  /\ store = {} /\ adding = {} /\ version = 1 /\ versionSent = 0
  /\ task = [t \in Tasks |-> Idle]
  /\ wire = <<>> /\ last = {} /\ list = {} /\ lost = 0

(* add_mask holds the mutation lock from the insert to the count. *)
Add(m) ==
  /\ adding = {} /\ m \in Masks \ store
  /\ store' = store \union {m} /\ adding' = {m}
  /\ UNCHANGED <<version, versionSent, task, wire, last, list, lost>>

Count ==
  /\ adding # {}
  /\ adding' = {} /\ version' = version + 1
  /\ UNCHANGED <<store, versionSent, task, wire, last, list, lost>>

(* A keepalive reads the version and finds the session behind or not. *)
Keepalive(t) ==
  /\ task[t] = Idle
  /\ version # versionSent
  /\ task' = [task EXCEPT ![t] = [at |-> "send", read |-> version]]
  /\ UNCHANGED <<store, adding, version, versionSent, wire, last, list, lost>>

send_mask_catalog(t) ==
  /\ task[t].at = "send" /\ Len(wire) < MaxFlight
  /\ wire' = Append(wire, store) /\ last' = store
  /\ task' = [task EXCEPT ![t].at = "record"]
  /\ UNCHANGED <<store, adding, version, versionSent, list, lost>>

Record(t) ==
  /\ task[t].at = "record"
  /\ versionSent' = task[t].read
  /\ task' = [task EXCEPT ![t] = Idle]
  /\ UNCHANGED <<store, adding, version, wire, last, list, lost>>

MaskCatalog ==
  /\ wire # <<>>
  /\ list' = Head(wire) /\ wire' = Tail(wire)
  /\ UNCHANGED <<store, adding, version, versionSent, task, last, lost>>

Lose ==
  /\ wire # <<>> /\ lost < MaxLosses
  /\ wire' = Tail(wire) /\ lost' = lost + 1
  /\ UNCHANGED <<store, adding, version, versionSent, task, last, list>>

Handle(t) == Keepalive(t) \/ send_mask_catalog(t) \/ Record(t)

Next ==
  \/ \E m \in Masks : Add(m)
  \/ Count
  \/ \E t \in Tasks : Handle(t)
  \/ MaskCatalog
  \/ Lose

Fairness ==
  /\ \A m \in Masks : WF_vars(Add(m))
  /\ WF_vars(Count)
  /\ \A t \in Tasks : WF_vars(Handle(t))
  /\ WF_vars(MaskCatalog)

Spec == Init /\ [][Next]_vars /\ Fairness

-----------------------------------------------------------------------------
(* Once the session's version is the store's and every task is done, the   *)
(* last list sent to the client is the whole store, although masks were    *)
(* added between the read of the version, the building of the list and the *)
(* record of the version (the Keepalive arm, add_mask's order).            *)
UpToDate ==
  /\ versionSent = version /\ adding = {} /\ \A t \in Tasks : task[t] = Idle
  => last = store

(* The client's list becomes the store's and stays so.  The keepalive      *)
(* comment in control_dispatch.rs says this also holds "if a push is lost".*)
Learns == <>[](list = store)
=============================================================================
