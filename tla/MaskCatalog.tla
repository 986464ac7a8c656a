----------------------------- MODULE MaskCatalog -----------------------------
(***************************************************************************)
(* The gateway's mask catalog: two concurrent maps, the masks in rotation  *)
(* and the compromised ones, and three tasks that work on both one map     *)
(* operation at a time: the detectors' task (mark_compromised_with_-       *)
(* fallback), the cleanup task (sweep_expired_compromised) and whoever     *)
(* adds a mask (register_mask, under the store's mutation lock).           *)
(***************************************************************************)
EXTENDS Naturals, FiniteSets

CONSTANTS
  Loaded,     \* the masks loaded from disk at start
  Added,      \* the masks that are recorded or received later
  Sweeping,   \* whether an hour may pass
  MaxMarks,   \* bound on detections
  MaxAdds     \* bound on additions

Masks == Loaded \union Added
None == "none"

VARIABLES
  masks,        \* the ids in rotation
  compromised,  \* the ids set aside
  expired,      \* those of them COMPROMISED_TTL ago
  known,        \* the ids ever registered
  mark,         \* the detectors' task: [at, id, had]
  sweep,        \* the cleanup task: [at, id, left]
  reg,          \* the task that registers: [at, id]
  marks, adds   \* detections and additions so far

vars == <<masks, compromised, expired, known, mark, sweep, reg, marks, adds>>

NoMark == [at |-> "idle", id |-> None, had |-> FALSE]
NoSweep == [at |-> "idle", id |-> None, left |-> {}]
NoReg == [at |-> "idle", id |-> None]

Init ==
  /\ masks = Loaded /\ compromised = {} /\ expired = {} /\ known = Loaded
  /\ mark = NoMark /\ sweep = NoSweep /\ reg = NoReg
  /\ marks = 0 /\ adds = 0

Rest == mark = NoMark /\ sweep = NoSweep /\ reg = NoReg

-----------------------------------------------------------------------------
(* mark_compromised_with_fallback, for the mask of some session.           *)

select_fallback(id) == masks \ {id}

Mark(id) ==
  /\ mark = NoMark /\ marks < MaxMarks /\ id \in known
  /\ select_fallback(id) # {}
  /\ mark' = [at |-> "get", id |-> id, had |-> FALSE]
  /\ marks' = marks + 1
  /\ UNCHANGED <<masks, compromised, expired, known, sweep, reg, adds>>

MarkGet ==
  /\ mark.at = "get"
  /\ mark' = [mark EXCEPT !.at = "insert", !.had = (mark.id \in masks)]
  /\ UNCHANGED <<masks, compromised, expired, known, sweep, reg, marks, adds>>

MarkInsert ==
  /\ mark.at = "insert"
  /\ IF mark.had
     THEN compromised' = compromised \union {mark.id} /\ expired' = expired \ {mark.id}
     ELSE UNCHANGED <<compromised, expired>>
  /\ mark' = [mark EXCEPT !.at = "remove"]
  /\ UNCHANGED <<masks, known, sweep, reg, marks, adds>>

MarkRemove ==
  /\ mark.at = "remove"
  /\ masks' = masks \ {mark.id}
  /\ mark' = NoMark
  /\ UNCHANGED <<compromised, expired, known, sweep, reg, marks, adds>>

-----------------------------------------------------------------------------
(* sweep_expired_compromised.                                              *)

Expire(id) ==
  /\ Sweeping /\ Rest
  /\ id \in compromised \ expired
  /\ expired' = expired \union {id}
  /\ UNCHANGED <<masks, compromised, known, mark, sweep, reg, marks, adds>>

Collect ==
  /\ sweep = NoSweep /\ expired # {}
  /\ sweep' = [at |-> "remove", id |-> None, left |-> expired]
  /\ UNCHANGED <<masks, compromised, expired, known, mark, reg, marks, adds>>

SweepRemove(id) ==
  /\ sweep.at = "remove" /\ id \in sweep.left
  /\ compromised' = compromised \ {id} /\ expired' = expired \ {id}
  /\ sweep' = [at |-> "insert", id |-> id, left |-> sweep.left \ {id}]
  /\ UNCHANGED <<masks, known, mark, reg, marks, adds>>

SweepInsert ==
  /\ sweep.at = "insert"
  /\ masks' = masks \union {sweep.id}
  /\ sweep' = IF sweep.left = {} THEN NoSweep
              ELSE [sweep EXCEPT !.at = "remove", !.id = None]
  /\ UNCHANGED <<compromised, expired, known, mark, reg, marks, adds>>

-----------------------------------------------------------------------------
(* register_mask.                                                          *)

Register(id) ==
  /\ reg = NoReg /\ adds < MaxAdds /\ id \in Added
  /\ adds' = adds + 1
  /\ reg' = IF id \in compromised THEN NoReg ELSE [at |-> "insert", id |-> id]
  /\ UNCHANGED <<masks, compromised, expired, known, mark, sweep, marks>>

RegisterMutantUnchecked ==
  /\ reg.at = "insert"
  /\ masks' = masks \union {reg.id} /\ known' = known \union {reg.id}
  /\ reg' = NoReg
  /\ UNCHANGED <<compromised, expired, mark, sweep, marks, adds>>

RegisterInsert ==
  /\ reg.at = "insert"
  /\ masks' = masks \union {reg.id} /\ known' = known \union {reg.id}
  /\ reg' = [reg EXCEPT !.at = "check"]
  /\ UNCHANGED <<compromised, expired, mark, sweep, marks, adds>>

RegisterCheck ==
  /\ reg.at = "check"
  /\ reg' = IF reg.id \in compromised THEN [reg EXCEPT !.at = "undo"] ELSE NoReg
  /\ UNCHANGED <<masks, compromised, expired, known, mark, sweep, marks, adds>>

RegisterUndo ==
  /\ reg.at = "undo"
  /\ masks' = masks \ {reg.id}
  /\ reg' = NoReg
  /\ UNCHANGED <<compromised, expired, known, mark, sweep, marks, adds>>

Next ==
  \/ \E id \in Masks : Mark(id) \/ Expire(id) \/ SweepRemove(id) \/ Register(id)
  \/ MarkGet \/ MarkInsert \/ MarkRemove
  \/ Collect \/ SweepInsert
  \/ RegisterInsert \/ RegisterCheck \/ RegisterUndo

Spec == Init /\ [][Next]_vars

-----------------------------------------------------------------------------
(* Whatever the detectors, the additions and the sweep do at once, there   *)
(* is a mask in rotation: primary_mask finds one and the server can take a *)
(* handshake (mark_compromised_with_fallback looks for the fallback before *)
(* it removes).                                                            *)
NeverDeaf == masks # {}

(* With no task between two map operations, no mask is both in rotation    *)
(* and compromised (register_mask's second check against a concurrent      *)
(* mark_compromised_with_fallback).                                        *)
NeverBoth == Rest => masks \intersect compromised = {}

(* With no task between two map operations, every mask ever registered is  *)
(* in rotation or set aside for the sweep: none disappears from both maps  *)
(* (sweep_expired_compromised gives compromised masks another chance).     *)
NeverForgotten == Rest => known \subseteq masks \union compromised
=============================================================================
