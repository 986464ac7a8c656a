--------------------------- MODULE PendingConfig ---------------------------
(***************************************************************************)
(* Apply with rollback (pending_config.rs, mgmt_service/heavy_settings.rs):*)
(* a setting that could lock the administrator out is written at once and  *)
(* rolled back unless it is confirmed in time.  The settings are files;    *)
(* one of them, the server configuration, holds the node's exit, which     *)
(* goes live when a change of it is confirmed.  The manager's lock covers  *)
(* a file and its entry, but not the step that takes the exit live.        *)
(***************************************************************************)
EXTENDS Naturals

CONSTANTS Paths, Config,  \* the files, and the server configuration
          Values, Absent, \* their contents, and a file that is not there
          Requests,       \* requests handled at a time
          Timeout,        \* PENDING_CONFIG_TIMEOUT
          MaxTime, MaxTokens

ASSUME ConfigAssumption ==
  Config \in Paths /\ Timeout \in Nat /\ MaxTime \in Nat /\ MaxTokens \in Nat

VARIABLES
  file,      \* path -> content
  pending,   \* the entries of the manager
  tokens,    \* tokens handed out so far
  live,      \* masked_exit_addr: the exit in use
  now,
  req,       \* request -> where it is
  sweep,     \* where the cleanup task is
  committed  \* path -> what an administrator last confirmed or wrote for good,
             \* or a restart found on disk

configVars == <<file, pending, tokens, live, now, req, sweep, committed>>

Content == Values \union {Absent}
PendingEntry == [token : 1..MaxTokens, path : Paths, prior : Content, expires : 0..MaxTime]
NoTask == [at |-> "idle", token |-> 0, before |-> FALSE, val |-> Absent]
Task == [at : {"idle", "dispatch", "after", "read", "swap"}, token : 0..MaxTokens,
         before : BOOLEAN, val : Content]

(* Every part of the state has its type. *)
PendingTypeOK ==
  /\ file \in [Paths -> Content] /\ committed \in [Paths -> Content]
  /\ pending \in SUBSET PendingEntry
  /\ tokens \in 0..MaxTokens
  /\ live \in Content
  /\ now \in 0..MaxTime
  /\ req \in [Requests -> Task] /\ sweep \in Task

has_pending_for_path(p) == \E e \in pending : e.path = p
is_expired(e) == now >= e.expires

ConfigInit ==
  /\ file \in [Paths -> {Absent}] /\ committed = file
  /\ pending = {}
  /\ tokens = 0
  /\ live = file[Config]
  /\ now = 0
  /\ req = [r \in Requests |-> NoTask]
  /\ sweep = NoTask

-----------------------------------------------------------------------------
(* The operations of the manager, each under its lock *)

\* Mutant: an entry for the same file is replaced but its prior is lost.
BeginMutantForgetsPrior(e) ==
  pending' = {q \in pending : q.path # e.path} \union {e}

(* A new entry takes over the prior content of the one it replaces *)
begin_locked(e) ==
  LET same == {q \in pending : q.path = e.path}
  IN pending' = (pending \ same) \union
       {[e EXCEPT !.prior = IF same = {} THEN @ ELSE (CHOOSE q \in same : TRUE).prior]}

apply_heavy(p, v) ==
  /\ tokens < MaxTokens /\ now + Timeout <= MaxTime
  /\ tokens' = tokens + 1
  /\ file' = [file EXCEPT ![p] = v]
  /\ begin_locked([token |-> tokens + 1, path |-> p, prior |-> file[p], expires |-> now + Timeout])
  /\ UNCHANGED committed

Confirmable(t) == {e \in pending : e.token = t /\ ~is_expired(e)}

confirm_and_take(t) ==
  /\ pending' = pending \ Confirmable(t)
  /\ committed' = [p \in Paths |->
       IF \E e \in Confirmable(t) : e.path = p THEN file[p] ELSE committed[p]]
  /\ UNCHANGED <<file, tokens>>

(* The REST handlers *)
RestApply(r, p, v) ==
  /\ req[r].at = "idle"
  /\ apply_heavy(p, v)
  /\ UNCHANGED <<live, now, req, sweep>>

RestConfirm(r, t) ==
  /\ req[r].at = "idle"
  /\ confirm_and_take(t)
  /\ req' = [req EXCEPT ![r].at =
       IF \E e \in Confirmable(t) : e.path = Config THEN "read" ELSE "idle"]
  /\ UNCHANGED <<live, now, sweep>>

(* write_direct_file: PUT /config and the choice of a mask *)
write_direct_file(p, v) ==
  /\ ~has_pending_for_path(p)
  /\ file' = [file EXCEPT ![p] = v]
  /\ committed' = [committed EXCEPT ![p] = v]
  /\ UNCHANGED <<pending, tokens, live, now, req, sweep>>

(* dispatch_mgmt_request: a request over the tunnel compares the entry of the
   server configuration before and after; token 0 is a request that confirms nothing *)
TunnelStart(r, t) ==
  /\ req[r].at = "idle"
  /\ req' = [req EXCEPT ![r] =
       [NoTask EXCEPT !.at = "dispatch", !.token = t, !.before = has_pending_for_path(Config)]]
  /\ UNCHANGED <<file, pending, tokens, live, now, sweep, committed>>

TunnelDispatch(r) ==
  /\ req[r].at = "dispatch"
  /\ req' = [req EXCEPT ![r].at = "after"]
  /\ \/ req[r].token # 0 /\ confirm_and_take(req[r].token)
     \/ req[r].token = 0 /\ \E p \in Paths, v \in Values : apply_heavy(p, v)
     \/ req[r].token = 0 /\ UNCHANGED <<file, pending, tokens, committed>>
  /\ UNCHANGED <<live, now, sweep>>

TunnelAfter(r) ==
  /\ req[r].at = "after"
  /\ req' = [req EXCEPT ![r] =
       IF req[r].before /\ ~has_pending_for_path(Config)
       THEN [NoTask EXCEPT !.at = "read"] ELSE NoTask]
  /\ UNCHANGED <<file, pending, tokens, live, now, sweep, committed>>

(* apply_global_exit_and_teardown: read the file, then swap *)
ReadExit(r) ==
  /\ req[r].at = "read"
  /\ req' = [req EXCEPT ![r].at = "swap", ![r].val = file[Config]]
  /\ UNCHANGED <<file, pending, tokens, live, now, sweep, committed>>

SwapExit(r) ==
  /\ req[r].at = "swap"
  /\ live' = req[r].val
  /\ req' = [req EXCEPT ![r] = NoTask]
  /\ UNCHANGED <<file, pending, tokens, now, sweep, committed>>

-----------------------------------------------------------------------------
(* The cleanup task *)

Overdue == {e \in pending : is_expired(e)}

\* Mutant: an entry whose rollback failed is forgotten.
RollbackMutantForgets(failed) ==
  /\ sweep.at = "idle" /\ Overdue # {}
  /\ file' = [p \in Paths |->
       IF \E e \in Overdue \ failed : e.path = p
       THEN (CHOOSE e \in Overdue \ failed : e.path = p).prior ELSE file[p]]
  /\ pending' = pending \ Overdue
  /\ sweep' = IF Overdue \ failed = {} THEN NoTask ELSE [NoTask EXCEPT !.at = "read"]
  /\ UNCHANGED <<tokens, live, now, req, committed>>

(* Every expired entry is restored; one that cannot be written stays *)
rollback_expired(failed) ==
  /\ sweep.at = "idle" /\ Overdue # {}
  /\ file' = [p \in Paths |->
       IF \E e \in Overdue \ failed : e.path = p
       THEN (CHOOSE e \in Overdue \ failed : e.path = p).prior ELSE file[p]]
  /\ pending' = pending \ (Overdue \ failed)
  /\ sweep' = IF Overdue \ failed = {} THEN NoTask ELSE [NoTask EXCEPT !.at = "read"]
  /\ UNCHANGED <<tokens, live, now, req, committed>>

SweepRead ==
  /\ sweep.at = "read"
  /\ sweep' = [sweep EXCEPT !.at = "swap", !.val = file[Config]]
  /\ UNCHANGED <<file, pending, tokens, live, now, req, committed>>

SweepSwap ==
  /\ sweep.at = "swap"
  /\ live' = sweep.val
  /\ sweep' = NoTask
  /\ UNCHANGED <<file, pending, tokens, now, req, committed>>

ConfigTick ==
  /\ now < MaxTime
  /\ now' = now + 1
  /\ UNCHANGED <<file, pending, tokens, live, req, sweep, committed>>

(* The entries are kept in memory only: a restart makes every change that is
   on disk permanent, whether an administrator confirmed it or not *)
Restart ==
  /\ pending' = {} /\ committed' = file
  /\ req' = [r \in Requests |-> NoTask]
  /\ sweep' = NoTask
  /\ live' = file[Config]
  /\ UNCHANGED <<file, tokens, now>>

-----------------------------------------------------------------------------
Continue(r) == TunnelDispatch(r) \/ TunnelAfter(r) \/ ReadExit(r) \/ SwapExit(r)
Sweep == (\E failed \in SUBSET Overdue : rollback_expired(failed)) \/ SweepRead \/ SweepSwap
SweepWell == rollback_expired({}) \/ SweepRead \/ SweepSwap

ConfigNext ==
  \/ \E r \in Requests :
       \/ \E p \in Paths, v \in Values : RestApply(r, p, v)
       \/ \E t \in 1..tokens : RestConfirm(r, t)
       \/ \E t \in 0..tokens : TunnelStart(r, t)
       \/ Continue(r)
  \/ \E p \in Paths \ {Config}, v \in Values : write_direct_file(p, v)
  \/ Sweep
  \/ ConfigTick
  \/ Restart

(* Requests and the cleanup task go on, time passes, and a file system that
   refuses a rollback does not refuse it for ever. *)
ConfigFairness ==
  /\ WF_configVars(ConfigTick) /\ SF_configVars(SweepWell)
  /\ \A r \in Requests : WF_configVars(Continue(r))

ConfigSpec == ConfigInit /\ [][ConfigNext]_configVars
FairConfigSpec == ConfigSpec /\ ConfigFairness

-----------------------------------------------------------------------------
(* Properties *)

(* A rollback leads back to what was last confirmed (begin_locked): an entry keeps it through
   any chain of changes of its file, a file has one entry at most, and a file
   that shows anything else has an entry. *)
RollbackRestores ==
  /\ \A e \in pending : e.prior = committed[e.path]
  /\ \A e, f \in pending : e.path = f.path => e = f
  /\ \A p \in Paths : file[p] # committed[p] => has_pending_for_path(p)

(* When nothing is in progress, the exit in use is the one the file holds, as
   far as it is confirmed. *)
LiveSettles ==
  (\A r \in Requests : req[r].at = "idle") /\ sweep.at = "idle" /\ ~has_pending_for_path(Config)
    => live = committed[Config]

(* The exit in use changes only to a content of the file that is confirmed. *)
LiveConfirmed == [][live' # live => live' = committed[Config]]_configVars

(* A change that nobody confirms is rolled back: each file is again and again
   what was confirmed last. *)
RollsBack == \A p \in Paths : []<>(file[p] = committed[p])
=============================================================================
