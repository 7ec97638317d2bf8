--------------------------- MODULE PermissionStore ---------------------------
(***************************************************************************)
(* The permission ledger of memory/permission_store.py: the SQLite tables  *)
(* that the backend process and the session worker processes share, for    *)
(* one session, and one operator per transaction on them.                  *)
(*                                                                         *)
(* A task carries the process that owns it and an epoch; the code draws a  *)
(* fresh uuid for each epoch, here a counter, and compares epochs only for *)
(* equality.  An approval row is named by its task, its call and its       *)
(* epoch.  An execution row is the claim on a tool call and then its       *)
(* outcome.  Deciding, resuming and executing are therefore transactions   *)
(* on shared rows; who runs them, and when, is module ToolPermission.      *)
(***************************************************************************)
EXTENDS Integers

CONSTANTS
    Tasks,      \* identifiers of the tasks one session may create
    Calls,      \* the tool calls of the batch a task executes
    Pids,       \* process identifiers; a pid is not given out twice
    NoPid       \* owner -1: no process

VARIABLES
    policy,     \* policies: the mode of the session
    task,       \* tasks: state, owner and epoch of each task
    ckpt,       \* checkpoints: the task and the agent key of each row
    appr,       \* approvals: a set of rows
    exec,       \* executions: state and result of each call of each task
    alive       \* the processes the operating system reports alive

ledger == <<policy, task, ckpt, appr, exec>>

ASSUME PidAssumption == NoPid \notin Pids

\* The agent keys of a task's checkpoints: the configuration it started with,
\* and the snapshot from which it can be resumed.
Keys == {"config:main", "main"}
Modes == {"ask", "full_control"}
Live == {"running", "suspended"}
Terminal == {"cancelled", "completed", "failed"}
Unresolved == {"pending", "approved", "denied"}

TaskRow == [state : {"absent"} \union Live \union Terminal,
            owner : Pids \union {NoPid},
            epoch : Nat]
ApprovalRow == [task : Tasks, call : Calls, epoch : Nat,
                state : Unresolved \union {"invalidated", "cancelled", "completed"}]
ExecutionRow == [state : {"none", "executing", "completed"},
                 result : {"null", "ok", "denied", "cancelled"}]

NoExecution == [state |-> "none", result |-> "null"]

StoreTypeOK ==
    /\ policy \in Modes
    /\ task \in [Tasks -> TaskRow]
    /\ ckpt \subseteq Tasks \X Keys
    /\ appr \subseteq ApprovalRow
    /\ exec \in [Tasks -> [Calls -> ExecutionRow]]

StoreInit ==
    /\ policy \in Modes
    /\ task = [t \in Tasks |-> [state |-> "absent", owner |-> NoPid, epoch |-> 0]]
    /\ ckpt = {}
    /\ appr = {}
    /\ exec = [t \in Tasks |-> [c \in Calls |-> NoExecution]]

-----------------------------------------------------------------------------
(* Approvals.                                                              *)

\* The rows of R with their state set to s, the other rows as they are.
Restate(R, s) == (appr \ R) \union {[r EXCEPT !.state = s] : r \in R}

RowsOf(S) == {r \in appr : r.task \in S /\ r.state \in Unresolved}

\* request_approval: an existing row of this epoch is reused as it stands.
Requested(t, C, e) ==
    appr \union {[task |-> t, call |-> c, epoch |-> e, state |-> "pending"] :
        c \in {d \in C : \A r \in appr : ~(r.task = t /\ r.call = d /\ r.epoch = e)}}

\* Mutant: a later answer replaces an earlier one.
MayDecideAgain(tasks, r, s) ==
    tasks[r.task].state = "running" /\ r.state \in {"approved", "denied", "pending"}

\* What decide reads before it writes: the task runs, and the row is pending or
\* already holds the same decision.  (The epoch it compares is the row's own.)
MayDecide(tasks, r, s) ==
    /\ tasks[r.task].state = "running"
    /\ r.state \in {"pending", s}

\* The second statement of finish_call.
RowsFinished(t, C, e) ==
    Restate({r \in appr : r.task = t /\ r.call \in C /\ r.epoch = e}, "completed")

-----------------------------------------------------------------------------
(* Executions.                                                             *)

\* Mutant: the claim is checked but never inserted.
ClaimForgotten(t, c) == exec

Claimed(t, c) ==
    [exec EXCEPT ![t][c] = [state |-> "executing", result |-> "null"]]

Completed(t, c, res) ==
    [exec EXCEPT ![t][c] = [state |-> "completed", result |-> res]]

\* Mutant: an unfinished claim is taken for no claim.
UnknownForgotten(t) == FALSE

Unknown(t) == \E c \in Calls : exec[t][c].state = "executing"

-----------------------------------------------------------------------------
(* Tasks.                                                                  *)

WithState(S, s) ==
    [t \in Tasks |-> IF t \in S THEN [task[t] EXCEPT !.state = s] ELSE task[t]]

\* set_task_state on the tasks of S: a terminal state also retires their open
\* approvals, their checkpoints and the results kept for a replay.
SetTaskState(S, s) ==
    /\ task' = WithState(S, s)
    /\ IF s \in Terminal
       THEN /\ appr' = Restate(RowsOf(S), "cancelled")
            /\ ckpt' = {x \in ckpt : x[1] \notin S}
            /\ exec' = [t \in Tasks |->
                          IF t \in S
                          THEN [c \in Calls |-> [exec[t][c] EXCEPT !.result = "null"]]
                          ELSE exec[t]]
       ELSE UNCHANGED <<appr, ckpt, exec>>
    /\ UNCHANGED policy

CreatedTask(t, me) ==
    [task EXCEPT ![t] = [state |-> "running", owner |-> me, epoch |-> 1]]

\* suspend_session: the running tasks with any row in checkpoints, whoever
\* owns them.
SuspendSession ==
    /\ task' = WithState({t \in Tasks : /\ task[t].state = "running"
                                        /\ \E k \in Keys : <<t, k>> \in ckpt}, "suspended")
    /\ UNCHANGED <<policy, ckpt, appr, exec>>

\* load_checkpoint(t): there is a snapshot to resume the task from.
Saved(t) == <<t, "main">> \in ckpt

\* Mutant: a task that died before its first snapshot is not looked at.
SweptSaved == WithState({t \in Tasks : /\ task[t].state = "running" /\ Saved(t)
                                      /\ task[t].owner \notin alive},
                        "suspended")

\* pending() first suspends the running tasks whose owner is dead.
Swept == WithState({t \in Tasks : task[t].state = "running" /\ task[t].owner \notin alive},
                   "suspended")

\* Mutant: resume does not look for executions of unknown outcome.
MayResumeUnknown(tasks, t) ==
    tasks[t].state = "suspended" /\ Saved(t) /\ tasks[t].owner \notin alive

\* Mutant: resume does not ask whether the old process is still there.
MayResumeOwned(tasks, t) ==
    tasks[t].state = "suspended" /\ Saved(t) /\ ~Unknown(t)

\* resume: the state after a sweep is tasks; the caller becomes the owner.
MayResume(tasks, t) ==
    /\ tasks[t].state = "suspended"
    /\ Saved(t)
    /\ tasks[t].owner \notin alive
    /\ ~Unknown(t)

ResumedBy(tasks, t, me) ==
    [tasks EXCEPT ![t] = [state |-> "running", owner |-> me, epoch |-> tasks[t].epoch + 1]]

Invalidated(t) == Restate(RowsOf({t}), "invalidated")

\* Mutant: the worker goes on under the backend's ownership.
AdoptedByNobody(t, me) == task

\* adopt: the worker takes the ownership over, whatever the epoch.
AdoptedBy(t, me) == [task EXCEPT ![t].owner = me]

\* Mutant: the released task keeps its owner.
ReleasedStillOwned(tasks, t, e, me) ==
    IF tasks[t].epoch = e /\ tasks[t].owner = me /\ tasks[t].state \in Live
    THEN [tasks EXCEPT ![t].state = "suspended"]
    ELSE tasks

\* release_resume by process me: only while me owns the task under epoch e.
ReleasedBy(tasks, t, e, me) ==
    IF tasks[t].epoch = e /\ tasks[t].owner = me /\ tasks[t].state \in Live
    THEN [tasks EXCEPT ![t].state = "suspended", ![t].owner = NoPid]
    ELSE tasks

\* claim_interrupted_task by process me for the tasks of S.
MayRetire(tasks, t) == tasks[t].state = "suspended" /\ tasks[t].owner \notin alive

RetiredBy(tasks, S, me) ==
    [t \in Tasks |->
        IF t \in S THEN [tasks[t] EXCEPT !.owner = me, !.epoch = tasks[t].epoch + 1]
        ELSE tasks[t]]
=============================================================================
