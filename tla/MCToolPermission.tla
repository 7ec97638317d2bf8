-------------------------- MODULE MCToolPermission --------------------------
(***************************************************************************)
(* ToolPermission on small instances, and what the documents and messages  *)
(* of the repository say of it that the code does not keep.                *)
(***************************************************************************)
EXTENDS ToolPermissionInv

\* docs/tool_permissions.md:64: while a suspended task is not dealt with, the
\* backend keeps a new task of the session from overwriting the context to
\* resume; the user may resume it or give it up.  So only a stop or give-up
\* request may cancel it (_retire_interrupted_tasks does it for a message).
NewTaskWaits ==
    [][\A t \in Tasks :
        Saved(t) /\ task[t].state = "suspended" /\ task'[t].state = "cancelled"
            => stop # NoStop]_vars

\* docs/tool_permissions.md:54: when the backend closes during the wait, the
\* task is suspended, and after a restart the user allows or denies in the
\* same place to go on.  So a request nobody has answered has no recorded
\* outcome (wait records APPROVAL_CANCELLED when it sees the suspension).
UnansweredStaysOpen ==
    \A r \in appr :
        r.state = "pending" /\ task[r.task].state = "suspended"
            => exec[r.task][r.call].state # "completed"

\* docs/tool_permissions.md:66: the intent is written before a tool starts, and a
\* call whose process exits before the result is committed is not run again;
\* permission_store.py:335: a call with an execution record must not be repeated.
\* So no call has its effect twice (adopt compares neither owner nor epoch, and
\* begin_call claims only a call without a record).
NotRunAgain == AtMostOnce

\* docs/tool_permissions.md:74: after a task has completed, failed or been
\* given up its snapshot is cleared (authorize saves one without a check).
EndedHasNoSnapshot ==
    \A t \in Tasks :
        Saved(t) /\ task[t].state \in Terminal => \E p \in Pids : rt[p].task = t

\* docs/tool_permissions.md:114: a call that was denied sends no tool_start and
\* is not executed by this round.  So no call is claimed whose request, under
\* the epoch of the claim, is denied (decide writes over full control's approval).
DeniedIsNotClaimed ==
    [][\A r \in appr :
        r.state = "denied" /\ exec[r.task][r.call].state = "none"
            => ~(exec'[r.task][r.call].state = "executing"
                 /\ claimedAt'[r.task][r.call] = r.epoch)]_vars

\* docs/tool_permissions.md:110: when the dispatch of a resumption fails and no
\* worker has adopted the task, the backend's ownership is released.  So a
\* resumption that ends without a dispatch leaves the task owned by no backend
\* (resume_task does not release a task it finds suspended again).
FailedIsReleased ==
    [][res # NoRes /\ res' = NoRes /\ watch' = watch /\ backend' = backend
           => task'[res.task].owner # backend]_vars

\* memory/permission_store.py:256: a session with a running or suspended task
\* has to be stopped before an import overwrites it.  So a stop that nothing
\* interferes with leaves none (a task without a checkpoint is passed over).
Undisturbed == BackendUp /\ ~GenerationRunning /\ chat = "none" /\ res = NoRes

StopClearsSession ==
    [][stop.pc = "close" /\ stop' = NoStop /\ Undisturbed /\ Undisturbed'
           => \A t \in Tasks : task'[t].state \notin Live]_vars
=============================================================================
