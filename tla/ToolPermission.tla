--------------------------- MODULE ToolPermission ---------------------------
(***************************************************************************)
(* Tool execution under permission: one session of the service, its        *)
(* backend process, its worker processes and the ledger they share.        *)
(*                                                                         *)
(* A worker runs one task at a time: it authorizes the batch of tool calls *)
(* of the model's answer, waits for the user's decisions, claims each call *)
(* in the ledger, executes it and records the result.  The backend starts  *)
(* and stops workers, takes decisions, resumes suspended tasks under a new *)
(* epoch and retires them when a new message arrives.  Either process may  *)
(* die at any point; a worker that outlives its backend is an orphan, and  *)
(* runs on beside the workers of the next backend until it has noticed.    *)
(*                                                                         *)
(* A step is the code between two points where another process, or another *)
(* coroutine of the same process, can act: an await, or the gap between    *)
(* the reads of claim_execution and its INSERT.                            *)
(***************************************************************************)
EXTENDS PermissionStore, FiniteSets

CONSTANTS
    Risky,      \* the calls whose plan needs approval in mode "ask"
    External,   \* the MCP calls: claimed in order, then run together
    NoTask,
    Faults,     \* bound: what may go wrong in a run
    Requests,   \* bound: what the user may do in a run, beside sending messages
    MaxEpoch    \* bound: resumptions and retirements stop at this epoch

ASSUME CallAssumption ==
    /\ Calls \subseteq Nat
    /\ Risky \subseteq Calls
    /\ External \subseteq Calls
    /\ NoTask \notin Tasks
    /\ Faults \subseteq {"worker", "backend", "error", "idle", "dispatch"}
    /\ Requests \subseteq {"decide", "resume", "stop", "mode", "shutdown"}
    /\ MaxEpoch \in Nat

VARIABLES
    born,       \* pids given out so far
    backend,    \* the backend process, or NoPid
    down,       \* how far the backend's shutdown handler has come
    worker,     \* the process behind the backend's worker proxy, or NoPid
    cmd,        \* the generate command in the pipe of each worker
    sig,        \* the stop or shutdown command in the pipe of each worker
    rt,         \* what each process executes (the generation, its runtime)
    inflight,   \* tool threads: process, task and call
    res,        \* resume_permission_task between the claim and the dispatch
    watch,      \* wait_worker coroutines: resumed tasks and their epochs
    poll,       \* resume_approval waiting for the worker's fresh request
    chat,       \* the request that brings a new user message
    todo,       \* tasks that request has claimed and not yet retired
    stop,       \* the stop or give-up request
    dec,        \* the decision that decide is about to write
    effects,    \* history: how often the effect of a call took place
    claimedAt,  \* history: the epoch under which a call was claimed
    granted,    \* history: calls the user, or full control, has allowed
    contested   \* history: tasks a worker has adopted from under another process

process == <<alive, born, backend, down, worker>>
pipe == <<cmd, sig>>
handler == <<res, watch, poll, chat, todo, stop, dec>>
history == <<effects, claimedAt, granted, contested>>
vars == <<ledger, process, pipe, rt, inflight, handler, history>>

NoCmd == [kind |-> "none", task |-> NoTask]
NoRes == [task |-> NoTask, epoch |-> 0]
NoPoll == [task |-> NoTask, call |-> 0, epoch |-> 0, decision |-> "none"]
NoDec == NoPoll
NoStop == [pc |-> "none", task |-> NoTask, left |-> {}]
Idle == [pc |-> "idle", task |-> NoTask, epoch |-> 0,
         call |-> [c \in Calls |-> "new"], why |-> "none", final |-> "failed",
         close |-> "failed"]

Init ==
    /\ StoreInit
    /\ alive = {} /\ born = {}
    /\ backend = NoPid /\ down = "no" /\ worker = NoPid
    /\ cmd = [p \in Pids |-> NoCmd]
    /\ sig = [p \in Pids |-> "none"]
    /\ rt = [p \in Pids |-> Idle]
    /\ inflight = {}
    /\ res = NoRes /\ watch = {} /\ poll = NoPoll
    /\ chat = "none" /\ todo = {} /\ stop = NoStop /\ dec = NoDec
    /\ effects = [t \in Tasks |-> [c \in Calls |-> 0]]
    /\ claimedAt = [t \in Tasks |-> [c \in Calls |-> 0]]
    /\ granted = {} /\ contested = {}

-----------------------------------------------------------------------------
(* What the processes are.                                                 *)

BackendUp == backend # NoPid

\* A worker connected to a backend: the only one that makes progress.  One
\* that has lost its backend ends at its next await.
Attached(w) == w = worker /\ w \in alive

Orphan(w) == w \in alive /\ w # backend /\ w # worker

\* proxy.is_generation_running: a generate command sent and not yet finished.
GenerationRunning ==
    /\ worker \in alive
    /\ cmd[worker] # NoCmd \/ rt[worker].pc \notin {"idle", "leaving"}

\* The pid of a new process: the bound on pids is that there is one left.
Spare == Pids \ born # {}
Fresh == CHOOSE p \in Pids : p \notin born

\* The worker a dispatch talks to: the living one, or a new process.
DispatchTarget(w) ==
    \/ Attached(w)
    \/ worker \notin alive /\ Spare /\ w = Fresh

Dispatch(w, command) ==
    /\ DispatchTarget(w)
    /\ cmd[w] = NoCmd
    /\ worker' = w
    /\ alive' = alive \union {w}
    /\ born' = born \union {w}
    /\ cmd' = [cmd EXCEPT ![w] = command]
    /\ sig' = IF sig[w] = "shutdown" \/ rt[w].pc # "idle" THEN sig
              ELSE [sig EXCEPT ![w] = "none"]
    /\ UNCHANGED <<backend, down>>

-----------------------------------------------------------------------------
(* The worker: taking a generation up.                                     *)

StartedAs(w, t, e) ==
    rt' = [rt EXCEPT ![w] = [Idle EXCEPT !.pc = "starting", !.task = t, !.epoch = e]]

Absent == {t \in Tasks : task[t].state = "absent"}
NewTask == CHOOSE t \in Tasks : task[t].state = "absent"

\* A new message: PermissionRuntime creates a task.
StartNew(w) ==
    /\ w \in alive /\ cmd[w].kind = "new" /\ rt[w].pc = "idle"
    /\ Absent # {}
    /\ task' = CreatedTask(NewTask, w)
    /\ StartedAs(w, NewTask, 1)
    /\ cmd' = [cmd EXCEPT ![w] = NoCmd]
    /\ UNCHANGED <<policy, ckpt, appr, exec, process, sig, inflight, handler, history>>

\* From its start to the end of the block that closes its task.
Executing == {"starting", "ready", "batch", "cancelling", "finally", "closing"}

Executes(p, t) == p \in alive /\ rt[p].pc \in Executing /\ rt[p].task = t

\* The backend is about to hand the task to its worker, or has sent the command.
Underway(t) == res.task = t \/ (worker \in alive /\ cmd[worker].task = t)

\* Somebody else executes the task by now, or is about to: an orphan has come
\* back to its command late.
Contested(w, t) ==
    (\E p \in Pids : Executes(p, t)) \/ (Orphan(w) /\ Underway(t))

\* A resumption: the UPDATE of adopt, which finds a running task only and looks
\* at neither its owner nor its epoch.  A command outlives the backend that
\* sent it: the worker reads it before the end of the pipe.
AdoptResume(w) ==
    /\ w \in alive /\ cmd[w].kind = "resume" /\ rt[w].pc = "idle"
    /\ LET t == cmd[w].task
       IN IF task[t].state = "running"
          THEN /\ task' = AdoptedBy(t, w)
               /\ StartedAs(w, t, task[t].epoch)
               /\ contested' = IF Contested(w, t) THEN contested \union {t} ELSE contested
          ELSE UNCHANGED <<task, rt, contested>>
    /\ cmd' = [cmd EXCEPT ![w] = NoCmd]
    /\ UNCHANGED <<policy, ckpt, appr, exec, process, sig, inflight, handler,
                   effects, claimedAt, granted>>

\* bind_config saves the first checkpoint row, inside the block whose end closes
\* the task.
Bind(w) ==
    /\ Attached(w) /\ rt[w].pc = "starting"
    /\ ckpt' = ckpt \union {<<rt[w].task, "config:main">>}
    /\ rt' = [rt EXCEPT ![w].pc = "ready"]
    /\ UNCHANGED <<policy, task, appr, exec, process, pipe, inflight, handler, history>>

\* Before that block a generation that ends leaves its task as it is: on an
\* exception, or when a resumption reads that its task no longer runs.
Abandon(w) ==
    /\ Attached(w) /\ rt[w].pc = "starting"
    /\ \/ "error" \in Faults
       \/ rt[w].epoch # 1 /\ task[rt[w].task].state # "running"
    /\ rt' = [rt EXCEPT ![w] = Idle]
    /\ UNCHANGED <<ledger, process, pipe, inflight, handler, history>>

\* A stop that follows the generate command in the pipe cancels the
\* generation before its first step; without a generation it does nothing.
DropCommand(w) ==
    /\ w \in alive /\ rt[w].pc = "idle" /\ sig[w] \in {"user", "interrupt"}
    /\ cmd' = [cmd EXCEPT ![w] = NoCmd]
    /\ sig' = [sig EXCEPT ![w] = "none"]
    /\ UNCHANGED <<ledger, process, rt, inflight, handler, history>>

-----------------------------------------------------------------------------
(* The worker: authorizing the batch.                                      *)

InBatch(w) == w \in alive /\ rt[w].pc = "batch"

StatusOf(w, s) == {c \in Calls : rt[w].call[c] = s}

SetCalls(w, C, s) ==
    [rt EXCEPT ![w].call = [c \in Calls |-> IF c \in C THEN s ELSE rt[w].call[c]]]

Fail(w) == rt' = [rt EXCEPT ![w].pc = "finally", ![w].final = "failed"]

\* Mutant: only MCP calls are asked for.
NeedsApprovalExternal(c) == policy = "ask" /\ c \in Risky \intersect External

NeedsApproval(c) == policy = "ask" /\ c \in Risky

\* The calls whose recorded result is returned instead of a new execution.
Recorded(t) == {c \in Calls : exec[t][c].state = "completed"}

Grants(t, C, e) == granted \union {[task |-> t, call |-> c, epoch |-> e] : c \in C}

\* Save the checkpoint, then authorize up to its first wait: recorded calls
\* return their result, an unknown one fails the task, and every request of
\* the batch is in the ledger before the first one is awaited.
Authorize(w) ==
    /\ Attached(w) /\ rt[w].pc = "ready"
    /\ LET t == rt[w].task
           old == Recorded(t)
           ask == {c \in Calls \ old : NeedsApproval(c)}
           new == (Calls \ old) \ ask
       IN /\ ckpt' = ckpt \union {<<t, "main">>}
          /\ IF Unknown(t)
             THEN Fail(w) /\ UNCHANGED <<appr, granted>>
             ELSE /\ appr' = Requested(t, ask, rt[w].epoch)
                  /\ granted' = IF policy = "full_control" THEN Grants(t, Risky, rt[w].epoch)
                                ELSE granted
                  /\ rt' = [rt EXCEPT ![w].pc = "batch",
                                      ![w].call = [c \in Calls |->
                                          IF c \in old THEN "done"
                                          ELSE IF c \in ask THEN "ask" ELSE "allow"]]
    /\ UNCHANGED <<policy, task, exec, process, pipe, inflight, handler,
                   effects, claimedAt, contested>>

\* The row the worker waits for: the requests of the batch are waited for in
\* their order.
Awaited(w, r) ==
    /\ InBatch(w) /\ Attached(w)
    /\ r.task = rt[w].task /\ r.epoch = rt[w].epoch
    /\ rt[w].call[r.call] = "ask"
    /\ \A c \in StatusOf(w, "ask") : r.call <= c

\* The mode was switched to full control during the wait.
AutoApprove(w) ==
    /\ policy = "full_control"
    /\ \E r \in appr :
        /\ Awaited(w, r)
        /\ r.state = "pending"
        /\ appr' = Restate({r}, "approved")
        /\ granted' = Grants(r.task, {r.call}, r.epoch)
    /\ UNCHANGED <<policy, task, ckpt, exec, process, pipe, rt, inflight, handler,
                   effects, claimedAt, contested>>

\* The wait ends when the request is no longer pending or the task no longer
\* runs; a refusal is recorded as the result of the call.
Settle(w) ==
    /\ \E r \in appr :
        LET running == task[r.task].state = "running"
        IN /\ Awaited(w, r)
           /\ ~(r.state = "pending" /\ running)
           /\ IF running /\ r.state = "approved"
              THEN rt' = SetCalls(w, {r.call}, "allow") /\ UNCHANGED exec
              ELSE /\ rt' = SetCalls(w, {r.call}, "done")
                   /\ exec' = Completed(r.task, r.call, IF running /\ r.state = "denied"
                                                        THEN "denied" ELSE "cancelled")
    /\ UNCHANGED <<policy, task, ckpt, appr, process, pipe, inflight, handler, history>>

-----------------------------------------------------------------------------
(* The worker: claiming, running and recording the calls.                  *)

\* The loop over the allowed calls, in order: a built-in call ends before the
\* next one begins, an MCP call is only claimed.
NextCall(w, c) ==
    /\ InBatch(w)
    /\ StatusOf(w, "ask") = {}
    /\ \A d \in Calls : d < c =>
        \/ rt[w].call[d] = "done"
        \/ d \in External /\ rt[w].call[d] = "begun"

\* A call whose claim is settled: the thread of a built-in tool starts at once.
Begun(w, c) ==
    IF c \in External
    THEN rt' = SetCalls(w, {c}, "begun") /\ UNCHANGED inflight
    ELSE /\ rt' = SetCalls(w, {c}, "sent")
         /\ inflight' = inflight \union {<<w, rt[w].task, c>>}

\* begin_call up to the INSERT of claim_execution.
CheckCall(w) ==
    /\ \E c \in Calls :
        LET t == rt[w].task
        IN /\ NextCall(w, c) /\ Attached(w)
           /\ rt[w].call[c] = "allow"
           /\ IF exec[t][c] # NoExecution
              THEN Begun(w, c)
              ELSE /\ IF task[t].state = "running" /\ task[t].epoch = rt[w].epoch
                      THEN rt' = SetCalls(w, {c}, "checked")
                      ELSE Fail(w)
                   /\ UNCHANGED inflight
    /\ UNCHANGED <<ledger, process, pipe, handler, history>>

\* The INSERT; its primary key refuses a second claim.
ClaimCall(w) ==
    /\ \E c \in Calls :
        LET t == rt[w].task
        IN /\ InBatch(w) /\ rt[w].call[c] = "checked"
           /\ IF exec[t][c] = NoExecution
              THEN /\ exec' = Claimed(t, c)
                   /\ claimedAt' = [claimedAt EXCEPT ![t][c] = rt[w].epoch]
                   /\ Begun(w, c)
              ELSE Fail(w) /\ UNCHANGED <<exec, claimedAt, inflight>>
    /\ UNCHANGED <<policy, task, ckpt, appr, process, pipe, handler, effects, granted,
                   contested>>

\* After the loop the claimed MCP calls go to the thread pool together.
StartBatch(w) ==
    /\ InBatch(w) /\ Attached(w)
    /\ StatusOf(w, "begun") # {}
    /\ \A c \in Calls : rt[w].call[c] \in {"begun", "done"}
    /\ rt' = SetCalls(w, StatusOf(w, "begun"), "sent")
    /\ inflight' = inflight \union {<<w, rt[w].task, c>> : c \in StatusOf(w, "begun")}
    /\ UNCHANGED <<ledger, process, pipe, handler, history>>

\* A tool thread takes effect; it outlives a cancelled generation.
RunTool(p) ==
    /\ \E t \in Tasks, c \in Calls :
        /\ <<p, t, c>> \in inflight
        /\ inflight' = inflight \ {<<p, t, c>>}
        /\ effects' = [effects EXCEPT ![t][c] = effects[t][c] + 1]
    /\ UNCHANGED <<ledger, process, pipe, rt, handler, claimedAt, granted, contested>>

\* finish_call; the results of the MCP calls are recorded once all are back.
FinishCall(w) ==
    /\ \E c \in Calls :
        LET t == rt[w].task
        IN /\ InBatch(w) /\ Attached(w)
           /\ rt[w].call[c] = "sent"
           /\ \A d \in StatusOf(w, "sent") : <<w, t, d>> \notin inflight
           /\ rt' = SetCalls(w, {c}, "done")
           /\ exec' = Completed(t, c, "ok")
           /\ appr' = RowsFinished(t, {c}, rt[w].epoch)
    /\ UNCHANGED <<policy, task, ckpt, process, pipe, inflight, handler, history>>

-----------------------------------------------------------------------------
(* The worker: the end of a generation.                                    *)

\* Every call of the batch has its result: the model ends its answer.
Complete(w) ==
    /\ InBatch(w) /\ Attached(w)
    /\ \A c \in Calls : rt[w].call[c] = "done"
    /\ appr' = RowsFinished(rt[w].task, Calls, rt[w].epoch)
    /\ rt' = [rt EXCEPT ![w].pc = "finally", ![w].final = "completed"]
    /\ UNCHANGED <<policy, task, ckpt, exec, process, pipe, inflight, handler, history>>

\* An exception of the model, a tool or a re-validated plan.
FailRound(w) ==
    /\ "error" \in Faults
    /\ Attached(w) /\ rt[w].pc \in {"ready", "batch"}
    /\ StatusOf(w, "checked") = {}
    /\ Fail(w)
    /\ UNCHANGED <<ledger, process, pipe, inflight, handler, history>>

Cancel(w, why) ==
    rt' = [rt EXCEPT ![w] = IF rt[w].pc = "starting" THEN Idle
                            ELSE [rt[w] EXCEPT !.pc = "cancelling", !.why = why]]

\* The command loop cancels the generation at its next await; one that has not
\* come to the block that closes its task just ends.
Interrupt(w) ==
    /\ w \in alive /\ rt[w].pc \in {"starting", "ready", "batch"}
    /\ StatusOf(w, "checked") = {}
    /\ \/ /\ sig[w] \in {"user", "interrupt"}
          /\ Cancel(w, sig[w])
          /\ sig' = [sig EXCEPT ![w] = "none"]
          /\ UNCHANGED ledger
       \/ /\ cmd[w] # NoCmd
          /\ Cancel(w, "interrupt")
          /\ UNCHANGED <<sig, ledger>>
       \/ /\ sig[w] = "shutdown" \/ Orphan(w)
          /\ Cancel(w, "suspend")
          /\ SuspendSession
          /\ UNCHANGED sig
    /\ UNCHANGED <<process, cmd, inflight, handler, history>>

\* The CancelledError handler: after a shutdown it suspends the task whatever
\* state the ledger holds by then.
Unwind(w) ==
    /\ w \in alive /\ rt[w].pc = "cancelling"
    /\ rt' = [rt EXCEPT ![w].pc = "finally"]
    /\ IF rt[w].why = "suspend" THEN SetTaskState({rt[w].task}, "suspended")
       ELSE UNCHANGED ledger
    /\ UNCHANGED <<process, pipe, inflight, handler, history>>

\* The finally block reads the task and settles its final state ...
ReadState(w) ==
    /\ w \in alive /\ rt[w].pc = "finally"
    /\ LET s == task[rt[w].task].state
       IN rt' = [rt EXCEPT ![w].pc = "closing",
                           ![w].close = IF s = "suspended" THEN "suspended"
                                        ELSE IF rt[w].why = "user" \/ s = "cancelled"
                                        THEN "cancelled" ELSE rt[w].final]
    /\ UNCHANGED <<ledger, process, pipe, inflight, handler, history>>

\* ... and PermissionRuntime.close writes it.
Close(w) ==
    /\ w \in alive /\ rt[w].pc = "closing"
    /\ SetTaskState({rt[w].task}, rt[w].close)
    /\ rt' = [rt EXCEPT ![w] = Idle]
    /\ UNCHANGED <<process, pipe, inflight, handler, history>>

\* The command loop ends: the pipe is closed, a shutdown was read, or the
\* worker was idle too long (a generate command may just have arrived).
LeaveLoop(w) ==
    /\ w \in alive /\ w # backend /\ rt[w].pc = "idle"
    /\ \/ Orphan(w) \/ sig[w] = "shutdown" \/ "idle" \in Faults
    /\ SuspendSession
    /\ rt' = [rt EXCEPT ![w].pc = "leaving"]
    /\ UNCHANGED <<process, pipe, inflight, handler, history>>

\* What the death of process p takes with it.
Dies(p) ==
    /\ alive' = alive \ {p}
    /\ rt' = [rt EXCEPT ![p] = Idle]
    /\ inflight' = {x \in inflight : x[1] # p}
    /\ sig' = [sig EXCEPT ![p] = "none"]
    /\ cmd' = [cmd EXCEPT ![p] = NoCmd]
    /\ UNCHANGED <<ledger, born, backend, down, worker, history>>

\* A process waits for its tool threads before it exits.
ExitWorker(w) ==
    /\ w \in alive /\ rt[w].pc = "leaving"
    /\ \A x \in inflight : x[1] # w
    /\ Dies(w)
    /\ UNCHANGED handler

CrashWorker(w) ==
    /\ "worker" \in Faults
    /\ w \in alive /\ w # backend
    /\ Dies(w)
    /\ UNCHANGED handler

-----------------------------------------------------------------------------
(* The backend process.                                                    *)

StartBackend ==
    /\ ~BackendUp /\ Spare
    /\ backend' = Fresh
    /\ alive' = alive \union {Fresh}
    /\ born' = born \union {Fresh}
    /\ UNCHANGED <<ledger, down, worker, pipe, rt, inflight, handler, history>>

\* The coroutines of the backend end with it; a worker it leaves is an orphan.
BackendGone(dead) ==
    /\ alive' = alive \ dead
    /\ backend' = NoPid /\ down' = "no" /\ worker' = NoPid
    /\ cmd' = [p \in Pids |-> IF p \in dead THEN NoCmd ELSE cmd[p]]
    /\ sig' = [p \in Pids |-> IF p \in dead THEN "none" ELSE sig[p]]
    /\ rt' = [p \in Pids |-> IF p \in dead THEN Idle ELSE rt[p]]
    /\ inflight' = {x \in inflight : x[1] \notin dead}
    /\ res' = NoRes /\ watch' = {} /\ poll' = NoPoll
    /\ chat' = "none" /\ todo' = {} /\ stop' = NoStop /\ dec' = NoDec
    /\ UNCHANGED <<ledger, born, history>>

\* (There is always a pid left for the next backend.)
CrashBackend == "backend" \in Faults /\ BackendUp /\ Spare /\ BackendGone({backend})

Open == BackendUp /\ down = "no"

\* The event loop runs no other coroutine between the SELECT and the UPDATE of
\* decide; only the routes that run in threads, and other processes, act there.
LoopFree == dec = NoDec

Serving == Open /\ LoopFree

\* permission_ui_shutdown: suspend, ask the worker to leave, and end.
BeginShutdown ==
    /\ "shutdown" \in Requests
    /\ BackendUp /\ down = "no" /\ LoopFree
    /\ SuspendSession
    /\ down' = "begun"
    /\ UNCHANGED <<alive, born, backend, worker, pipe, rt, inflight, handler, history>>

SendShutdown ==
    /\ down = "begun" /\ LoopFree
    /\ worker \in alive => sig[worker] = "none"
    /\ sig' = IF worker \in alive THEN [sig EXCEPT ![worker] = "shutdown"] ELSE sig
    /\ down' = "sent"
    /\ UNCHANGED <<ledger, alive, born, backend, worker, cmd, rt, inflight, handler, history>>

\* The worker has left or is terminated eight seconds later.
FinishShutdown == down = "sent" /\ LoopFree /\ Spare /\ BackendGone({backend, worker})

-----------------------------------------------------------------------------
(* The backend: resuming a suspended task.                                 *)

\* An open page polls the pending approvals.
Sweep ==
    /\ BackendUp /\ Swept # task
    /\ task' = Swept
    /\ UNCHANGED <<policy, ckpt, appr, exec, process, pipe, rt, inflight, handler, history>>

\* store.resume and resume_permission_task up to its first await: the claim is
\* released when the session has an active stream.  A decision on a request of
\* a suspended task is the same claim, and the request then waits in p.
Claim(t, p) ==
    /\ Serving /\ task[t].epoch < MaxEpoch
    /\ MayResume(Swept, t)
    /\ appr' = Invalidated(t)
    /\ IF GenerationRunning \/ chat = "retire" \/ res # NoRes
       THEN /\ task' = ReleasedBy(ResumedBy(Swept, t, backend), t, task[t].epoch + 1, backend)
            /\ UNCHANGED <<res, poll, dec>>
       ELSE /\ task' = ResumedBy(Swept, t, backend)
            /\ res' = [task |-> t, epoch |-> task[t].epoch + 1]
            /\ poll' = p
    /\ UNCHANGED <<policy, ckpt, exec, process, pipe, rt, inflight, watch, chat, todo,
                   stop, dec, history>>

ResumeTask == "resume" \in Requests /\ \E t \in Tasks : Claim(t, poll)

ResumeByDecision ==
    /\ "decide" \in Requests
    /\ poll = NoPoll
    /\ \E r \in RowsOf(Tasks), d \in {"approved", "denied"} :
        Claim(r.task, [task |-> r.task, call |-> r.call,
                       epoch |-> task[r.task].epoch + 1, decision |-> d])

\* The second half of _start_session_generation: the command is sent and
\* wait_worker watches the generation.
DispatchResume(w) ==
    /\ res # NoRes /\ LoopFree
    /\ Dispatch(w, [kind |-> "resume", task |-> res.task])
    /\ watch' = watch \union {res}
    /\ res' = NoRes
    /\ UNCHANGED <<ledger, rt, inflight, poll, chat, todo, stop, dec, history>>

PollOf(e) == poll.task = e.task /\ poll.epoch = e.epoch

\* The worker cannot be started: the claim is released, by resume_task only if
\* it reads that the task is running.
FailDispatch ==
    /\ "dispatch" \in Faults
    /\ res # NoRes /\ LoopFree
    /\ task' = IF PollOf(res) \/ task[res.task].state = "running"
               THEN ReleasedBy(task, res.task, res.epoch, backend) ELSE task
    /\ poll' = IF PollOf(res) THEN NoPoll ELSE poll
    /\ res' = NoRes
    /\ UNCHANGED <<policy, ckpt, appr, exec, process, pipe, rt, inflight, watch, chat,
                   todo, stop, dec, history>>

\* The end of wait_worker: release_unadopted_resume.
ReleaseUnadopted ==
    /\ LoopFree
    /\ \E e \in watch :
        /\ ~(worker \in alive /\ cmd[worker].task = e.task)
        /\ ~(GenerationRunning /\ rt[worker].task = e.task)
        /\ task' = ReleasedBy(task, e.task, e.epoch, backend)
        /\ watch' = watch \ {e}
    /\ UNCHANGED <<policy, ckpt, appr, exec, process, pipe, rt, inflight, res, poll, chat,
                   todo, stop, dec, history>>

-----------------------------------------------------------------------------
(* The backend: decisions.                                                 *)

Answer(r, d) == [task |-> r.task, call |-> r.call, epoch |-> r.epoch, decision |-> d]

\* A decision on a request of a running task, up to the UPDATE of decide.
DecideLive ==
    /\ "decide" \in Requests /\ Serving
    /\ \E r \in appr, d \in {"approved", "denied"} :
        MayDecide(Swept, r, d) /\ dec' = Answer(r, d)
    /\ task' = Swept
    /\ UNCHANGED <<policy, ckpt, appr, exec, process, pipe, rt, inflight, res, watch, poll,
                   chat, todo, stop, history>>

\* resume_approval finds the fresh request of the resumed worker.
PollDecide ==
    /\ poll # NoPoll /\ res = NoRes /\ LoopFree
    /\ \E r \in RowsOf(Tasks) :
        /\ r.task = poll.task /\ r.call = poll.call /\ r.epoch = poll.epoch
        /\ Swept[r.task].state \in Live
        /\ dec' = IF MayDecide(Swept, r, poll.decision) THEN Answer(r, poll.decision) ELSE dec
    /\ task' = Swept
    /\ poll' = NoPoll
    /\ UNCHANGED <<policy, ckpt, appr, exec, process, pipe, rt, inflight, res, watch, chat,
                   todo, stop, history>>

\* The UPDATE of decide has no condition: it replaces what the row holds now.
DecideWrite ==
    /\ dec # NoDec
    /\ \E r \in appr :
        /\ Answer(r, dec.decision) = dec
        /\ appr' = Restate({r}, dec.decision)
    /\ granted' = IF dec.decision = "approved" THEN Grants(dec.task, {dec.call}, dec.epoch)
                  ELSE granted
    /\ dec' = NoDec
    /\ UNCHANGED <<policy, task, ckpt, exec, process, pipe, rt, inflight, res, watch, poll,
                   chat, todo, stop, effects, claimedAt, contested>>

\* It gives up after fifteen seconds and releases the dispatch, or at once
\* when the task has ended.
PollTimeout ==
    /\ poll # NoPoll /\ res = NoRes /\ LoopFree
    /\ task' = ReleasedBy(Swept, poll.task, poll.epoch, backend)
    /\ poll' = NoPoll
    /\ UNCHANGED <<policy, ckpt, appr, exec, process, pipe, rt, inflight, res, watch, chat,
                   todo, stop, dec, history>>

SetPolicy ==
    /\ "mode" \in Requests /\ Open
    /\ policy' \in Modes \ {policy}
    /\ UNCHANGED <<task, ckpt, appr, exec, process, pipe, rt, inflight, handler, history>>

-----------------------------------------------------------------------------
(* The backend: a new user message.                                        *)

SendStop(reason) ==
    sig' = IF worker \in alive /\ sig[worker] = "none"
           THEN [sig EXCEPT ![worker] = reason] ELSE sig

\* _prepare_chat_stream interrupts the running generation and waits for it.
MsgBegin ==
    /\ Serving /\ chat = "none"
    /\ Absent # {}
    /\ chat' = "wait"
    /\ IF GenerationRunning THEN SendStop("interrupt") ELSE UNCHANGED sig
    /\ UNCHANGED <<ledger, process, cmd, rt, inflight, res, watch, poll, todo, stop, dec, history>>

\* _wait_worker_idle ran into its timeout: the worker is terminated.
MsgTimeout ==
    /\ chat = "wait" /\ GenerationRunning /\ LoopFree
    /\ Dies(worker)
    /\ chat' = "over"
    /\ UNCHANGED <<res, watch, poll, todo, stop, dec>>

\* Mutant: the message starts beside the interrupted task.
MsgKeepsInterrupted ==
    /\ chat = "over" \/ (chat = "wait" /\ ~GenerationRunning)
    /\ LoopFree
    /\ task' = Swept /\ chat' = "retire" /\ todo' = {}
    /\ UNCHANGED <<policy, ckpt, appr, exec, process, pipe, rt, inflight, res, watch, poll,
                   stop, dec, history>>

\* _retire_interrupted_tasks up to its first await: the message is refused
\* while a task runs or the process of a suspended one still exists; claims
\* made before that was found are released.
MsgRetire ==
    /\ chat = "over" \/ (chat = "wait" /\ ~GenerationRunning)
    /\ LoopFree
    /\ LET orphans == {t \in Tasks : Swept[t].state = "suspended"}
           mine == {t \in orphans : MayRetire(Swept, t)}
       IN \/ /\ \E t \in Tasks : Saved(t) /\ Swept[t].state = "running"
             /\ task' = Swept
             /\ chat' = "none" /\ UNCHANGED todo
          \/ /\ \A t \in Tasks : Saved(t) => Swept[t].state # "running"
             /\ \A t \in mine : task[t].epoch < MaxEpoch
             /\ IF mine = orphans
                THEN /\ task' = RetiredBy(Swept, mine, backend)
                     /\ chat' = "retire" /\ todo' = mine
                ELSE /\ \E S \in SUBSET mine :
                         task' = RetiredBy(Swept, S, NoPid)
                     /\ chat' = "none" /\ UNCHANGED todo
    /\ UNCHANGED <<policy, ckpt, appr, exec, process, pipe, rt, inflight, res, watch, poll,
                   stop, dec, history>>

\* The round of each claimed task is closed and the task cancelled.
RetireOne ==
    /\ chat = "retire" /\ LoopFree
    /\ \E t \in todo :
        /\ SetTaskState({t}, "cancelled")
        /\ todo' = todo \ {t}
    /\ UNCHANGED <<process, pipe, rt, inflight, res, watch, poll, chat, stop, dec, history>>

\* An error on the way releases the claims that are left.
RetireFail ==
    /\ "error" \in Faults /\ chat = "retire" /\ todo # {} /\ LoopFree
    /\ task' = [t \in Tasks |->
                  IF t \in todo THEN ReleasedBy(task, t, task[t].epoch, backend)[t]
                  ELSE task[t]]
    /\ todo' = {} /\ chat' = "none"
    /\ UNCHANGED <<policy, ckpt, appr, exec, process, pipe, rt, inflight, res, watch, poll,
                   stop, dec, history>>

DispatchNew(w) ==
    /\ chat = "retire" /\ todo = {} /\ LoopFree
    /\ Dispatch(w, [kind |-> "new", task |-> NoTask])
    /\ chat' = "none"
    /\ UNCHANGED <<ledger, rt, inflight, res, watch, poll, todo, stop, dec, history>>

-----------------------------------------------------------------------------
(* The backend: the stop button, and giving one task up.                   *)

StopBegin ==
    /\ "stop" \in Requests /\ Serving /\ stop = NoStop
    /\ \E t \in {u \in Tasks : task[u].state \in Live} \union {NoTask} :
        /\ t = NoTask => GenerationRunning
        /\ stop' = [pc |-> "wait", task |-> t, left |-> {}]
    /\ SendStop("user")
    /\ UNCHANGED <<ledger, process, cmd, rt, inflight, res, watch, poll, chat, todo, dec, history>>

\* Mutant: the wait has no timeout.
StopWaitsOn == FALSE

StopTimeout ==
    /\ stop.pc = "wait" /\ GenerationRunning /\ LoopFree
    /\ Dies(worker)
    /\ stop' = [stop EXCEPT !.pc = "over"]
    /\ UNCHANGED <<res, watch, poll, chat, todo, dec>>

\* The writer has stopped: _stop_saved_permission_tasks collects the tasks.
StopCollect ==
    /\ stop.pc = "over" \/ (stop.pc = "wait" /\ ~GenerationRunning)
    /\ LoopFree
    /\ task' = Swept
    /\ stop' = [stop EXCEPT !.pc = "close",
                            !.left = {t \in Tasks : Swept[t].state \in Live}]
    /\ UNCHANGED <<policy, ckpt, appr, exec, process, pipe, rt, inflight, res, watch, poll,
                   chat, todo, dec, history>>

StopOne ==
    /\ stop.pc = "close" /\ LoopFree
    /\ \E t \in stop.left :
        /\ IF Saved(t) THEN SetTaskState({t}, "cancelled") ELSE UNCHANGED ledger
        /\ stop' = [stop EXCEPT !.left = stop.left \ {t}]
    /\ UNCHANGED <<process, pipe, rt, inflight, res, watch, poll, chat, todo, dec, history>>

\* cancel_task ends with its own task, checkpoint or not.
StopFinish ==
    /\ stop.pc = "close" /\ stop.left = {} /\ LoopFree
    /\ IF stop.task # NoTask THEN SetTaskState({stop.task}, "cancelled")
       ELSE UNCHANGED ledger
    /\ stop' = NoStop
    /\ UNCHANGED <<process, pipe, rt, inflight, res, watch, poll, chat, todo, dec, history>>

-----------------------------------------------------------------------------
WorkerStep(w) ==
    \/ StartNew(w) \/ AdoptResume(w) \/ DropCommand(w) \/ Bind(w) \/ Abandon(w)
    \/ Authorize(w) \/ AutoApprove(w) \/ Settle(w)
    \/ CheckCall(w) \/ ClaimCall(w) \/ StartBatch(w) \/ RunTool(w) \/ FinishCall(w)
    \/ Complete(w) \/ FailRound(w) \/ Interrupt(w) \/ Unwind(w)
    \/ ReadState(w) \/ Close(w) \/ LeaveLoop(w) \/ ExitWorker(w) \/ CrashWorker(w)

BackendStep ==
    \/ StartBackend \/ CrashBackend \/ BeginShutdown \/ SendShutdown \/ FinishShutdown
    \/ Sweep \/ ResumeTask \/ ResumeByDecision \/ FailDispatch \/ ReleaseUnadopted
    \/ \E w \in Pids : DispatchResume(w) \/ DispatchNew(w)
    \/ DecideLive \/ PollDecide \/ DecideWrite \/ PollTimeout \/ SetPolicy
    \/ MsgBegin \/ MsgTimeout \/ MsgRetire \/ RetireOne \/ RetireFail
    \/ StopBegin \/ StopTimeout \/ StopCollect \/ StopOne \/ StopFinish

Next == BackendStep \/ \E w \in Pids : WorkerStep(w)

Spec == Init /\ [][Next]_vars

-----------------------------------------------------------------------------
Commands ==
    {NoCmd, [kind |-> "new", task |-> NoTask]} \union [kind : {"resume"}, task : Tasks]

ProcessTypeOK ==
    /\ alive \subseteq born /\ born \subseteq Pids
    /\ backend \in Pids \union {NoPid} /\ worker \in Pids \union {NoPid}
    /\ down \in {"no", "begun", "sent"}
    /\ cmd \in [Pids -> Commands]
    /\ sig \in [Pids -> {"none", "user", "interrupt", "shutdown"}]

CallStates == {"new", "ask", "allow", "checked", "begun", "sent", "done"}

Runtime == [pc : {"idle", "starting", "ready", "batch", "cancelling", "finally", "closing",
                  "leaving"},
            task : Tasks \union {NoTask}, epoch : Nat,
            call : [Calls -> CallStates],
            why : {"none", "user", "interrupt", "suspend"},
            final : {"failed", "completed"},
            close : {"suspended", "cancelled", "failed", "completed"}]

HandlerTypeOK ==
    /\ res \in [task : Tasks \union {NoTask}, epoch : Nat]
    /\ watch \subseteq [task : Tasks \union {NoTask}, epoch : Nat]
    /\ poll \in [task : Tasks, call : Calls, epoch : Nat,
                 decision : {"approved", "denied"}] \union {NoPoll}
    /\ dec \in [task : Tasks, call : Calls, epoch : Nat,
                decision : {"approved", "denied"}] \union {NoDec}
    /\ chat \in {"none", "wait", "over", "retire"}
    /\ todo \subseteq Tasks
    /\ stop \in [pc : {"none", "wait", "over", "close"}, task : Tasks \union {NoTask},
                 left : SUBSET Tasks]

RuntimeTypeOK ==
    /\ rt \in [Pids -> Runtime]
    /\ inflight \subseteq Pids \X Tasks \X Calls

HistoryTypeOK ==
    /\ effects \in [Tasks -> [Calls -> Nat]]
    /\ claimedAt \in [Tasks -> [Calls -> Nat]]
    /\ granted \subseteq [task : Tasks, call : Calls, epoch : Nat]
    /\ contested \subseteq Tasks

\* Every variable keeps its type: the rows of the ledger, the runtime of each
\* process, the pipes and the coroutines of the backend.
TypeOK ==
    /\ StoreTypeOK /\ ProcessTypeOK /\ RuntimeTypeOK
    /\ HandlerTypeOK /\ HistoryTypeOK

-----------------------------------------------------------------------------
(* Safety.                                                                 *)

\* The effect of a tool call takes place at most once, over every crash,
\* resumption and orphaned worker (claim_execution, resume).
AtMostOnce == \A t \in Tasks, c \in Calls : effects[t][c] <= 1

\* A call that was claimed and has no recorded result holds its task back: the
\* task never runs again under a later epoch (resume, "unknown execution").
UnknownHoldsTask ==
    \A t \in Tasks, c \in Calls :
        exec[t][c].state = "executing" /\ task[t].state = "running"
            => task[t].epoch = claimedAt[t][c]

\* A call recorded as refused has not been executed and is not executing: a
\* later resumption replays the refusal (authorize, the cached result).
RefusedNeverRuns ==
    \A t \in Tasks, c \in Calls :
        exec[t][c].result \in {"denied", "cancelled"} =>
            /\ effects[t][c] = 0
            /\ \A p \in Pids : <<p, t, c>> \notin inflight

\* A call that needs approval is claimed only under an epoch in which the user
\* approved it or full control was on: an approval given before a resumption
\* is worth nothing after it.
ClaimsAreGranted ==
    \A t \in Tasks, c \in Risky :
        claimedAt[t][c] # 0 =>
            [task |-> t, call |-> c, epoch |-> claimedAt[t][c]] \in granted

\* At most one task of the session can be come back to: neither a message nor
\* a resumption nor a crash leaves two (_retire_interrupted_tasks).
OneRecoverable ==
    \A t, u \in Tasks :
        Saved(t) /\ Saved(u) /\ task[t].state \in Live /\ task[u].state \in Live => t = u

DenialStays(r) == r.state = "denied" => [r EXCEPT !.state = "approved"] \notin appr'

\* A denial stands: neither a later answer nor full control turns it into an
\* approval (decide; the condition on the UPDATE of the automatic approval).
DenialsStand == [][\A r \in appr : DenialStays(r)]_vars

\* The step that claims a call finds the task the claimer's and of its epoch.
ClaimIsCurrent(t, c) ==
    exec[t][c].state = "none" /\ exec'[t][c].state = "executing" =>
        /\ task[t].epoch = claimedAt'[t][c]
        /\ Executes(task[t].owner, t)

\* When a claim is written, the task is still the claimer's and of its epoch,
\* although claim_execution has checked that before and outside of the
\* transaction that writes.
ClaimsAreCurrent == [][\A t \in Tasks, c \in Calls : ClaimIsCurrent(t, c)]_vars

\* What the ledger and the tools have done with a call, as ToolOnce sees it.
OutcomeOf(i) ==
    LET x == exec[i[1]][i[2]]
    IN CASE x.state = "none" -> "open"
         [] x.state = "executing" -> "intent"
         [] x.state = "completed" ->
                IF claimedAt[i[1]][i[2]] = 0 THEN "refused" ELSE "done"

outcomes == [i \in Tasks \X Calls |-> OutcomeOf(i)]
runsOf == [i \in Tasks \X Calls |-> effects[i[1]][i[2]]]

Once == INSTANCE ToolOnce WITH
    Items <- Tasks \X Calls, outcome <- outcomes, runs <- runsOf

\* The ledger implements ToolOnce for every call of every task: intent before
\* effect, effect before result, refused calls never (begin_call, finish_call).
ImplementsOnce == Once!OnceSpec

-----------------------------------------------------------------------------
(* Liveness.                                                               *)

\* The coroutines and threads of a living process make progress, a read of a
\* closed pipe or a queued stop is noticed, the idle timer expires; the service
\* is started again and an open page polls it; the timeouts of the waiting
\* handlers expire.  Nothing is assumed of the user or of the faults.
WorkerFairness(w) ==
    /\ WF_vars(StartNew(w) \/ AdoptResume(w) \/ DropCommand(w) \/ Bind(w) \/ Abandon(w))
    /\ WF_vars(Authorize(w) \/ AutoApprove(w) \/ Settle(w) \/ CheckCall(w) \/ ClaimCall(w)
               \/ StartBatch(w) \/ FinishCall(w) \/ Complete(w))
    /\ WF_vars(RunTool(w))
    /\ WF_vars(Interrupt(w) \/ Unwind(w) \/ ReadState(w) \/ Close(w))
    /\ WF_vars(LeaveLoop(w) \/ ExitWorker(w))

BackendFairness ==
    /\ WF_vars(StartBackend)
    /\ WF_vars(SendShutdown \/ FinishShutdown)
    /\ WF_vars(Sweep)
    /\ WF_vars(\E w \in Pids : DispatchResume(w))
    /\ WF_vars(FailDispatch /\ ~Spare)
    /\ WF_vars(ReleaseUnadopted)
    /\ WF_vars(PollDecide \/ PollTimeout)
    /\ WF_vars(DecideWrite)
    /\ WF_vars(MsgRetire \/ MsgTimeout)
    /\ WF_vars(RetireOne \/ \E w \in Pids : DispatchNew(w))
    /\ WF_vars(StopTimeout \/ StopCollect \/ StopOne \/ StopFinish)

FairSpec == Spec /\ BackendFairness /\ \A w \in Pids : WorkerFairness(w)

AwaitsUser(t) ==
    \E w \in Pids, r \in appr :
        r.task = t /\ Awaited(w, r) /\ r.state = "pending"

\* No task is left running with nobody to look after it: it ends, is suspended,
\* or a living worker waits for the user's decision.
NoStrandedRunning ==
    \A t \in Tasks :
        task[t].state = "running" ~> task[t].state # "running" \/ AwaitsUser(t)

\* A suspended task can be resumed in the end: the process that owned it, the
\* backend's claims included, lets go of it.
SuspendedIsFreed ==
    \A t \in Tasks :
        LET held == task[t].state = "suspended" /\ task[t].owner \in alive
        IN held ~> ~held

\* A stop request ends, also against a worker that does not answer.
StopEnds == stop # NoStop ~> stop = NoStop
=============================================================================
