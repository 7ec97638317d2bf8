------------------------ MODULE ToolPermissionProofs ------------------------
(***************************************************************************)
(* The theorems of ToolPermission, for every value of its constants: any   *)
(* number of processes, tasks and calls, and any faults and requests.      *)
(***************************************************************************)
EXTENDS ToolPermissionSteps, TLAPS

USE CallAssumption, PidAssumption

-----------------------------------------------------------------------------
(* Claims and the tasks they hold.                                         *)

\* What becomes of the row of a call in a step.
SameClaim(t, c) ==
    exec'[t][c].state = exec[t][c].state /\ claimedAt'[t][c] = claimedAt[t][c]

\* Worker w, which executes the task, moves the call on.
MovedBy(w, t, c) ==
    /\ Executes(w, t) /\ UNCHANGED task
    /\ \/ exec'[t][c].state = "completed"
       \/ exec'[t][c].state = "executing" /\ claimedAt'[t][c] = rt[w].epoch

\* Recording a result and claiming apart, a worker moves no call on.
LEMMA OtherClaims ==
    ASSUME IInv, NEW w \in Pids, WorkerStep(w), ~Settle(w), ~FinishCall(w), ~ClaimCall(w),
           NEW t \in Tasks, NEW c \in Calls
    PROVE  SameClaim(t, c)
<1>1. exec[t][c] \in ExecutionRow
  BY DEF IInv, TypeOK, StoreTypeOK
<1>2. UNCHANGED claimedAt
  BY DEF WorkerStep, StartNew, AdoptResume, DropCommand, Bind, Abandon, Authorize, AutoApprove,
         CheckCall, StartBatch, RunTool, Complete, FailRound, Interrupt, Unwind, ReadState,
         Close, LeaveLoop, ExitWorker, CrashWorker, Dies, history
<1>3. UNCHANGED exec \/ \E S, s : SetTaskState(S, s)
  BY DEF WorkerStep, StartNew, AdoptResume, DropCommand, Bind, Abandon, Authorize, AutoApprove,
         CheckCall, StartBatch, RunTool, Complete, FailRound, Interrupt, Unwind, ReadState,
         Close, LeaveLoop, SuspendSession, ExitWorker, CrashWorker, Dies, ledger
<1>4. exec'[t][c] = exec[t][c] \/ exec'[t][c] = [exec[t][c] EXCEPT !.result = "null"]
  BY <1>3 DEF SetTaskState
<1> QED
  BY <1>1, <1>2, <1>4 DEF SameClaim, ExecutionRow

\* A step of a worker moves a call on only if the worker executes its task.
LEMMA WorkerClaims ==
    ASSUME IInv, NEW w \in Pids, WorkerStep(w), NEW t \in Tasks, NEW c \in Calls
    PROVE  SameClaim(t, c) \/ MovedBy(w, t, c)
<1>1. StoreTypeOK /\ HistoryTypeOK /\ exec[t][c] \in ExecutionRow
  BY DEF IInv, TypeOK, StoreTypeOK
<1>2. CASE Settle(w) \/ FinishCall(w)
  <2>1. PICK u, d, r :
          /\ u \in Tasks /\ d \in Calls
          /\ \/ u = rt[w].task /\ InBatch(w) /\ exec' = Completed(u, d, r)
             \/ UNCHANGED exec
          /\ UNCHANGED <<task, claimedAt>>
    <3>1. CASE Settle(w)
      <4>1. PICK r \in appr : /\ Awaited(w, r)
                              /\ UNCHANGED exec \/ \E x : exec' = Completed(r.task, r.call, x)
        BY <3>1 DEF Settle
      <4>2. r.task \in Tasks /\ r.call \in Calls
        BY <1>1 DEF StoreTypeOK, ApprovalRow
      <4> QED
        BY <3>1, <4>1, <4>2 DEF Settle, Awaited, history
    <3>2. CASE FinishCall(w)
      <4>1. InBatch(w) /\ UNCHANGED <<task, claimedAt>>
        BY <3>2 DEF FinishCall, history
      <4>2. PICK d \in Calls : exec' = Completed(rt[w].task, d, "ok")
        BY <3>2 DEF FinishCall
      <4> QED
        BY <4>1, <4>2, BatchOwner
    <3> QED
      BY <1>2, <3>1, <3>2
  <2>2. CASE UNCHANGED exec
    BY <2>1, <2>2 DEF SameClaim
  <2>3. CASE u = rt[w].task /\ InBatch(w) /\ exec' = Completed(u, d, r)
    <3>1. /\ exec'[u][d].state = "completed"
          /\ (t = u /\ c = d) \/ exec'[t][c] = exec[t][c]
      BY <1>1, <2>1, <2>3, CompletedAt
    <3> QED
      BY <2>1, <2>3, <3>1 DEF SameClaim, MovedBy, Executes, Executing, InBatch
  <2> QED
    BY <2>1, <2>2, <2>3
<1>3. CASE ClaimCall(w)
  <2>1. PICK u \in Tasks, d \in Calls :
          /\ u = rt[w].task
          /\ \/ exec' = Claimed(u, d) /\ claimedAt' = [claimedAt EXCEPT ![u][d] = rt[w].epoch]
             \/ UNCHANGED <<exec, claimedAt>>
    BY <1>3, BatchOwner DEF ClaimCall, InBatch
  <2>2. InBatch(w) /\ UNCHANGED task
    BY <1>3 DEF ClaimCall
  <2>3. CASE exec' = Claimed(u, d) /\ claimedAt' = [claimedAt EXCEPT ![u][d] = rt[w].epoch]
    <3>1. exec'[u][d].state = "executing" /\ ((t = u /\ c = d) \/ exec'[t][c] = exec[t][c])
      BY <1>1, <2>3 DEF Claimed, StoreTypeOK
    <3>2. claimedAt'[u][d] = rt[w].epoch /\ ((t = u /\ c = d) \/ claimedAt'[t][c] = claimedAt[t][c])
      BY <1>1, <2>3 DEF HistoryTypeOK
    <3> QED
      BY <2>1, <2>2, <3>1, <3>2 DEF SameClaim, MovedBy, Executes, Executing, InBatch
  <2> QED
    BY <2>1, <2>3 DEF SameClaim
<1>4. CASE ~Settle(w) /\ ~FinishCall(w) /\ ~ClaimCall(w)
  BY <1>4, OtherClaims
<1> QED
  BY <1>2, <1>3, <1>4

\* A step of the backend moves no call on.
LEMMA BackendClaims ==
    ASSUME IInv, BackendStep, NEW t \in Tasks, NEW c \in Calls
    PROVE  SameClaim(t, c)
<1>1. exec[t][c] \in ExecutionRow
  BY DEF IInv, TypeOK, StoreTypeOK
<1>2. UNCHANGED claimedAt
  BY DEF BackendStep, StartBackend, CrashBackend, FinishShutdown, BackendGone, BeginShutdown,
         SendShutdown, Sweep, ResumeTask, ResumeByDecision, Claim, DispatchResume, DispatchNew,
         FailDispatch, ReleaseUnadopted, DecideLive, PollDecide, DecideWrite, PollTimeout,
         SetPolicy, MsgBegin, MsgTimeout, Dies, MsgRetire, RetireOne, RetireFail, StopBegin,
         StopTimeout, StopCollect, StopOne, StopFinish, history
<1>3. exec'[t][c].state = exec[t][c].state
  <2>1. UNCHANGED exec \/ \E S : SetTaskState(S, "cancelled")
    BY BackendExec
  <2>2. exec'[t][c] = exec[t][c] \/ exec'[t][c] = [exec[t][c] EXCEPT !.result = "null"]
    BY <2>1 DEF SetTaskState
  <2> QED
    BY <1>1, <2>2 DEF ExecutionRow
<1> QED
  BY <1>2, <1>3 DEF SameClaim

\* How a task comes to run: it ran before under the same epoch, or it has an epoch
\* from now on and is new, or is resumed while no call of it is of unknown outcome.
Runs(t) ==
    task'[t].state = "running" =>
        \/ task[t].state = "running" /\ task'[t].epoch = task[t].epoch
        \/ task'[t].epoch # 0 /\ (~Exists(t) \/ ~Unknown(t))

\* A step of a worker makes no task run but a new one.
LEMMA WorkerRuns ==
    ASSUME IInv, NEW w \in Pids, WorkerStep(w), NEW t \in Tasks
    PROVE  Runs(t)
<1>1. StoreTypeOK /\ task \in [Tasks -> TaskRow] /\ rt[w] \in Runtime
  BY DEF IInv, TypeOK, StoreTypeOK, RuntimeTypeOK
<1>2. CASE UNCHANGED task
  BY <1>2 DEF Runs
<1>3. CASE StartNew(w)
  <2>1. NewTask \in Tasks /\ task[NewTask].state = "absent"
    BY <1>3 DEF StartNew, Absent, NewTask
  <2>2. IF t = NewTask THEN task'[t].epoch = 1 ELSE task'[t] = task[t]
    BY <1>1, <1>3 DEF StartNew, CreatedTask
  <2> QED
    BY <2>1, <2>2 DEF Runs, Exists
<1>4. CASE AdoptResume(w)
  <2>1. UNCHANGED task \/ task' = [task EXCEPT ![cmd[w].task].owner = w]
    BY <1>4 DEF AdoptResume, AdoptedBy
  <2>2. task'[t].state = task[t].state /\ task'[t].epoch = task[t].epoch
    BY <1>1, <2>1 DEF TaskRow
  <2> QED
    BY <2>2 DEF Runs
<1>5. ASSUME NEW S, NEW s \in {"suspended"} \union Terminal, task' = WithState(S, s)
      PROVE  Runs(t)
  BY <1>1, <1>5, WithStateKeeps DEF Runs, Terminal
<1>6. CASE Unwind(w)
  <2>1. UNCHANGED task \/ task' = WithState({rt[w].task}, "suspended")
    BY <1>6 DEF Unwind, SetTaskState, ledger
  <2> QED
    BY <1>2, <1>5, <2>1
<1>7. CASE Close(w)
  <2>1. task' = WithState({rt[w].task}, rt[w].close)
    BY <1>7 DEF Close, SetTaskState
  <2>2. rt[w].close \in {"suspended"} \union Terminal
    BY <1>1 DEF Runtime, Terminal
  <2> QED
    BY <1>5, <2>1, <2>2
<1>8. CASE Interrupt(w) \/ LeaveLoop(w)
  <2>1. UNCHANGED task \/ SuspendSession
    BY <1>8 DEF Interrupt, LeaveLoop, ledger
  <2> QED
    BY <1>2, <1>5, <2>1 DEF SuspendSession
<1> QED
  BY <1>2, <1>3, <1>4, <1>6, <1>7, <1>8
  DEF WorkerStep, DropCommand, Bind, Abandon, Authorize, AutoApprove, Settle, CheckCall,
      ClaimCall, StartBatch, RunTool, FinishCall, Complete, FailRound, ReadState, ExitWorker,
      CrashWorker, Dies, ledger

\* A step of the backend makes a task run only by resuming it, and resume refuses
\* a task with a call of unknown outcome.
LEMMA BackendRuns ==
    ASSUME IInv, BackendStep, NEW t \in Tasks
    PROVE  Runs(t)
<1>1. StoreTypeOK /\ Swept \in [Tasks -> TaskRow] /\ task \in [Tasks -> TaskRow]
  BY SweptType DEF IInv, TypeOK, StoreTypeOK
<1>2. Swept[t].epoch = task[t].epoch /\ (Swept[t].state = "running" => task[t].state = "running")
  <2>1. PICK S : Swept = WithState(S, "suspended")
    BY DEF Swept
  <2>2. Swept[t].epoch = task[t].epoch /\ Swept[t].state \in {task[t].state, "suspended"}
    BY <1>1, <2>1, WithStateKeeps
  <2> QED
    BY <2>2
<1>3. CASE UNCHANGED task
  BY <1>3 DEF Runs
<1>4. CASE task' = Swept
  BY <1>2, <1>4 DEF Runs
<1>5. ASSUME NEW u \in Tasks, NEW p, Claim(u, p)
      PROVE  Runs(t)
  <2>1. CASE t = u
    <3>1. ~Unknown(t)
      BY <1>5, <2>1 DEF Claim, MayResume
    <3>2. \/ task' = ResumedBy(Swept, t, backend)
          \/ \E e : task' = ReleasedBy(ResumedBy(Swept, t, backend), t, e, backend)
      BY <1>5, <2>1 DEF Claim
    <3>3. Swept[t].epoch \in Nat
      BY <1>1 DEF TaskRow
    <3>4. /\ ResumedBy(Swept, t, backend)[t].epoch = Swept[t].epoch + 1
          /\ t \in DOMAIN ResumedBy(Swept, t, backend)
      BY <1>1 DEF ResumedBy
    <3>5. task'[t].epoch # 0
      <4>1. CASE task' = ResumedBy(Swept, t, backend)
        BY <3>3, <3>4, <4>1
      <4>2. ASSUME NEW e, task' = ReleasedBy(ResumedBy(Swept, t, backend), t, e, backend)
            PROVE  task'[t].epoch = ResumedBy(Swept, t, backend)[t].epoch
        BY <1>1, <4>2 DEF ResumedBy, ReleasedBy
      <4> QED
        BY <3>2, <3>3, <3>4, <4>1, <4>2
    <3> QED
      BY <3>1, <3>5 DEF Runs
  <2>2. CASE t # u
    <3>1. task'[t] = Swept[t]
      BY <1>1, <1>5, <2>2, ResumedByType DEF Claim, ResumedBy, ReleasedBy
    <3> QED
      BY <1>2, <3>1 DEF Runs
  <2> QED
    BY <2>1, <2>2
<1>6. ASSUME NEW tasks \in {task, Swept}, NEW u, NEW e, task' = ReleasedBy(tasks, u, e, backend)
      PROVE  Runs(t)
  <2>1. task'[t] = tasks[t] \/ task'[t].state = "suspended"
    BY <1>1, <1>6 DEF ReleasedBy, TaskRow
  <2> QED
    BY <1>2, <1>6, <2>1 DEF Runs
<1>7. CASE MsgRetire
  <2>1. task' = Swept \/ \E S, me : /\ \A u \in S : MayRetire(Swept, u)
                                    /\ task' = RetiredBy(Swept, S, me)
    BY <1>7 DEF MsgRetire
  <2> QED
    BY <1>1, <1>2, <1>4, <2>1, RetiredByKeeps DEF MayRetire, Runs
<1>8. CASE RetireFail
  <2>1. task'[t] = task[t] \/ task'[t] = ReleasedBy(task, t, task[t].epoch, backend)[t]
    BY <1>8 DEF RetireFail
  <2>2. task'[t] = task[t] \/ task'[t].state = "suspended"
    BY <1>1, <2>1 DEF ReleasedBy, TaskRow
  <2> QED
    BY <2>2 DEF Runs
<1>9. ASSUME NEW S, SetTaskState(S, "cancelled")
      PROVE  Runs(t)
  BY <1>1, <1>9, WithStateKeeps DEF SetTaskState, Runs
<1>10. CASE SuspendSession
  BY <1>1, <1>10, WithStateKeeps DEF SuspendSession, Runs
<1>11. CASE ResumeTask
  BY <1>5, <1>11 DEF ResumeTask
<1>12. CASE ResumeByDecision
  <2>1. \A r \in RowsOf(Tasks) : r.task \in Tasks
    BY DEF RowsOf
  <2> QED
    BY <1>5, <1>12, <2>1 DEF ResumeByDecision
<1>13. CASE FailDispatch \/ ReleaseUnadopted \/ PollTimeout
  BY <1>3, <1>6, <1>13 DEF FailDispatch, ReleaseUnadopted, PollTimeout
<1>14. CASE RetireOne \/ StopOne \/ StopFinish
  <2>1. UNCHANGED task \/ \E S : SetTaskState(S, "cancelled")
    BY <1>14 DEF RetireOne, StopOne, StopFinish, ledger
  <2> QED
    BY <1>3, <1>9, <2>1
<1>15. ASSUME ~(ResumeTask \/ ResumeByDecision \/ FailDispatch \/ ReleaseUnadopted \/ PollTimeout
                \/ RetireOne \/ StopOne \/ StopFinish \/ MsgRetire \/ RetireFail)
       PROVE  Runs(t)
  BY <1>3, <1>4, <1>10, <1>15
  DEF BackendStep, StartBackend, CrashBackend, FinishShutdown, BackendGone, BeginShutdown,
      SendShutdown, Sweep, DispatchResume, DispatchNew, DecideLive, PollDecide, DecideWrite,
      SetPolicy, MsgBegin, MsgTimeout, Dies, StopBegin, StopTimeout, StopCollect, ledger
<1> QED
  BY <1>7, <1>8, <1>11, <1>12, <1>13, <1>14, <1>15

\* Every step keeps HoldInv.
LEMMA HoldStep ==
    ASSUME IInv, Next
    PROVE  HoldInv'
<1>1. HoldInv /\ OwnerInv
  BY DEF IInv
<1> SUFFICES ASSUME NEW t \in Tasks, NEW c \in Calls
             PROVE  /\ exec'[t][c].state = "executing" /\ task'[t].state = "running"
                         => task'[t].epoch = claimedAt'[t][c]
                    /\ ~Exists(t)' => exec'[t][c].state = "none"
  BY DEF HoldInv, UnknownHoldsTask
<1>2. SameClaim(t, c) \/ \E w \in Pids : MovedBy(w, t, c)
  BY WorkerClaims, BackendClaims DEF Next
<1>3. Runs(t)
  BY WorkerRuns, BackendRuns DEF Next
<1>4. Exists(t) => Exists(t)'
  <2>1. ASSUME NEW w \in Pids, WorkerStep(w)
        PROVE  Exists(t) => Exists(t)'
    <3>1. CASE StartNew(w) \/ AdoptResume(w)
      <4>1. task \in [Tasks -> TaskRow]
        BY DEF IInv, TypeOK, StoreTypeOK
      <4>2. CASE StartNew(w)
        BY <4>1, <4>2 DEF StartNew, CreatedTask, Exists
      <4>3. CASE AdoptResume(w)
        BY <4>1, <4>3 DEF AdoptResume, AdoptedBy, Exists, TaskRow
      <4> QED
        BY <3>1, <4>2, <4>3
    <3>2. CASE ~StartNew(w) /\ ~AdoptResume(w)
      BY <2>1, <3>2, WorkerTask
    <3> QED
      BY <3>1, <3>2
  <2> QED
    BY <2>1, BackendTask DEF Next, Keeps
<1>5. CASE SameClaim(t, c)
  <2>1. ~Exists(t)' => exec'[t][c].state = "none"
    BY <1>1, <1>4, <1>5 DEF HoldInv, SameClaim
  <2>2. ASSUME exec'[t][c].state = "executing", task'[t].state = "running"
        PROVE  task'[t].epoch = claimedAt'[t][c]
    <3>1. exec[t][c].state = "executing" /\ Exists(t) /\ Unknown(t)
      BY <1>1, <1>5, <2>2 DEF HoldInv, SameClaim, Unknown
    <3>2. task[t].state = "running" /\ task'[t].epoch = task[t].epoch
      BY <1>3, <2>2, <3>1 DEF Runs
    <3> QED
      BY <1>1, <1>5, <3>1, <3>2 DEF HoldInv, UnknownHoldsTask, SameClaim
  <2> QED
    BY <2>1, <2>2
<1>6. ASSUME NEW w \in Pids, MovedBy(w, t, c)
      PROVE  /\ exec'[t][c].state = "executing" => task'[t].epoch = claimedAt'[t][c]
             /\ Exists(t)'
  <2>1. Executes(w, t) /\ UNCHANGED task
    BY <1>6 DEF MovedBy
  <2>2. task[t].epoch = rt[w].epoch /\ Exists(t)
    BY <1>1, <2>1 DEF OwnerInv, Executes, Executing, Busy
  <2> QED
    BY <1>4, <1>6, <2>1, <2>2 DEF MovedBy
<1> QED
  BY <1>2, <1>5, <1>6
-----------------------------------------------------------------------------
(* The calls as ToolOnce sees them.                                        *)

\* A step changes nothing of the call that ToolOnce sees.
Still(t, c) == SameClaim(t, c) /\ effects'[t][c] = effects[t][c]

Move(t, c, from, to) == exec[t][c].state = from /\ exec'[t][c].state = to

\* The four things that may happen to a call.
Intended(t, c) ==
    Move(t, c, "none", "executing") /\ claimedAt'[t][c] # 0 /\ effects'[t][c] = effects[t][c]

Refused(t, c) ==
    /\ Move(t, c, "none", "completed")
    /\ claimedAt'[t][c] = claimedAt[t][c] /\ effects'[t][c] = effects[t][c]

HasRun(t, c) ==
    Move(t, c, "executing", "executing") /\ effects[t][c] = 0 /\ effects'[t][c] = 1
        /\ claimedAt'[t][c] = claimedAt[t][c]

Answered(t, c) ==
    Move(t, c, "executing", "completed") /\ effects[t][c] = 1 /\ effects'[t][c] = 1
        /\ claimedAt'[t][c] = claimedAt[t][c]

Moves(t, c) == Intended(t, c) \/ Refused(t, c) \/ HasRun(t, c) \/ Answered(t, c)

MovesOnly(t, c) ==
    /\ Moves(t, c)
    /\ \A u \in Tasks, d \in Calls : (u = t /\ d = c) \/ Still(u, d)

\* A step moves one call of one task, or none.
OneMove ==
    \/ \A t \in Tasks, c \in Calls : Still(t, c)
    \/ \E t \in Tasks, c \in Calls : MovesOnly(t, c)

\* Process p sends nothing, and loses no thread while it is in its batch.
QuietSent(p) ==
    InBatch(p)' =>
        /\ \A t \in Tasks, c \in Calls : <<p, t, c>> \in inflight => <<p, t, c>> \in inflight'
        /\ \A c \in Calls : rt'[p].call[c] = "sent" =>
            InBatch(p) /\ rt[p].call[c] = "sent" /\ rt'[p].task = rt[p].task

\* A step that moves nothing and sends nothing keeps SentInv.
LEMMA StillStep ==
    ASSUME IInv, SentInv, inflight' \subseteq inflight,
           \A t \in Tasks, c \in Calls : Still(t, c),
           \A p \in Pids : QuietSent(p)
    PROVE  OneMove /\ SentInv'
<1>1. OneMove
  BY DEF OneMove
<1>2. ASSUME NEW p \in Pids, InBatch(p)', NEW c \in Calls
      PROVE  SentCall(p, c)'
  <2>1. CASE rt'[p].call[c] # "sent"
    BY <2>1 DEF SentCall
  <2>2. CASE rt'[p].call[c] = "sent"
    <3>1. InBatch(p) /\ rt[p].call[c] = "sent" /\ rt'[p].task = rt[p].task
      BY <1>2, <2>2 DEF QuietSent
    <3>2. PICK t \in Tasks : t = rt[p].task
      BY <3>1, BatchOwner
    <3>3. exec[t][c].state = "executing" /\ (effects[t][c] = 1 \/ <<p, t, c>> \in inflight)
      BY <3>1, <3>2 DEF SentInv, SentCall
    <3>4. Still(t, c) /\ (<<p, t, c>> \in inflight => <<p, t, c>> \in inflight')
      BY <1>2 DEF QuietSent
    <3> QED
      BY <3>1, <3>2, <3>3, <3>4 DEF SentCall, Still, SameClaim
  <2> QED
    BY <2>1, <2>2
<1>3. ASSUME NEW x \in inflight'
      PROVE  exec'[x[2]][x[3]].state = "executing"
  <2>1. x \in inflight /\ x[2] \in Tasks /\ x[3] \in Calls
    BY DEF IInv, TypeOK, RuntimeTypeOK
  <2> QED
    BY <2>1 DEF SentInv, Still, SameClaim
<1> QED
  BY <1>1, <1>2, <1>3 DEF SentInv

\* The steps of the backend move nothing.
LEMMA BackendMove ==
    ASSUME IInv, SentInv, BackendStep
    PROVE  OneMove /\ SentInv'
<1>1. UNCHANGED effects
  BY DEF BackendStep, StartBackend, CrashBackend, FinishShutdown, BackendGone, BeginShutdown,
         SendShutdown, Sweep, ResumeTask, ResumeByDecision, Claim, DispatchResume, DispatchNew,
         FailDispatch, ReleaseUnadopted, DecideLive, PollDecide, DecideWrite, PollTimeout,
         SetPolicy, MsgBegin, MsgTimeout, Dies, MsgRetire, RetireOne, RetireFail, StopBegin,
         StopTimeout, StopCollect, StopOne, StopFinish, history
<1>2. \A t \in Tasks, c \in Calls : Still(t, c)
  BY <1>1, BackendClaims DEF Still
<1>3. ASSUME NEW p \in Pids
      PROVE  QuietSent(p)
  <2>1. /\ p \notin alive => rt[p].pc = "idle"
        /\ rt'[p] = rt[p] \/ rt'[p].pc = "idle"
    BY BackendRuntime
  <2>2. /\ rt \in [Pids -> Runtime] /\ Idle.pc = "idle"
    BY DEF IInv, TypeOK, RuntimeTypeOK, Idle
  <2>3. rt'[p].pc = "idle" \/ \A t, c : <<p, t, c>> \in inflight => <<p, t, c>> \in inflight'
    <3>1. CASE CrashBackend \/ FinishShutdown
      <4>1. PICK dead : BackendGone(dead)
        BY <3>1 DEF CrashBackend, FinishShutdown
      <4> QED
        BY <2>2, <4>1 DEF BackendGone
    <3>2. CASE MsgTimeout \/ StopTimeout
      <4>1. Dies(worker)
        BY <3>2 DEF MsgTimeout, StopTimeout
      <4> QED
        BY <2>2, <4>1 DEF Dies
    <3>3. ~(CrashBackend \/ FinishShutdown \/ MsgTimeout \/ StopTimeout) => UNCHANGED inflight
      BY DEF BackendStep, StartBackend, BeginShutdown, SendShutdown, Sweep, ResumeTask,
             ResumeByDecision, Claim, DispatchResume, DispatchNew, FailDispatch,
             ReleaseUnadopted, DecideLive, PollDecide, DecideWrite, PollTimeout, SetPolicy,
             MsgBegin, MsgRetire, RetireOne, RetireFail, StopBegin, StopCollect, StopOne,
             StopFinish
    <3> QED
      BY <3>1, <3>2, <3>3
  <2> QED
    BY <2>1, <2>3 DEF QuietSent, InBatch
<1> QED
  BY <1>2, <1>3, BackendRuntime, StillStep

\* Nor do most steps of a worker.
LEMMA OtherWorkerMove ==
    ASSUME IInv, SentInv, NEW w \in Pids, WorkerStep(w), ~Authorize(w), ~Settle(w),
           ~CheckCall(w), ~ClaimCall(w), ~StartBatch(w), ~RunTool(w), ~FinishCall(w)
    PROVE  OneMove /\ SentInv'
<1>1. /\ UNCHANGED effects /\ alive' \subseteq alive
      /\ \/ UNCHANGED inflight
         \/ inflight' = {x \in inflight : x[1] # w} /\ rt' = [rt EXCEPT ![w] = Idle]
  BY DEF WorkerStep, StartNew, AdoptResume, DropCommand, Bind, Abandon, AutoApprove, Complete,
         FailRound, Interrupt, Unwind, ReadState, Close, LeaveLoop, ExitWorker, CrashWorker,
         Dies, process, history
<1>2. \A t \in Tasks, c \in Calls : Still(t, c)
  BY <1>1, OtherClaims DEF Still
<1>3. /\ \A p \in Pids \ {w} : rt'[p] = rt[p]
      /\ rt'[w] = rt[w] \/ rt'[w].pc # "batch"
  BY WorkerLocal, OtherWorkerBatch
<1>4. rt \in [Pids -> Runtime] /\ Idle.pc # "batch"
  BY DEF IInv, TypeOK, RuntimeTypeOK, Idle
<1>5. ASSUME NEW p \in Pids
      PROVE  QuietSent(p)
  BY <1>1, <1>3, <1>4 DEF QuietSent, InBatch
<1> QED
  BY <1>1, <1>2, <1>5, StillStep

\* Asking for the calls, and the reads before a claim, send nothing.
LEMMA AskMove ==
    ASSUME IInv, SentInv, NEW w \in Pids, Authorize(w) \/ CheckCall(w)
    PROVE  OneMove /\ SentInv'
<1>1. /\ WorkerStep(w) /\ UNCHANGED <<effects, alive, exec, claimedAt>>
      /\ RuntimeTypeOK /\ StoreTypeOK /\ CallInv /\ rt[w] \in Runtime
  BY DEF WorkerStep, Authorize, CheckCall, process, ledger, history, IInv, TypeOK, RuntimeTypeOK
<1>2. \A t \in Tasks, c \in Calls : Still(t, c)
  BY <1>1 DEF Still, SameClaim
<1>3. \A p \in Pids \ {w} : rt'[p] = rt[p]
  BY <1>1, WorkerLocal
<1>4. UNCHANGED inflight /\ QuietSent(w)
  <2>1. CASE Authorize(w)
    <3>1. \/ rt'[w].pc = "finally"
          \/ \A c \in Calls : rt'[w].call[c] # "sent"
      BY <1>1, <2>1 DEF Authorize, Fail, RuntimeTypeOK, Runtime
    <3>2. UNCHANGED inflight
      BY <2>1 DEF Authorize
    <3> QED
      BY <3>1, <3>2 DEF QuietSent, InBatch
  <2>2. CASE CheckCall(w)
    <3>1. InBatch(w)
      BY <2>2 DEF CheckCall, NextCall
    <3>2. PICK t \in Tasks, c \in Calls :
            /\ t = rt[w].task /\ rt[w].call[c] = "allow"
            /\ \/ exec[t][c] # NoExecution
               \/ UNCHANGED inflight /\ (rt' = SetCalls(w, {c}, "checked") \/ Fail(w))
      BY <2>2, <3>1, BatchOwner DEF CheckCall
    <3>3. exec[t][c].state = "none" /\ exec[t][c].result = "null"
      BY <1>1, <3>1, <3>2 DEF CallInv, BatchInv, BatchCall
    <3>4. exec[t][c] = NoExecution
      BY <1>1, <3>3 DEF StoreTypeOK, ExecutionRow, NoExecution
    <3>5. CASE rt' = SetCalls(w, {c}, "checked") /\ UNCHANGED inflight
      <4>1. /\ SetCalls(w, {c}, "checked")[w].task = rt[w].task
            /\ \A d \in Calls : SetCalls(w, {c}, "checked")[w].call[d]
                                = IF d \in {c} THEN "checked" ELSE rt[w].call[d]
        BY <1>1, SetCallsAt
      <4> QED
        BY <3>1, <3>5, <4>1 DEF QuietSent
    <3>6. CASE Fail(w) /\ UNCHANGED inflight
      <4>1. rt'[w].pc = "finally"
        BY <1>1, <3>6 DEF Fail, RuntimeTypeOK, Runtime
      <4> QED
        BY <3>6, <4>1 DEF QuietSent, InBatch
    <3> QED
      BY <3>2, <3>4, <3>5, <3>6
  <2> QED
    BY <2>1, <2>2
<1>5. ASSUME NEW p \in Pids
      PROVE  QuietSent(p)
  BY <1>1, <1>3, <1>4 DEF QuietSent, InBatch
<1> QED
  BY <1>2, <1>4, <1>5, StillStep

\* What a move of one call leaves of SentInv: the batches of the other workers and
\* their threads.
LEMMA OneCallSent ==
    ASSUME IInv, SentInv, NEW w \in Pids, InBatch(w), NEW t \in Tasks, t = rt[w].task,
           NEW c \in Calls, UNCHANGED <<alive, effects>>,
           \A p \in Pids \ {w} : rt'[p] = rt[p],
           rt'[w].task = t,
           \A d \in Calls \ {c} : rt'[w].call[d] = rt[w].call[d],
           \A u \in Tasks, d \in Calls : (u = t /\ d = c) \/ exec'[u][d] = exec[u][d],
           inflight' \in {inflight, inflight \union {<<w, t, c>>}},
           <<w, t, c>> \in inflight' => exec'[t][c].state = "executing",
           \A p \in Pids \ {w} : <<p, t, c>> \notin inflight,
           SentCall(w, c)'
    PROVE  SentInv'
<1>1. RuntimeTypeOK
  BY DEF IInv, TypeOK
<1>2. ASSUME NEW p \in Pids, InBatch(p)', NEW d \in Calls
      PROVE  SentCall(p, d)'
  <2>1. CASE p = w /\ d = c
    BY <2>1
  <2>2. CASE p = w /\ d # c
    <3>1. SentCall(w, d) /\ exec'[t][d] = exec[t][d] /\ rt'[w].call[d] = rt[w].call[d]
      BY <2>2 DEF SentInv
    <3> QED
      BY <2>2, <3>1 DEF SentCall
  <2>3. CASE p # w
    <3>1. InBatch(p) /\ rt'[p] = rt[p]
      BY <1>2, <2>3 DEF InBatch
    <3>2. PICK u \in Tasks : u = rt[p].task /\ u # t
      BY <2>3, <3>1, BatchOwner
    <3>3. SentCall(p, d) /\ exec'[u][d] = exec[u][d]
      BY <3>1, <3>2 DEF SentInv
    <3> QED
      BY <3>1, <3>2, <3>3 DEF SentCall
  <2> QED
    BY <2>1, <2>2, <2>3
<1>3. ASSUME NEW x \in inflight'
      PROVE  exec'[x[2]][x[3]].state = "executing"
  <2>1. CASE x = <<w, t, c>>
    BY <2>1
  <2>2. CASE x \in inflight /\ x # <<w, t, c>>
    <3>1. /\ x = <<x[1], x[2], x[3]>>
          /\ x[1] \in Pids /\ x[2] \in Tasks /\ x[3] \in Calls
      BY <1>1, <2>2 DEF RuntimeTypeOK
    <3>2. ~(x[2] = t /\ x[3] = c)
      BY <2>2, <3>1
    <3> QED
      BY <2>2, <3>1, <3>2 DEF SentInv
  <2> QED
    BY <2>1, <2>2
<1> QED
  BY <1>2, <1>3 DEF SentInv

\* The end of a wait allows the call, or records the refusal of an open one.
LEMMA SettleMove ==
    ASSUME IInv, SentInv, NEW w \in Pids, Settle(w)
    PROVE  OneMove /\ SentInv'
<1>1. StoreTypeOK /\ RuntimeTypeOK /\ CallInv
  BY DEF IInv, TypeOK
<1>2. UNCHANGED <<alive, inflight, effects, claimedAt>> /\ WorkerStep(w)
  BY DEF Settle, WorkerStep, process, history
<1>3. PICK t \in Tasks, c \in Calls :
        /\ InBatch(w) /\ t = rt[w].task /\ rt[w].call[c] = "ask"
        /\ \/ rt' = SetCalls(w, {c}, "allow") /\ UNCHANGED exec
           \/ \E x : rt' = SetCalls(w, {c}, "done") /\ exec' = Completed(t, c, x)
  <2>1. PICK r \in appr :
          /\ Awaited(w, r)
          /\ \/ rt' = SetCalls(w, {r.call}, "allow") /\ UNCHANGED exec
             \/ \E x : /\ rt' = SetCalls(w, {r.call}, "done")
                       /\ exec' = Completed(r.task, r.call, x)
    BY DEF Settle
  <2>2. r.task \in Tasks /\ r.call \in Calls
    BY <1>1 DEF StoreTypeOK, ApprovalRow
  <2> QED
    BY <2>1, <2>2 DEF Awaited
<1>4. \A p \in Pids \ {w} : rt'[p] = rt[p]
  BY <1>2, WorkerLocal
<1>5. exec[t][c].state = "none" /\ Untouched(t, c)
  BY <1>1, <1>3 DEF CallInv, BatchInv, BatchCall
<1>6. /\ rt'[w].task = t /\ rt'[w].call[c] # "sent"
      /\ \A d \in Calls \ {c} : rt'[w].call[d] = rt[w].call[d]
  <2>1. PICK s \in {"allow", "done"} : rt' = SetCalls(w, {c}, s)
    BY <1>3
  <2>2. /\ SetCalls(w, {c}, s)[w].task = rt[w].task
        /\ \A d \in Calls : SetCalls(w, {c}, s)[w].call[d] = IF d \in {c} THEN s ELSE rt[w].call[d]
    BY <1>1, SetCallsAt
  <2> QED
    BY <1>3, <2>1, <2>2
<1>7. /\ \/ UNCHANGED exec
         \/ exec'[t][c].state = "completed"
      /\ \A u \in Tasks, d \in Calls : (u = t /\ d = c) \/ exec'[u][d] = exec[u][d]
  <2>1. CASE UNCHANGED exec
    BY <2>1
  <2>2. ASSUME NEW x, exec' = Completed(t, c, x)
        PROVE  /\ exec'[t][c].state = "completed"
               /\ \A u \in Tasks, d \in Calls : (u = t /\ d = c) \/ exec'[u][d] = exec[u][d]
    BY <1>1, <2>2, CompletedAt
  <2> QED
    BY <1>3, <2>1, <2>2
<1>8. OneMove
  <2>1. CASE UNCHANGED exec
    BY <1>2, <2>1 DEF OneMove, Still, SameClaim
  <2>2. CASE exec'[t][c].state = "completed"
    <3>1. Refused(t, c)
      BY <1>2, <1>5, <2>2 DEF Refused, Move
    <3>2. \A u \in Tasks, d \in Calls : (u = t /\ d = c) \/ Still(u, d)
      BY <1>2, <1>7 DEF Still, SameClaim
    <3> QED
      BY <3>1, <3>2 DEF OneMove, MovesOnly, Moves
  <2> QED
    BY <1>7, <2>1, <2>2
<1>9. SentInv'
  <2>1. \A p \in Pids : <<p, t, c>> \notin inflight
    BY <1>5 DEF Untouched
  <2>2. SentCall(w, c)'
    BY <1>6 DEF SentCall
  <2> QED
    BY <1>2, <1>3, <1>4, <1>6, <1>7, <2>1, <2>2, OneCallSent
<1> QED
  BY <1>8, <1>9

\* finish_call records the result of a call whose effect has taken place.
LEMMA FinishMove ==
    ASSUME IInv, SentInv, NEW w \in Pids, FinishCall(w)
    PROVE  OneMove /\ SentInv'
<1>1. StoreTypeOK /\ RuntimeTypeOK /\ CallInv
  BY DEF IInv, TypeOK
<1>2. UNCHANGED <<alive, inflight, effects, claimedAt>> /\ WorkerStep(w) /\ InBatch(w)
  BY DEF FinishCall, WorkerStep, process, history
<1>3. PICK t \in Tasks, c \in Calls :
        /\ t = rt[w].task
        /\ rt[w].call[c] = "sent" /\ <<w, t, c>> \notin inflight
        /\ rt' = SetCalls(w, {c}, "done") /\ exec' = Completed(t, c, "ok")
  BY <1>2, BatchOwner DEF FinishCall, StatusOf
<1>4. \A p \in Pids \ {w} : rt'[p] = rt[p]
  BY <1>2, WorkerLocal
<1>5. exec[t][c].state = "executing" /\ effects[t][c] = 1
  <2>1. SentCall(w, c)
    BY <1>2 DEF SentInv
  <2> QED
    BY <1>3, <2>1 DEF SentCall
<1>6. /\ rt'[w].task = t /\ rt'[w].call[c] # "sent"
      /\ \A d \in Calls \ {c} : rt'[w].call[d] = rt[w].call[d]
  <2>1. /\ SetCalls(w, {c}, "done")[w].task = rt[w].task
        /\ \A d \in Calls :
             SetCalls(w, {c}, "done")[w].call[d] = IF d \in {c} THEN "done" ELSE rt[w].call[d]
    BY <1>1, SetCallsAt
  <2> QED
    BY <1>3, <2>1
<1>7. /\ exec'[t][c].state = "completed"
      /\ \A u \in Tasks, d \in Calls : (u = t /\ d = c) \/ exec'[u][d] = exec[u][d]
  <2>1. exec' = Completed(t, c, "ok")
    BY <1>3
  <2>2. /\ Completed(t, c, "ok")[t][c].state = "completed"
        /\ \A u \in Tasks, d \in Calls :
             (u = t /\ d = c) \/ Completed(t, c, "ok")[u][d] = exec[u][d]
    BY <1>1, CompletedAt
  <2> QED
    BY <2>1, <2>2
<1>8. OneMove
  BY <1>2, <1>5, <1>7 DEF OneMove, MovesOnly, Moves, Answered, Move, Still, SameClaim
<1>9. SentInv'
  <2>1. \A p \in Pids : <<p, t, c>> \notin inflight
    <3> SUFFICES ASSUME NEW p \in Pids, <<p, t, c>> \in inflight
                 PROVE  FALSE
      OBVIOUS
    <3>1. effects[<<p, t, c>>[2]][<<p, t, c>>[3]] = 0
      BY <1>1 DEF CallInv, ThreadInv
    <3> QED
      BY <1>5, <3>1
  <2>2. SentCall(w, c)'
    BY <1>6 DEF SentCall
  <2> QED
    BY <1>2, <1>3, <1>4, <1>6, <1>7, <2>1, <2>2, OneCallSent
<1> QED
  BY <1>8, <1>9

\* The INSERT of claim_execution is the intent, under an epoch of the task.
LEMMA ClaimMove ==
    ASSUME IInv, SentInv, ClaimInv, NEW w \in Pids, ClaimCall(w)
    PROVE  OneMove /\ SentInv'
<1>1. StoreTypeOK /\ RuntimeTypeOK /\ CallInv /\ HistoryTypeOK
  BY DEF IInv, TypeOK
<1>2. UNCHANGED <<alive, effects>> /\ WorkerStep(w) /\ InBatch(w)
  BY DEF ClaimCall, WorkerStep, process
<1>3. \A p \in Pids \ {w} : rt'[p] = rt[p]
  BY <1>2, WorkerLocal
<1>4. PICK t \in Tasks, c \in Calls :
        /\ t = rt[w].task
        /\ \/ /\ exec[t][c] = NoExecution /\ exec' = Claimed(t, c) /\ Begun(w, c)
              /\ claimedAt' = [claimedAt EXCEPT ![t][c] = rt[w].epoch]
           \/ Fail(w) /\ UNCHANGED <<exec, claimedAt, inflight>>
  BY <1>2, BatchOwner DEF ClaimCall
<1>5. CASE Fail(w) /\ UNCHANGED <<exec, claimedAt, inflight>>
  <2>1. \A u \in Tasks, d \in Calls : Still(u, d)
    BY <1>2, <1>5 DEF Still, SameClaim
  <2>2. rt'[w].pc = "finally"
    BY <1>1, <1>5 DEF Fail, RuntimeTypeOK, Runtime
  <2>3. \A p \in Pids : QuietSent(p)
    BY <1>2, <1>3, <1>5, <2>2 DEF QuietSent, InBatch
  <2> QED
    BY <1>5, <2>1, <2>3, StillStep
<1>6. CASE /\ exec[t][c] = NoExecution /\ exec' = Claimed(t, c) /\ Begun(w, c)
           /\ claimedAt' = [claimedAt EXCEPT ![t][c] = rt[w].epoch]
  <2>1. exec[t][c].state = "none" /\ Untouched(t, c)
    BY <1>1, <1>6 DEF CallInv, NoExecution
  <2>2. rt[w].epoch # 0
    BY <1>2 DEF ClaimInv, InBatch, Busy
  <2>3. /\ exec'[t][c].state = "executing" /\ claimedAt'[t][c] # 0
        /\ \A u \in Tasks, d \in Calls :
             (u = t /\ d = c) \/ (exec'[u][d] = exec[u][d] /\ claimedAt'[u][d] = claimedAt[u][d])
    BY <1>1, <1>6, <2>2 DEF Claimed, StoreTypeOK, HistoryTypeOK
  <2>4. PICK s \in {"begun", "sent"} :
          /\ rt' = SetCalls(w, {c}, s)
          /\ inflight' = IF s = "sent" THEN inflight \union {<<w, t, c>>} ELSE inflight
    BY <1>4, <1>6 DEF Begun
  <2>5. /\ rt'[w].task = t /\ rt'[w].call[c] = s
        /\ \A d \in Calls \ {c} : rt'[w].call[d] = rt[w].call[d]
    <3>1. /\ SetCalls(w, {c}, s)[w].task = rt[w].task
          /\ \A d \in Calls :
               SetCalls(w, {c}, s)[w].call[d] = IF d \in {c} THEN s ELSE rt[w].call[d]
      BY <1>1, SetCallsAt
    <3> QED
      BY <1>4, <2>4, <3>1
  <2>6. OneMove
    BY <1>2, <2>1, <2>3 DEF OneMove, MovesOnly, Moves, Intended, Move, Still, SameClaim
  <2>7. SentInv'
    <3>1. \A p \in Pids : <<p, t, c>> \notin inflight
      BY <2>1 DEF Untouched
    <3>2. SentCall(w, c)'
      BY <2>3, <2>4, <2>5 DEF SentCall
    <3>3. inflight' \in {inflight, inflight \union {<<w, t, c>>}}
      BY <2>4
    <3>4. \A u \in Tasks, d \in Calls : (u = t /\ d = c) \/ exec'[u][d] = exec[u][d]
      BY <2>3
    <3> QED
      BY <1>2, <1>3, <1>4, <2>3, <2>5, <3>1, <3>2, <3>3, <3>4, OneCallSent
  <2> QED
    BY <2>6, <2>7
<1> QED
  BY <1>4, <1>5, <1>6

\* Starting the MCP calls together moves none of them: the threads have yet to run.
LEMMA StartBatchMove ==
    ASSUME IInv, SentInv, NEW w \in Pids, StartBatch(w)
    PROVE  OneMove /\ SentInv'
<1>1. StoreTypeOK /\ RuntimeTypeOK /\ CallInv
  BY DEF IInv, TypeOK
<1>2. UNCHANGED <<alive, exec, effects, claimedAt>> /\ WorkerStep(w) /\ InBatch(w)
  BY DEF StartBatch, WorkerStep, process, ledger, history
<1>3. \A p \in Pids \ {w} : rt'[p] = rt[p]
  BY <1>2, WorkerLocal
<1>4. PICK t \in Tasks : t = rt[w].task
  BY <1>2, BatchOwner
<1> DEFINE B == {c \in Calls : rt[w].call[c] = "begun"}
<1>5. rt' = SetCalls(w, B, "sent") /\ inflight' = inflight \union {<<w, t, c>> : c \in B}
  BY <1>4 DEF StartBatch, StatusOf
<1>6. \A c \in B : c \in Calls /\ exec[t][c].state = "executing"
  BY <1>1, <1>2, <1>4 DEF CallInv, BatchInv, BatchCall
<1>7. /\ rt'[w].task = t
      /\ \A d \in Calls : rt'[w].call[d] = IF d \in B THEN "sent" ELSE rt[w].call[d]
  <2>1. /\ SetCalls(w, B, "sent")[w].task = rt[w].task
        /\ \A d \in Calls :
             SetCalls(w, B, "sent")[w].call[d] = IF d \in B THEN "sent" ELSE rt[w].call[d]
    BY <1>1, SetCallsAt
  <2> QED
    BY <1>4, <1>5, <2>1
<1> HIDE DEF B
<1>8. OneMove
  BY <1>2 DEF OneMove, Still, SameClaim
<1>9. ASSUME NEW p \in Pids, InBatch(p)', NEW d \in Calls
      PROVE  SentCall(p, d)'
  <2>1. InBatch(p)
    BY <1>2, <1>3, <1>9 DEF InBatch
  <2>2. SentCall(p, d)
    BY <2>1 DEF SentInv
  <2>3. CASE p # w
    BY <1>2, <1>3, <1>5, <2>2, <2>3 DEF SentCall
  <2>4. CASE p = w /\ d \in B
    BY <1>2, <1>5, <1>6, <1>7, <2>4 DEF SentCall
  <2>5. CASE p = w /\ d \notin B
    BY <1>2, <1>4, <1>5, <1>7, <2>2, <2>5 DEF SentCall
  <2> QED
    BY <2>3, <2>4, <2>5
<1>10. ASSUME NEW x \in inflight'
       PROVE  exec'[x[2]][x[3]].state = "executing"
  <2>1. x \in inflight \/ \E c \in B : x = <<w, t, c>>
    BY <1>5
  <2> QED
    BY <1>2, <1>6, <2>1 DEF SentInv
<1> QED
  BY <1>8, <1>9, <1>10 DEF SentInv

\* The effect of a tool is of a call that is claimed, and is its first.
LEMMA RunMove ==
    ASSUME IInv, SentInv, NEW w \in Pids, RunTool(w)
    PROVE  OneMove /\ SentInv'
<1>1. RuntimeTypeOK /\ CallInv /\ effects \in [Tasks -> [Calls -> Nat]]
  BY DEF IInv, TypeOK, HistoryTypeOK
<1>2. UNCHANGED <<alive, exec, rt, claimedAt>>
  BY DEF RunTool, process, ledger
<1>3. PICK t \in Tasks, c \in Calls :
        /\ <<w, t, c>> \in inflight
        /\ inflight' = inflight \ {<<w, t, c>>}
        /\ effects' = [effects EXCEPT ![t][c] = effects[t][c] + 1]
  BY DEF RunTool
<1>4. effects[t][c] = 0 /\ exec[t][c].state = "executing"
  <2>1. PICK x \in inflight : x = <<w, t, c>>
    BY <1>3
  <2> QED
    BY <1>1, <2>1 DEF CallInv, ThreadInv, SentInv
<1>5. /\ effects'[t][c] = 1
      /\ \A u \in Tasks, d \in Calls : (u = t /\ d = c) \/ effects'[u][d] = effects[u][d]
  BY <1>1, <1>3, <1>4
<1>6. OneMove
  BY <1>2, <1>4, <1>5 DEF OneMove, MovesOnly, Moves, HasRun, Move, Still, SameClaim
<1>7. ASSUME NEW p \in Pids, InBatch(p), NEW d \in Calls
      PROVE  SentCall(p, d)'
  <2>1. PICK u \in Tasks : u = rt[p].task
    BY <1>7, BatchOwner
  <2>2. SentCall(p, d)
    BY <1>7 DEF SentInv
  <2>3. CASE u = t /\ d = c
    BY <1>2, <1>4, <1>5, <2>1, <2>3 DEF SentCall
  <2>4. CASE ~(u = t /\ d = c)
    BY <1>2, <1>3, <1>5, <2>1, <2>2, <2>4 DEF SentCall
  <2> QED
    BY <2>3, <2>4
<1>8. \A x \in inflight' : exec'[x[2]][x[3]].state = "executing"
  BY <1>2, <1>3 DEF SentInv
<1> QED
  BY <1>2, <1>6, <1>7, <1>8 DEF SentInv, InBatch

\* Every step moves one call at most, and keeps SentInv.
LEMMA MoveStep ==
    ASSUME IInv, SentInv, ClaimInv, Next
    PROVE  OneMove /\ SentInv'
  BY BackendMove, OtherWorkerMove, AskMove, SettleMove, FinishMove, ClaimMove, StartBatchMove,
     RunMove
  DEF Next

\* Every step keeps ClaimInv.
LEMMA ClaimStep ==
    ASSUME IInv, SentInv, ClaimInv, Next
    PROVE  ClaimInv'
<1>1. ASSUME NEW t \in Tasks, task'[t].state = "running"
      PROVE  task'[t].epoch # 0
  BY <1>1, WorkerRuns, BackendRuns DEF Next, Runs, ClaimInv
<1>2. ASSUME NEW p \in Pids, Busy(p)'
      PROVE  rt'[p].epoch # 0
  <2>1. rt \in [Pids -> Runtime]
    BY DEF IInv, TypeOK, RuntimeTypeOK
  <2>2. CASE BackendStep
    <3>1. rt'[p] = rt[p] \/ rt'[p].pc = "idle"
      BY <2>2, BackendRuntime
    <3> QED
      BY <1>2, <3>1 DEF Busy, ClaimInv
  <2>3. ASSUME NEW w \in Pids, WorkerStep(w), ~StartNew(w), ~AdoptResume(w)
        PROVE  rt'[p].epoch # 0
    BY <1>2, <2>3, WorkerExecutes DEF ClaimInv
  <2>4. ASSUME NEW w \in Pids, StartNew(w) \/ AdoptResume(w)
        PROVE  rt'[p].epoch # 0
    <3>1. UNCHANGED rt \/ \E t, e : StartedAs(w, t, e) /\ e # 0
      <4>1. CASE StartNew(w)
        BY <4>1 DEF StartNew
      <4>2. CASE AdoptResume(w)
        <5>1. ProcessTypeOK
          BY DEF IInv, TypeOK
        <5>2. cmd[w].task \in Tasks
          BY <4>2, <5>1, ResumedTask DEF AdoptResume
        <5> QED
          BY <4>2, <5>2 DEF AdoptResume, ClaimInv
      <4> QED
        BY <2>4, <4>1, <4>2
    <3>2. CASE UNCHANGED rt
      BY <1>2, <3>2 DEF ClaimInv, Busy
    <3>3. ASSUME NEW t, NEW e, StartedAs(w, t, e), e # 0
          PROVE  rt'[p].epoch # 0
      <4>1. rt'[p] = rt[p] \/ rt'[p].epoch = e
        BY <2>1, <3>3 DEF StartedAs, Idle
      <4> QED
        BY <1>2, <3>3, <4>1 DEF ClaimInv, Busy
    <3> QED
      BY <3>1, <3>2, <3>3
  <2> QED
    BY <2>2, <2>3, <2>4 DEF Next
<1>3. ASSUME NEW t \in Tasks, NEW c \in Calls
      PROVE  /\ exec'[t][c].state = "none" => claimedAt'[t][c] = 0
             /\ exec'[t][c].state = "executing" => claimedAt'[t][c] # 0
  <2>1. Still(t, c) \/ Moves(t, c)
    BY MoveStep DEF OneMove, MovesOnly
  <2> QED
    BY <2>1 DEF ClaimInv, Still, SameClaim, Moves, Intended, Refused, HasRun, Answered, Move
<1> QED
  BY <1>1, <1>2, <1>3 DEF ClaimInv

-----------------------------------------------------------------------------
(* The theorems.  They say what holds until a worker adopts a task from under *)
(* another process (Uncontested): adopt looks at neither owner nor epoch.      *)

\* The inductive invariant holds at the start.
LEMMA InitInv == Init => IInv
<1> SUFFICES ASSUME Init
             PROVE  IInv
  OBVIOUS
<1>1. TypeOK
  BY DEF Init, StoreInit, TypeOK, StoreTypeOK, ProcessTypeOK, RuntimeTypeOK, HandlerTypeOK,
         HistoryTypeOK, TaskRow, ApprovalRow, ExecutionRow, NoExecution, Commands, NoCmd, NoRes,
         NoPoll, NoDec, NoStop, Idle, Runtime, CallStates
<1>2. ProcessInv
  BY DEF Init, ProcessInv, NoCmd, Idle
<1>3. OwnerInv
  BY DEF Init, OwnerInv, Busy, Executes, Executing, NoCmd, Idle
<1>4. CallInv
  BY DEF Init, StoreInit, CallInv, NoExecution, Untouched, BatchInv, InBatch, ThreadInv,
         AtMostOnce, RefusedNeverRuns
<1>5. HoldInv
  BY DEF Init, StoreInit, HoldInv, UnknownHoldsTask, NoExecution
<1> QED
  BY <1>1, <1>2, <1>3, <1>4, <1>5 DEF IInv

\* Every step but a late adoption keeps the inductive invariant.
LEMMA NextInv == ASSUME Uncontested', IInv, Next PROVE IInv'
  BY TypeStep, ProcessStep, WorkerOwner, BackendOwner, CallStep, HoldStep DEF Next, IInv

\* So does a stuttering step.
LEMMA StutterInv == IInv /\ UNCHANGED vars => IInv'
<1> SUFFICES ASSUME IInv, UNCHANGED vars
             PROVE  IInv'
  OBVIOUS
<1>1. UNCHANGED <<ledger, process, pipe, rt, inflight, handler, history>>
  BY DEF vars
<1>2. TypeOK'
  BY <1>1 DEF IInv, TypeOK, StoreTypeOK, ProcessTypeOK, RuntimeTypeOK, HandlerTypeOK,
              HistoryTypeOK, ledger, process, pipe, handler, history
<1>3. ProcessInv'
  BY <1>1 DEF IInv, ProcessInv, process, pipe
<1>4. OwnerInv'
  BY <1>1 DEF IInv, OwnerInv, Busy, Exists, Executes, Executing, Handed, ledger, process, pipe,
              handler
<1>5. CallInv'
  BY <1>1 DEF IInv, CallInv, BatchInv, BatchCall, InBatch, Untouched, ThreadInv, AtMostOnce,
              RefusedNeverRuns, ledger, process, history
<1>6. HoldInv'
  BY <1>1 DEF IInv, HoldInv, UnknownHoldsTask, Exists, ledger, history
<1> QED
  BY <1>2, <1>3, <1>4, <1>5, <1>6 DEF IInv

\* The inductive invariant holds from the start until a task is adopted late, and
\* for ever if none is (adopt, resume, claim_execution).
THEOREM Inductive == Spec => [](Uncontested => IInv)
<1>1. (Uncontested => IInv) /\ [Next]_vars => (Uncontested' => IInv')
  BY NextInv, StutterInv, ContestedGrows DEF Uncontested
<1> QED
  BY <1>1, InitInv, PTL DEF Spec

\* Every variable keeps its type: the rows of the ledger, the runtimes of the
\* processes, the pipes and the coroutines of the backend.
THEOREM TypeCorrect == Spec => [](Uncontested => TypeOK)
<1>1. IInv => TypeOK
  BY DEF IInv
<1> QED
  BY <1>1, Inductive, PTL

\* The effect of a tool call takes place at most once, whatever crashes, resumes or
\* outlives its backend, until a task is adopted late: there is no other way to a second
\* run (claim_execution, resume, adopt).
THEOREM OnceOnly == Spec => [](Uncontested => AtMostOnce)
<1>1. IInv => AtMostOnce
  BY DEF IInv, CallInv
<1> QED
  BY <1>1, Inductive, PTL

\* A call recorded as refused or cancelled has had no effect and never will
\* (wait, the cached result of authorize).
THEOREM RefusedStays == Spec => [](Uncontested => RefusedNeverRuns)
<1>1. IInv => RefusedNeverRuns
  BY DEF IInv, CallInv
<1> QED
  BY <1>1, Inductive, PTL

\* A call that was claimed and has no result holds its task back: the task runs
\* again under no later epoch (resume, "unknown execution").
THEOREM UnknownHolds == Spec => [](Uncontested => UnknownHoldsTask)
<1>1. IInv => UnknownHoldsTask
  BY DEF IInv, HoldInv
<1> QED
  BY <1>1, Inductive, PTL

\* When a claim is inserted its task is the claimer's and of its epoch, although
\* claim_execution reads that outside of the transaction that writes: only a late
\* adoption between the two could take the task away.
THEOREM CurrentClaims ==
    Spec => [][Uncontested => \A t \in Tasks, c \in Calls : ClaimIsCurrent(t, c)]_vars
<1>1. ASSUME IInv, Next, NEW t \in Tasks, NEW c \in Calls
      PROVE  ClaimIsCurrent(t, c)
  <2> SUFFICES ASSUME exec[t][c].state = "none", exec'[t][c].state = "executing"
               PROVE  task[t].epoch = claimedAt'[t][c] /\ Executes(task[t].owner, t)
    BY DEF ClaimIsCurrent
  <2>1. PICK w \in Pids : MovedBy(w, t, c)
    BY <1>1, WorkerClaims, BackendClaims DEF Next, SameClaim
  <2>2. Executes(w, t) /\ claimedAt'[t][c] = rt[w].epoch
    BY <2>1 DEF MovedBy
  <2> QED
    BY <1>1, <2>2 DEF IInv, OwnerInv
<1>2. (Uncontested => IInv) /\ [Next]_vars
          => [Uncontested => \A t \in Tasks, c \in Calls : ClaimIsCurrent(t, c)]_vars
  BY <1>1
<1> QED
  BY <1>2, Inductive, PTL DEF Spec
-----------------------------------------------------------------------------
(* The ledger implements ToolOnce.                                         *)

\* The invariants the refinement rests on hold in every reachable state.
LEMMA ClaimsKept == Spec => [](Uncontested => IInv /\ ClaimInv /\ SentInv)
<1>1. Init => ClaimInv /\ SentInv
  BY DEF Init, StoreInit, ClaimInv, SentInv, NoExecution, Busy, InBatch, Idle
<1>2. IInv /\ ClaimInv /\ SentInv /\ [Next]_vars => ClaimInv' /\ SentInv'
  <2>1. CASE Next
    BY <2>1, ClaimStep, MoveStep
  <2>2. CASE UNCHANGED vars
    BY <2>2 DEF vars, ledger, process, pipe, handler, history, ClaimInv, SentInv, SentCall,
                InBatch, Busy
  <2> QED
    BY <2>1, <2>2
<1>3. [Next]_vars => (Uncontested' => Uncontested)
  BY ContestedGrows DEF Uncontested
<1> QED
  BY <1>1, <1>2, <1>3, Inductive, PTL DEF Spec

\* A step that moves one call is a step of ToolOnce, and any other stutters.
LEMMA OnceStep ==
    ASSUME IInv, ClaimInv, SentInv, [Next]_vars
    PROVE  [Once!OnceNext]_<<outcomes, runsOf>>
<1>1. /\ StoreTypeOK /\ HistoryTypeOK
      /\ \A t \in Tasks, c \in Calls : exec[t][c] \in ExecutionRow
  BY DEF IInv, TypeOK, StoreTypeOK
<1>2. ASSUME NEW i \in Tasks \X Calls, Still(i[1], i[2])
      PROVE  outcomes'[i] = outcomes[i] /\ runsOf'[i] = runsOf[i]
  <2>1. exec[i[1]][i[2]].state \in {"none", "executing", "completed"}
    BY <1>1 DEF ExecutionRow
  <2>2. OutcomeOf(i)' = OutcomeOf(i)
    BY <1>2, <2>1 DEF OutcomeOf, Still, SameClaim
  <2> QED
    BY <1>2, <2>2 DEF outcomes, runsOf, Still
<1>3. CASE UNCHANGED vars
  BY <1>3 DEF vars, ledger, history, outcomes, runsOf, OutcomeOf
<1>4. CASE \A t \in Tasks, c \in Calls : Still(t, c)
  <2>1. \A i \in Tasks \X Calls : Still(i[1], i[2])
    BY <1>4
  <2>2. \A i \in Tasks \X Calls : outcomes'[i] = outcomes[i] /\ runsOf'[i] = runsOf[i]
    BY <1>2, <2>1
  <2> QED
    BY <2>2 DEF outcomes, runsOf
<1>5. ASSUME NEW t \in Tasks, NEW c \in Calls, MovesOnly(t, c)
      PROVE  Once!OnceNext
  <2> DEFINE i == <<t, c>>
  <2>1. i \in Tasks \X Calls
    OBVIOUS
  <2>2. \A j \in Tasks \X Calls :
          j # i => outcomes'[j] = outcomes[j] /\ runsOf'[j] = runsOf[j]
    <3>1. ASSUME NEW j \in Tasks \X Calls, j # i
          PROVE  Still(j[1], j[2])
      <4>1. j[1] \in Tasks /\ j[2] \in Calls /\ j = <<j[1], j[2]>>
        OBVIOUS
      <4>2. ~(j[1] = t /\ j[2] = c)
        BY <3>1, <4>1
      <4> QED
        BY <1>5, <4>1, <4>2 DEF MovesOnly
    <3> QED
      BY <1>2, <3>1
  <2>3. /\ outcomes[i] = OutcomeOf(i) /\ outcomes'[i] = OutcomeOf(i)'
        /\ runsOf[i] = effects[t][c] /\ runsOf'[i] = effects'[t][c]
    BY DEF outcomes, runsOf
  <2>4. ASSUME NEW s, outcomes'[i] = s
        PROVE  outcomes' = [outcomes EXCEPT ![i] = s]
    BY <2>2, <2>4 DEF outcomes
  <2>5. ASSUME NEW s, runsOf'[i] = s
        PROVE  runsOf' = [runsOf EXCEPT ![i] = s]
    BY <2>2, <2>5 DEF runsOf
  <2>6. /\ outcomes'[i] = outcomes[i] => UNCHANGED outcomes
        /\ runsOf'[i] = runsOf[i] => UNCHANGED runsOf
    BY <2>2 DEF outcomes, runsOf
  <2>7. CASE Intended(t, c)
    <3>1. outcomes[i] = "open" /\ outcomes'[i] = "intent" /\ runsOf'[i] = runsOf[i]
      BY <2>3, <2>7 DEF Intended, Move, OutcomeOf
    <3>2. Once!Intend(i)
      BY <2>4, <2>6, <3>1 DEF Once!Intend
    <3> QED
      BY <2>1, <3>2 DEF Once!OnceNext
  <2>8. CASE Refused(t, c)
    <3>1. claimedAt'[t][c] = 0
      BY <2>8 DEF Refused, Move, ClaimInv
    <3>2. outcomes[i] = "open" /\ outcomes'[i] = "refused" /\ runsOf'[i] = runsOf[i]
      BY <2>3, <2>8, <3>1 DEF Refused, Move, OutcomeOf
    <3>3. Once!Refuse(i)
      BY <2>4, <2>6, <3>2 DEF Once!Refuse
    <3> QED
      BY <2>1, <3>3 DEF Once!OnceNext
  <2>9. CASE HasRun(t, c)
    <3>1. /\ outcomes[i] = "intent" /\ outcomes'[i] = outcomes[i]
          /\ runsOf[i] = 0 /\ runsOf'[i] = 1
      BY <2>3, <2>9 DEF HasRun, Move, OutcomeOf
    <3>2. Once!Run(i)
      BY <2>5, <2>6, <3>1 DEF Once!Run
    <3> QED
      BY <2>1, <3>2 DEF Once!OnceNext
  <2>10. CASE Answered(t, c)
    <3>1. claimedAt'[t][c] # 0
      BY <2>10 DEF Answered, Move, ClaimInv
    <3>2. /\ outcomes[i] = "intent" /\ outcomes'[i] = "done"
          /\ runsOf[i] = 1 /\ runsOf'[i] = runsOf[i]
      BY <2>3, <2>10, <3>1 DEF Answered, Move, OutcomeOf
    <3>3. Once!Record(i)
      BY <2>4, <2>6, <3>2 DEF Once!Record
    <3> QED
      BY <2>1, <3>3 DEF Once!OnceNext
  <2> QED
    BY <1>5, <2>7, <2>8, <2>9, <2>10 DEF MovesOnly, Moves
<1> QED
  BY <1>3, <1>4, <1>5, MoveStep DEF OneMove

\* The ledger, with all its processes, crashes and orphans, takes steps of ToolOnce
\* only, up to a late adoption: intent before effect, effect before result, and
\* refused calls never run (begin_call, claim_execution, finish_call, authorize).
THEOREM Implements ==
    Spec => Once!OnceInit /\ [][Uncontested => Once!OnceNext]_<<outcomes, runsOf>>
<1>1. Init => Once!OnceInit
  BY DEF Init, StoreInit, NoExecution, Once!OnceInit, outcomes, runsOf, OutcomeOf
<1>2. (Uncontested => IInv /\ ClaimInv /\ SentInv) /\ [Next]_vars
          => [Uncontested => Once!OnceNext]_<<outcomes, runsOf>>
  BY OnceStep
<1> QED
  BY <1>1, <1>2, ClaimsKept, PTL DEF Spec
-----------------------------------------------------------------------------
(* Requests, decisions and grants.                                         *)

\* The states in which a request is over.
Over == {"completed", "cancelled", "invalidated"}

\* How the approvals table changes: rows are closed, requests are added, or one
\* row is approved or decided.
Closes == \E R \in SUBSET appr, s \in Over : appr' = Restate(R, s)

Asks == \E t \in Tasks, C \in SUBSET Calls, e \in Nat : appr' = Requested(t, C, e)

Approves ==
    \E r \in appr :
        r.state = "pending" /\ appr' = Restate({r}, "approved") /\ Key(r) \in granted'

Decides ==
    \E r \in appr :
        /\ Key(r) = Key(dec) /\ dec.decision \in {"approved", "denied"}
        /\ appr' = Restate({r}, dec.decision)
        /\ dec.decision = "approved" => Key(r) \in granted'

RowsMove == UNCHANGED appr \/ Closes \/ Asks \/ Approves \/ Decides

\* Every step changes the table in one of these ways, and takes no grant back.
LEMMA RowsStep ==
    ASSUME IInv, Next
    PROVE  RowsMove /\ granted \subseteq granted'
<1>1. StoreTypeOK /\ RuntimeTypeOK /\ HandlerTypeOK
  BY DEF IInv, TypeOK
<1>2. ASSUME NEW S, NEW s, SetTaskState(S, s)
      PROVE  RowsMove
  <2>1. RowsOf(S) \in SUBSET appr
    BY DEF RowsOf
  <2> QED
    BY <1>2, <2>1 DEF SetTaskState, RowsMove, Closes, Over
<1>3. ASSUME NEW w \in Pids, WorkerStep(w)
      PROVE  RowsMove /\ granted \subseteq granted'
  <2>1. CASE Authorize(w)
    <3>1. rt[w].task \in Tasks /\ rt[w].epoch \in Nat
      <4>1. Busy(w)
        BY <2>1 DEF Authorize, Busy
      <4> QED
        BY <1>1, <4>1 DEF IInv, OwnerInv, Exists, RuntimeTypeOK, Runtime
    <3>2. UNCHANGED appr \/ \E C \in SUBSET Calls : appr' = Requested(rt[w].task, C, rt[w].epoch)
      BY <2>1 DEF Authorize
    <3>3. granted \subseteq granted'
      BY <2>1 DEF Authorize, Grants
    <3> QED
      BY <3>1, <3>2, <3>3 DEF RowsMove, Asks
  <2>2. CASE AutoApprove(w)
    <3>1. PICK r \in appr :
            /\ r.state = "pending" /\ appr' = Restate({r}, "approved")
            /\ granted' = Grants(r.task, {r.call}, r.epoch)
      BY <2>2 DEF AutoApprove
    <3>2. Key(r) \in granted' /\ granted \subseteq granted'
      BY <3>1 DEF Grants, Key
    <3> QED
      BY <3>1, <3>2 DEF RowsMove, Approves
  <2>3. CASE FinishCall(w) \/ Complete(w)
    <3>1. \E t, C, e : appr' = RowsFinished(t, C, e)
      BY <2>3 DEF FinishCall, Complete
    <3>2. UNCHANGED granted
      BY <2>3 DEF FinishCall, Complete, history
    <3> QED
      BY <3>1, <3>2 DEF RowsFinished, RowsMove, Closes, Over
  <2>4. CASE Unwind(w) \/ Close(w)
    BY <1>2, <2>4 DEF Unwind, Close, RowsMove, ledger, history
  <2> QED
    BY <1>3, <2>1, <2>2, <2>3, <2>4
    DEF WorkerStep, StartNew, AdoptResume, DropCommand, Bind, Abandon, Settle, CheckCall,
        ClaimCall, StartBatch, RunTool, FailRound, Interrupt, ReadState, LeaveLoop,
        SuspendSession, ExitWorker, CrashWorker, Dies, RowsMove, ledger, history
<1>4. CASE BackendStep
  <2>1. CASE ResumeTask \/ ResumeByDecision
    <3>1. PICK t : appr' = Invalidated(t) /\ UNCHANGED granted
      BY <2>1 DEF ResumeTask, ResumeByDecision, Claim, history
    <3>2. RowsOf({t}) \in SUBSET appr
      BY DEF RowsOf
    <3> QED
      BY <3>1, <3>2 DEF Invalidated, RowsMove, Closes, Over
  <2>2. CASE DecideWrite
    <3>1. PICK r \in appr :
            Answer(r, dec.decision) = dec /\ appr' = Restate({r}, dec.decision)
      BY <2>2 DEF DecideWrite
    <3>2. r.task = dec.task /\ r.call = dec.call /\ r.epoch = dec.epoch
      BY <3>1 DEF Answer
    <3>3. dec.decision \in {"approved", "denied"}
      BY <1>1, <2>2 DEF DecideWrite, HandlerTypeOK, NoDec
    <3>4. /\ granted \subseteq granted'
          /\ dec.decision = "approved" => Key(dec) \in granted'
      BY <2>2 DEF DecideWrite, Grants, Key
    <3> QED
      BY <3>1, <3>2, <3>3, <3>4 DEF RowsMove, Decides, Key
  <2>3. CASE RetireOne \/ StopOne \/ StopFinish
    BY <1>2, <2>3 DEF RetireOne, StopOne, StopFinish, RowsMove, ledger, history
  <2> QED
    BY <1>4, <2>1, <2>2, <2>3
    DEF BackendStep, StartBackend, CrashBackend, FinishShutdown, BackendGone, BeginShutdown,
        SendShutdown, SuspendSession, Sweep, DispatchResume, DispatchNew, FailDispatch,
        ReleaseUnadopted, DecideLive, PollDecide, PollTimeout, SetPolicy, MsgBegin, MsgTimeout,
        Dies, MsgRetire, RetireFail, StopBegin, StopTimeout, StopCollect, RowsMove, ledger,
        history
<1> QED
  BY <1>3, <1>4 DEF Next

\* The decision on its way is the one before, none, or one on a row that decide has
\* just read.
LEMMA DecisionStep ==
    ASSUME IInv, Next
    PROVE  \/ dec' \in {dec, NoDec}
           \/ /\ UNCHANGED appr
              /\ \E r \in appr : Key(dec') = Key(r) /\ r.state \in {"pending", dec'.decision}
<1>1. ASSUME NEW w \in Pids, WorkerStep(w)
      PROVE  UNCHANGED dec
  BY <1>1
  DEF WorkerStep, StartNew, AdoptResume, DropCommand, Bind, Abandon, Authorize, AutoApprove,
      Settle, CheckCall, ClaimCall, StartBatch, RunTool, FinishCall, Complete, FailRound,
      Interrupt, Unwind, ReadState, Close, LeaveLoop, ExitWorker, CrashWorker, Dies, handler
<1>2. CASE DecideLive \/ PollDecide
  <2>1. UNCHANGED appr
    BY <1>2 DEF DecideLive, PollDecide
  <2>2. dec' = dec \/ \E r \in appr : \E d : MayDecide(Swept, r, d) /\ dec' = Answer(r, d)
    BY <1>2 DEF DecideLive, PollDecide, RowsOf
  <2> QED
    BY <2>1, <2>2 DEF MayDecide, Answer, Key
<1>3. CASE BackendStep /\ ~DecideLive /\ ~PollDecide
  BY <1>3
  DEF BackendStep, StartBackend, CrashBackend, FinishShutdown, BackendGone, BeginShutdown,
      SendShutdown, Sweep, ResumeTask, ResumeByDecision, Claim, DispatchResume, DispatchNew,
      FailDispatch, ReleaseUnadopted, DecideWrite, PollTimeout, SetPolicy, MsgBegin, MsgTimeout,
      Dies, MsgRetire, RetireOne, RetireFail, StopBegin, StopTimeout, StopCollect, StopOne,
      StopFinish, handler
<1> QED
  BY <1>1, <1>2, <1>3 DEF Next

\* Where a row of the changed table comes from.
LEMMA RestateOrigin ==
    ASSUME StoreTypeOK, NEW R \in SUBSET appr, NEW s, NEW x \in Restate(R, s)
    PROVE  \E r \in appr :
             /\ Key(x) = Key(r)
             /\ \/ x = r /\ r \notin R
                \/ x = [r EXCEPT !.state = s] /\ x.state = s /\ r \in R
<1>1. CASE x \in appr \ R
  BY <1>1
<1>2. CASE \E r \in R : x = [r EXCEPT !.state = s]
  <2>1. PICK r \in R : x = [r EXCEPT !.state = s]
    BY <1>2
  <2>2. r \in ApprovalRow
    BY DEF StoreTypeOK
  <2> QED
    BY <2>1, <2>2 DEF Key, ApprovalRow
<1> QED
  BY <1>1, <1>2 DEF Restate

\* The same for one row: a row of the result is a row left alone or the restated one.
LEMMA RestateOneOrigin ==
    ASSUME StoreTypeOK, NEW q \in appr, NEW s, NEW x \in Restate({q}, s)
    PROVE  \/ x \in appr /\ x # q
           \/ Key(x) = Key(q) /\ x.state = s
<1>1. {q} \in SUBSET appr
  OBVIOUS
<1>2. PICK r \in appr : /\ Key(x) = Key(r)
                        /\ \/ x = r /\ r \notin {q}
                           \/ x = [r EXCEPT !.state = s] /\ x.state = s /\ r \in {q}
  BY <1>1, RestateOrigin
<1> QED
  BY <1>2

\* Requests stay one row each when rows are restated ...
LEMMA RestateUnique ==
    ASSUME StoreTypeOK, RowInv, NEW R \in SUBSET appr, NEW s,
           NEW x \in Restate(R, s), NEW y \in Restate(R, s), Key(x) = Key(y)
    PROVE  x = y
<1>1. PICK r \in appr : /\ Key(x) = Key(r)
                        /\ \/ x = r /\ r \notin R
                           \/ x = [r EXCEPT !.state = s] /\ x.state = s /\ r \in R
  BY RestateOrigin
<1>2. PICK q \in appr : /\ Key(y) = Key(q)
                        /\ \/ y = q /\ q \notin R
                           \/ y = [q EXCEPT !.state = s] /\ y.state = s /\ q \in R
  BY RestateOrigin
<1>3. r = q
  BY <1>1, <1>2 DEF RowInv
<1> QED
  BY <1>1, <1>2, <1>3

\* ... and when requests are added.
LEMMA RequestedRow ==
    ASSUME NEW t, NEW C, NEW e, NEW x \in Requested(t, C, e)
    PROVE  \/ x \in appr
           \/ x.state = "pending" /\ x = [task |-> t, call |-> x.call, epoch |-> e, state |-> "pending"]
              /\ \A r \in appr : Key(r) # Key(x)
  BY DEF Requested, Key

\* Every step keeps RowInv.
LEMMA RowStep ==
    ASSUME IInv, RowInv, Next
    PROVE  RowInv'
<1>1. StoreTypeOK
  BY DEF IInv, TypeOK
<1>2. RowsMove /\ granted \subseteq granted'
  BY RowsStep
<1>3. ASSUME NEW x \in appr', NEW y \in appr', Key(x) = Key(y)
      PROVE  x = y
  <2>1. CASE UNCHANGED appr
    BY <1>3, <2>1 DEF RowInv
  <2>2. CASE \E R \in SUBSET appr : \E s : appr' = Restate(R, s)
    BY <1>1, <1>3, <2>2, RestateUnique
  <2>3. CASE Asks
    BY <1>3, <2>3, RequestedRow DEF Asks, RowInv, Key
  <2> QED
    BY <1>2, <2>1, <2>2, <2>3 DEF RowsMove, Closes, Approves, Decides
<1>4. ASSUME NEW x \in appr', x.state = "approved"
      PROVE  Key(x) \in granted'
  <2>1. CASE x \in appr
    BY <1>2, <1>4, <2>1 DEF RowInv
  <2>2. CASE Closes
    BY <1>1, <1>2, <1>4, <2>1, <2>2, RestateOrigin DEF Closes, Over
  <2>3. CASE Asks
    BY <1>4, <2>1, <2>3, RequestedRow DEF Asks
  <2>4. CASE Approves \/ Decides
    <3>1. PICK r \in appr, s \in {"approved", "denied"} :
            appr' = Restate({r}, s) /\ (s = "approved" => Key(r) \in granted')
      BY <2>4 DEF Approves, Decides
    <3>2. x \in appr \/ (Key(x) = Key(r) /\ x.state = s)
      BY <1>1, <3>1, RestateOneOrigin
    <3> QED
      BY <1>4, <2>1, <3>1, <3>2
  <2> QED
    BY <1>2, <2>1, <2>2, <2>3, <2>4 DEF RowsMove
<1>5. ASSUME dec'.decision = "approved", NEW x \in appr', Key(x) = Key(dec)'
      PROVE  x.state # "denied"
  <2>1. CASE dec' = NoDec
    BY <1>5, <2>1 DEF NoDec, NoPoll
  <2>2. ASSUME UNCHANGED appr, NEW r \in appr, Key(dec') = Key(r),
               r.state \in {"pending", dec'.decision}
        PROVE  x.state # "denied"
    <3>1. x = r
      BY <1>5, <2>2 DEF RowInv, Key
    <3> QED
      BY <1>5, <2>2, <3>1
  <2>3. CASE dec' = dec
    <3>1. \A r \in appr : Key(r) = Key(dec) => r.state # "denied"
      BY <1>5, <2>3 DEF RowInv
    <3>2. Key(x) = Key(dec)
      BY <1>5, <2>3 DEF Key
    <3>3. CASE x \in appr
      BY <3>1, <3>2, <3>3
    <3>4. CASE Closes
      BY <1>1, <3>2, <3>3, <3>4, RestateOrigin DEF Closes, Over
    <3>5. CASE Asks
      BY <3>3, <3>5, RequestedRow DEF Asks
    <3>6. CASE Approves \/ Decides
      <4>1. PICK r \in appr : appr' = Restate({r}, "approved")
        BY <1>5, <2>3, <3>6 DEF Approves, Decides
      <4> QED
        BY <1>1, <3>3, <4>1, RestateOneOrigin
    <3> QED
      BY <1>2, <3>3, <3>4, <3>5, <3>6 DEF RowsMove
  <2> QED
    BY <2>1, <2>2, <2>3, DecisionStep
<1> QED
  BY <1>3, <1>4, <1>5 DEF RowInv

\* A denied request is not approved by any step.
LEMMA DeniedStep ==
    ASSUME IInv, RowInv, Next, NEW r \in appr, r.state = "denied"
    PROVE  [r EXCEPT !.state = "approved"] \notin appr'
<1> DEFINE x == [r EXCEPT !.state = "approved"]
<1>1. StoreTypeOK /\ r \in ApprovalRow
  BY DEF IInv, TypeOK, StoreTypeOK
<1>2. Key(x) = Key(r) /\ x.state = "approved" /\ x # r
  BY <1>1 DEF Key, ApprovalRow
<1>3. x \notin appr
  BY <1>2 DEF RowInv
<1> HIDE DEF x
<1>4. ASSUME x \in appr'
      PROVE  FALSE
  <2>1. CASE Closes
    BY <1>1, <1>2, <1>3, <1>4, <2>1, RestateOrigin DEF Closes, Over
  <2>2. CASE Asks
    BY <1>2, <1>3, <1>4, <2>2, RequestedRow DEF Asks
  <2>3. CASE Approves \/ Decides
    <3>1. PICK q \in appr, s \in {"approved", "denied"} :
            /\ appr' = Restate({q}, s)
            /\ q.state = "pending" \/ (Key(q) = Key(dec) /\ s = dec.decision)
      BY <2>3 DEF Approves, Decides
    <3>2. Key(x) = Key(q) /\ s = "approved"
      BY <1>1, <1>2, <1>3, <1>4, <3>1, RestateOneOrigin
    <3>3. q = r
      BY <1>2, <3>2 DEF RowInv
    <3> QED
      BY <3>1, <3>2, <3>3 DEF RowInv
  <2> QED
    BY <1>3, <1>4, <2>1, <2>2, <2>3, RowsStep DEF RowsMove
<1> QED
  BY <1>4 DEF x
\* Worker w may claim no call that it might not before, but for what was granted.
GrantKept(w) ==
    InBatch(w)' =>
        \A c \in Risky : rt'[w].call[c] \in {"allow", "checked"} =>
            \/ /\ InBatch(w) /\ rt[w].call[c] \in {"allow", "checked"}
               /\ rt'[w].task = rt[w].task /\ rt'[w].epoch = rt[w].epoch
            \/ [task |-> rt'[w].task, call |-> c, epoch |-> rt'[w].epoch] \in granted'

\* What SetCalls leaves alone beside the calls.
LEMMA SetCallsEpoch ==
    ASSUME RuntimeTypeOK, NEW w \in Pids, NEW C, NEW s
    PROVE  SetCalls(w, C, s)[w].epoch = rt[w].epoch
<1>1. rt \in [Pids -> Runtime] /\ rt[w] \in Runtime
  BY DEF RuntimeTypeOK
<1> QED
  BY <1>1 DEF SetCalls, Runtime

\* A batch that goes on with C set to s, s nothing it may claim, keeps its grants.
LEMMA SetCallsGrant ==
    ASSUME RuntimeTypeOK, NEW w \in Pids, InBatch(w), NEW C, NEW s,
           rt' = SetCalls(w, C, s),
           s \notin {"allow", "checked"}
               \/ \A c \in Risky \intersect C :
                   \/ rt[w].call[c] = "allow"
                   \/ [task |-> rt[w].task, call |-> c, epoch |-> rt[w].epoch] \in granted'
    PROVE  GrantKept(w)
<1>1. /\ rt'[w].task = rt[w].task /\ rt'[w].epoch = rt[w].epoch
      /\ \A c \in Calls : rt'[w].call[c] = IF c \in C THEN s ELSE rt[w].call[c]
  BY SetCallsAt, SetCallsEpoch
<1> QED
  BY <1>1 DEF GrantKept

\* A worker allows a risky call only with full control or the user's approval.
LEMMA WorkerGrant ==
    ASSUME IInv, RowInv, NEW w \in Pids, WorkerStep(w)
    PROVE  GrantKept(w)
<1>1. StoreTypeOK /\ RuntimeTypeOK /\ rt[w] \in Runtime /\ rt \in [Pids -> Runtime]
  BY DEF IInv, TypeOK, RuntimeTypeOK
<1>2. ASSUME Fail(w)
      PROVE  GrantKept(w)
  BY <1>1, <1>2 DEF Fail, Runtime, GrantKept, InBatch
<1>3. CASE Authorize(w)
  <2>1. CASE Unknown(rt[w].task)
    BY <1>2, <1>3, <2>1 DEF Authorize
  <2>2. CASE ~Unknown(rt[w].task)
    <3>1. /\ rt'[w].task = rt[w].task /\ rt'[w].epoch = rt[w].epoch
          /\ \A c \in Risky : rt'[w].call[c] = "checked" => FALSE
          /\ \A c \in Risky : rt'[w].call[c] = "allow" => policy # "ask"
      BY <1>1, <1>3, <2>2 DEF Authorize, NeedsApproval, Runtime
    <3>2. policy # "ask" => policy = "full_control"
      BY <1>1 DEF StoreTypeOK, Modes
    <3>3. policy = "full_control" => granted' = Grants(rt[w].task, Risky, rt[w].epoch)
      BY <1>3, <2>2 DEF Authorize
    <3> QED
      BY <3>1, <3>2, <3>3 DEF GrantKept, Grants
  <2> QED
    BY <2>1, <2>2
<1>4. CASE Settle(w)
  <2>1. PICK r \in appr :
          /\ Awaited(w, r)
          /\ \/ rt' = SetCalls(w, {r.call}, "allow") /\ r.state = "approved"
             \/ rt' = SetCalls(w, {r.call}, "done")
    BY <1>4 DEF Settle
  <2>2. InBatch(w) /\ r.task = rt[w].task /\ r.epoch = rt[w].epoch
    BY <2>1 DEF Awaited
  <2>3. UNCHANGED granted
    BY <1>4 DEF Settle, history
  <2>4. CASE rt' = SetCalls(w, {r.call}, "allow") /\ r.state = "approved"
    <3>1. Key(r) \in granted'
      BY <2>3, <2>4 DEF RowInv
    <3>2. rt' = SetCalls(w, {r.call}, "allow")
      BY <2>4
    <3> QED
      BY <1>1, <2>2, <3>1, <3>2, SetCallsGrant DEF Key
  <2>5. CASE rt' = SetCalls(w, {r.call}, "done")
    BY <1>1, <2>2, <2>5, SetCallsGrant
  <2> QED
    BY <2>1, <2>4, <2>5
<1>5. CASE CheckCall(w)
  <2>1. InBatch(w)
    BY <1>5 DEF CheckCall, NextCall
  <2>2. \/ Fail(w)
        \/ \E c \in Calls, s \in {"begun", "sent"} : rt' = SetCalls(w, {c}, s)
        \/ \E c \in Calls : rt[w].call[c] = "allow" /\ rt' = SetCalls(w, {c}, "checked")
    BY <1>5 DEF CheckCall, Begun
  <2>3. ASSUME NEW c \in Calls, rt[w].call[c] = "allow", rt' = SetCalls(w, {c}, "checked")
        PROVE  GrantKept(w)
    BY <1>1, <2>1, <2>3, SetCallsGrant
  <2>4. ASSUME NEW c \in Calls, NEW s \in {"begun", "sent"}, rt' = SetCalls(w, {c}, s)
        PROVE  GrantKept(w)
    BY <1>1, <2>1, <2>4, SetCallsGrant
  <2> QED
    BY <1>2, <2>2, <2>3, <2>4
<1>6. CASE ClaimCall(w) \/ StartBatch(w) \/ FinishCall(w)
  <2>1. InBatch(w)
    BY <1>6 DEF ClaimCall, StartBatch, FinishCall
  <2>2. ASSUME NEW C, NEW s \in {"begun", "sent", "done"}, rt' = SetCalls(w, C, s)
        PROVE  GrantKept(w)
    BY <1>1, <2>1, <2>2, SetCallsGrant
  <2>3. CASE ClaimCall(w)
    <3>1. Fail(w) \/ \E c \in Calls, s \in {"begun", "sent"} : rt' = SetCalls(w, {c}, s)
      BY <2>3 DEF ClaimCall, Begun
    <3> QED
      BY <1>2, <2>2, <3>1
  <2>4. CASE StartBatch(w)
    BY <2>2, <2>4 DEF StartBatch
  <2>5. CASE FinishCall(w)
    <3>1. \E c \in Calls : rt' = SetCalls(w, {c}, "done")
      BY <2>5 DEF FinishCall
    <3> QED
      BY <2>2, <3>1
  <2> QED
    BY <1>6, <2>3, <2>4, <2>5
<1>7. CASE RunTool(w)
  BY <1>7 DEF RunTool, GrantKept, InBatch, process
<1>8. CASE ~(Authorize(w) \/ Settle(w) \/ CheckCall(w) \/ ClaimCall(w) \/ StartBatch(w)
             \/ FinishCall(w) \/ RunTool(w))
  <2>1. rt'[w] = rt[w] \/ rt'[w].pc # "batch"
    BY <1>8, OtherWorkerBatch
  <2>2. w \in alive
    BY WorkerLocal
  <2> QED
    BY <2>1, <2>2 DEF GrantKept, InBatch
<1> QED
  BY <1>3, <1>4, <1>5, <1>6, <1>7, <1>8

\* Every step keeps GrantInv: what is claimed was allowed under the same epoch.
LEMMA GrantStep ==
    ASSUME IInv, RowInv, GrantInv, Next
    PROVE  GrantInv'
<1>1. RuntimeTypeOK /\ HistoryTypeOK /\ granted \subseteq granted'
  BY RowsStep DEF IInv, TypeOK
<1>2. ASSUME NEW p \in Pids
      PROVE  GrantKept(p)
  <2>1. CASE BackendStep
    BY <2>1, BackendRuntime DEF GrantKept, InBatch
  <2>2. ASSUME NEW w \in Pids, WorkerStep(w), p # w
        PROVE  GrantKept(p)
    <3>1. rt'[p] = rt[p]
      BY <2>2, WorkerLocal
    <3>2. p \notin alive => rt[p].pc = "idle"
      BY DEF IInv, ProcessInv
    <3> QED
      BY <3>1, <3>2 DEF GrantKept, InBatch
  <2> QED
    BY <2>1, <2>2, WorkerGrant DEF Next
<1>3. ASSUME NEW p \in Pids, InBatch(p)', NEW c \in Risky, rt'[p].call[c] \in {"allow", "checked"}
      PROVE  [task |-> rt'[p].task, call |-> c, epoch |-> rt'[p].epoch] \in granted'
  BY <1>1, <1>2, <1>3 DEF GrantKept, GrantInv
<1>4. ASSUME NEW t \in Tasks, NEW c \in Risky, claimedAt'[t][c] # 0
      PROVE  [task |-> t, call |-> c, epoch |-> claimedAt'[t][c]] \in granted'
  <2>1. CASE claimedAt'[t][c] = claimedAt[t][c]
    BY <1>1, <1>4, <2>1 DEF GrantInv, ClaimsAreGranted
  <2>2. CASE claimedAt'[t][c] # claimedAt[t][c]
    <3>1. PICK w \in Pids : WorkerStep(w)
      BY <2>2, BackendClaims DEF Next, SameClaim
    <3>2. ClaimCall(w)
      <4>1. Settle(w) \/ FinishCall(w) => UNCHANGED claimedAt
        BY DEF Settle, FinishCall, history
      <4> QED
        BY <2>2, <3>1, <4>1, OtherClaims DEF SameClaim
    <3>3. PICK d \in Calls :
            /\ InBatch(w) /\ rt[w].call[d] = "checked"
            /\ claimedAt' = [claimedAt EXCEPT ![rt[w].task][d] = rt[w].epoch]
      BY <2>2, <3>2 DEF ClaimCall
    <3>4. rt[w].task = t /\ d = c /\ claimedAt'[t][c] = rt[w].epoch
      BY <1>1, <2>2, <3>3 DEF HistoryTypeOK
    <3> QED
      BY <1>1, <3>3, <3>4 DEF GrantInv
  <2> QED
    BY <2>1, <2>2
<1> QED
  BY <1>3, <1>4 DEF GrantInv, ClaimsAreGranted

\* The invariants on requests and grants hold in every reachable state.
LEMMA AnswersKept == Spec => [](Uncontested => IInv /\ RowInv /\ GrantInv)
<1>1. Init => RowInv /\ GrantInv
  BY DEF Init, StoreInit, RowInv, GrantInv, ClaimsAreGranted, InBatch
<1>2. IInv /\ RowInv /\ GrantInv /\ [Next]_vars => RowInv' /\ GrantInv'
  <2>1. CASE Next
    BY <2>1, RowStep, GrantStep
  <2>2. CASE UNCHANGED vars
    BY <2>2 DEF vars, ledger, process, handler, history, RowInv, GrantInv, ClaimsAreGranted,
                InBatch, Key
  <2> QED
    BY <2>1, <2>2
<1>3. [Next]_vars => (Uncontested' => Uncontested)
  BY ContestedGrows DEF Uncontested
<1> QED
  BY <1>1, <1>2, <1>3, Inductive, PTL DEF Spec

\* A risky call is claimed only under an epoch in which the user approved it or full
\* control was on (authorize, wait, decide, claim_execution).
THEOREM GrantedClaims == Spec => [](Uncontested => ClaimsAreGranted)
<1>1. GrantInv => ClaimsAreGranted
  BY DEF GrantInv
<1> QED
  BY <1>1, AnswersKept, PTL

\* A denial is never turned into an approval, although the UPDATE of decide has no
\* condition on the row it replaces (decide, auto-approval in wait).
THEOREM DenialStands ==
    Spec => [][Uncontested => \A r \in appr : DenialStays(r)]_vars
<1>1. (Uncontested => IInv /\ RowInv) /\ [Next]_vars
          => [Uncontested => \A r \in appr : DenialStays(r)]_vars
  BY DeniedStep DEF DenialStays
<1> QED
  BY <1>1, AnswersKept, PTL DEF Spec

\* The second invariant, on claims, threads, requests and grants, holds beside the
\* first (claim_execution, request_approval, decide).
THEOREM AnswersInductive == Spec => [](Uncontested => AnswerInv)
<1>1. ClaimInv /\ SentInv /\ RowInv /\ GrantInv => AnswerInv
  BY DEF AnswerInv
<1> QED
  BY <1>1, ClaimsKept, AnswersKept, PTL

-----------------------------------------------------------------------------
(***************************************************************************)
(* One task to come back to.  A step leaves the snapshot of a task and     *)
(* whether it has ended alone, but for an end, a resumption and the first  *)
(* snapshot; and a first snapshot is left only where there is no other.    *)
(***************************************************************************)

\* What most steps do to a task: it keeps its snapshot, and is suspended at most.
Stays(t) ==
    /\ Saved(t)' <=> Saved(t)
    /\ \/ task'[t].state = task[t].state
       \/ task[t].state \in Live /\ task'[t].state = "suspended"

\* The task ends, and its snapshot goes.
Ends(t) == ~Saved(t)' /\ task'[t].state \in Terminal

\* The backend takes the task up again.
Resumed(t) ==
    /\ Saved(t)' /\ Saved(t) /\ task'[t].state = "running"
    /\ res' = [task |-> t, epoch |-> task'[t].epoch]
    /\ chat # "retire"

\* set_task_state changes nothing but its tasks, and a terminal state ends them.
LEMMA SetTaskStateSaved ==
    ASSUME StoreTypeOK, NEW S, NEW s \in Live \union Terminal, SetTaskState(S, s), NEW t \in Tasks
    PROVE  /\ t \notin S => (Saved(t)' <=> Saved(t)) /\ task'[t].state = task[t].state
           /\ t \in S => /\ task'[t].state = s
                         /\ IF s \in Terminal THEN ~Saved(t)' ELSE Saved(t)' <=> Saved(t)
<1>1. task'[t].state = IF t \in S THEN s ELSE task[t].state
  BY WithStateKeeps DEF SetTaskState
<1>2. ckpt' = IF s \in Terminal THEN {x \in ckpt : x[1] \notin S} ELSE ckpt
  BY DEF SetTaskState
<1> QED
  BY <1>1, <1>2 DEF Saved

\* A worker's step, the start of a new task and the first snapshot apart, leaves a
\* task alone or suspends it; only the process that executes a task ends it.
LEMMA WorkerStays ==
    ASSUME IInv, WorkInv, NEW w \in Pids, WorkerStep(w), ~StartNew(w), ~Authorize(w),
           NEW t \in Tasks
    PROVE  Stays(t) \/ (Ends(t) /\ Executes(w, t) /\ rt'[w] = Idle)
<1>1. StoreTypeOK /\ rt[w] \in Runtime /\ task \in [Tasks -> TaskRow] /\ rt \in [Pids -> Runtime]
  BY DEF IInv, TypeOK, StoreTypeOK, RuntimeTypeOK
<1>2. CASE UNCHANGED <<task, ckpt>>
  BY <1>2 DEF Stays, Saved
<1>3. CASE Bind(w)
  BY <1>3 DEF Bind, Stays, Saved
<1>4. CASE AdoptResume(w)
  <2>1. UNCHANGED task \/ task' = [task EXCEPT ![cmd[w].task].owner = w]
    BY <1>4 DEF AdoptResume, AdoptedBy
  <2>2. task'[t].state = task[t].state /\ UNCHANGED ckpt
    BY <1>1, <1>4, <2>1 DEF AdoptResume, TaskRow
  <2> QED
    BY <2>2 DEF Stays, Saved
<1>5. CASE Interrupt(w) \/ LeaveLoop(w)
  <2>1. CASE UNCHANGED ledger
    BY <1>2, <2>1 DEF ledger
  <2>2. CASE SuspendSession
    BY <1>1, <2>2, WithStateKeeps DEF SuspendSession, Stays, Saved, Live
  <2> QED
    BY <1>5, <2>1, <2>2 DEF Interrupt, LeaveLoop
<1>6. CASE Unwind(w)
  <2>1. CASE UNCHANGED ledger
    BY <1>2, <2>1 DEF ledger
  <2>2. CASE SetTaskState({rt[w].task}, "suspended")
    <3>1. t = rt[w].task => task[t].state \in Live
      BY <1>6 DEF Unwind, WorkInv, Executes, Executing
    <3>2. "suspended" \in Live \union Terminal /\ "suspended" \notin Terminal
      BY DEF Live, Terminal
    <3> QED
      BY <1>1, <2>2, <3>1, <3>2, SetTaskStateSaved DEF Stays
  <2> QED
    BY <1>6, <2>1, <2>2 DEF Unwind
<1>7. CASE Close(w)
  <2>1. Executes(w, rt[w].task) /\ SetTaskState({rt[w].task}, rt[w].close) /\ rt'[w] = Idle
    BY <1>1, <1>7 DEF Close, Executes, Executing
  <2>2. rt[w].close \in Terminal \/ rt[w].close = "suspended"
    BY <1>1 DEF Runtime, Terminal
  <2>3. rt[w].close \in Live \union Terminal /\ "suspended" \notin Terminal
    BY <2>2 DEF Live, Terminal
  <2>4. CASE t # rt[w].task
    BY <1>1, <2>1, <2>3, <2>4, SetTaskStateSaved DEF Stays
  <2>5. CASE t = rt[w].task
    <3>1. task[t].state \in Live
      BY <2>1, <2>5 DEF WorkInv
    <3>2. task'[t].state = rt[w].close
          /\ IF rt[w].close \in Terminal THEN ~Saved(t)' ELSE Saved(t)' <=> Saved(t)
      BY <1>1, <2>1, <2>3, <2>5, SetTaskStateSaved
    <3> QED
      BY <2>1, <2>2, <2>3, <2>5, <3>1, <3>2 DEF Stays, Ends
  <2> QED
    BY <2>4, <2>5
<1> QED
  BY <1>2, <1>3, <1>4, <1>5, <1>6, <1>7
  DEF WorkerStep, DropCommand, Abandon, AutoApprove, Settle, CheckCall, ClaimCall, StartBatch,
      RunTool, FinishCall, Complete, FailRound, ReadState, ExitWorker, CrashWorker, Dies, ledger

\* The sweep of pending() suspends at most.
LEMMA SweptStays ==
    ASSUME StoreTypeOK, NEW t \in Tasks
    PROVE  /\ Swept[t].state = task[t].state
                \/ (task[t].state \in Live /\ Swept[t].state = "suspended")
           /\ Swept \in [Tasks -> TaskRow]
           /\ Swept[t].owner = task[t].owner /\ Swept[t].epoch = task[t].epoch
<1>1. Swept[t].owner = task[t].owner /\ Swept[t].epoch = task[t].epoch
  BY WithStateKeeps DEF Swept
<1>2. Swept[t].state \in {task[t].state, "suspended"}
      /\ (Swept[t].state # task[t].state => task[t].state = "running")
  BY WithStateKeeps DEF Swept
<1> QED
  BY <1>1, <1>2, SweptType DEF Live

\* A claim of resume that is released at once leaves its task suspended, as it was
\* after the sweep.
LEMMA ClaimStays ==
    ASSUME IInv, NEW u \in Tasks, NEW p, Claim(u, p), NEW t \in Tasks
    PROVE  /\ Stays(t) \/ Resumed(t)
           /\ UNCHANGED <<ckpt, chat>>
           /\ task'[t].epoch = IF t = u THEN task[t].epoch + 1 ELSE task[t].epoch
           /\ t # u => task'[t].owner = task[t].owner
           /\ Swept[u].owner \notin alive /\ Exists(u)
           /\ \/ UNCHANGED res
              \/ /\ res = NoRes /\ chat # "retire" /\ ~GenerationRunning /\ BackendUp
                 /\ res' = [task |-> u, epoch |-> task'[u].epoch]
                 /\ Saved(u)' /\ task'[u].owner = backend
<1>1. StoreTypeOK /\ Swept \in [Tasks -> TaskRow] /\ task \in [Tasks -> TaskRow]
  BY SweptType DEF IInv, TypeOK, StoreTypeOK
<1>2. /\ Swept[u].state = "suspended" /\ Saved(u) /\ Swept[u].owner \notin alive /\ BackendUp
      /\ UNCHANGED <<ckpt, chat>>
  BY <1>1 DEF Claim, MayResume, Serving, Open
<1>3. Exists(u) /\ task[u].state \in Live
  BY <1>1, <1>2, SweptStays DEF Exists, Live
<1> DEFINE n == ResumedBy(Swept, u, backend)
<1>4. /\ n \in [Tasks -> TaskRow]
      /\ n[u] = [state |-> "running", owner |-> backend, epoch |-> task[u].epoch + 1]
      /\ t # u => n[t] = Swept[t]
  BY <1>1, ResumedByType, SweptStays DEF ResumedBy, IInv, TypeOK, ProcessTypeOK
<1> HIDE DEF n
<1>5. CASE GenerationRunning \/ chat = "retire" \/ res # NoRes
  <2>1. task' = ReleasedBy(n, u, task[u].epoch + 1, backend) /\ UNCHANGED res
    BY <1>5 DEF Claim, n
  <2>2. task'[u].state = "suspended" /\ task'[u].epoch = task[u].epoch + 1
    BY <1>4, <2>1 DEF ReleasedBy, Live
  <2>3. t # u => task'[t] = Swept[t]
    BY <1>1, <1>4, <2>1 DEF ReleasedBy
  <2>4. Stays(t)
    BY <1>1, <1>2, <1>3, <2>2, <2>3, SweptStays DEF Stays, Saved
  <2> QED
    BY <1>1, <1>2, <1>3, <2>1, <2>2, <2>3, <2>4, SweptStays
<1>6. CASE ~(GenerationRunning \/ chat = "retire" \/ res # NoRes)
  <2>1. task' = n /\ res' = [task |-> u, epoch |-> task[u].epoch + 1]
    BY <1>6 DEF Claim, n
  <2>2. Stays(t) \/ Resumed(t)
    <3>1. CASE t = u
      BY <1>2, <1>4, <1>6, <2>1, <3>1 DEF Resumed, Saved
    <3>2. CASE t # u
      BY <1>1, <1>2, <1>4, <2>1, <3>2, SweptStays DEF Stays, Saved
    <3> QED
      BY <3>1, <3>2
  <2> QED
    BY <1>1, <1>2, <1>3, <1>4, <1>6, <2>1, <2>2, SweptStays DEF Saved
<1> QED
  BY <1>5, <1>6

\* Taking the claims of a message, or releasing one, suspends at most.
LEMMA ReleasedStays ==
    ASSUME StoreTypeOK, NEW tasks \in {task, Swept}, NEW u, NEW e, NEW me, NEW t \in Tasks,
           task'[t] = ReleasedBy(tasks, u, e, me)[t], UNCHANGED ckpt
    PROVE  Stays(t) /\ task'[t].epoch = task[t].epoch
<1>1. Swept \in [Tasks -> TaskRow] /\ task \in [Tasks -> TaskRow]
  BY SweptType DEF StoreTypeOK
<1>2. tasks[t] \in TaskRow
  BY <1>1
<1>3. /\ tasks[t].epoch = task[t].epoch
      /\ \/ tasks[t].state = task[t].state
         \/ task[t].state \in Live /\ tasks[t].state = "suspended"
  BY SweptStays
<1>4. task'[t].epoch = tasks[t].epoch
      /\ \/ task'[t].state = tasks[t].state
         \/ tasks[t].state \in Live /\ task'[t].state = "suspended"
  BY <1>1, <1>2 DEF ReleasedBy, TaskRow
<1> QED
  BY <1>3, <1>4 DEF Stays, Saved, Live

\* A step of the backend leaves a task alone or suspends it, or takes it up again, or
\* ends it on behalf of a message that has claimed it.
LEMMA BackendStays ==
    ASSUME IInv, stop = NoStop, BackendStep, NEW t \in Tasks
    PROVE  \/ Stays(t) \/ Resumed(t)
           \/ RetireOne /\ t \in todo /\ todo' = todo \ {t} /\ Ends(t)
<1>1. StoreTypeOK /\ Swept \in [Tasks -> TaskRow] /\ task \in [Tasks -> TaskRow]
  BY SweptType DEF IInv, TypeOK, StoreTypeOK
<1>2. CASE UNCHANGED <<task, ckpt>>
  BY <1>2 DEF Stays, Saved
<1>3. CASE task' = Swept /\ UNCHANGED ckpt
  BY <1>1, <1>3, SweptStays DEF Stays, Saved
<1>4. CASE SuspendSession
  BY <1>1, <1>4, WithStateKeeps DEF SuspendSession, Stays, Saved, Live
<1>5. CASE ResumeTask \/ ResumeByDecision
  <2>1. PICK u, p : u \in Tasks /\ Claim(u, p)
    BY <1>5 DEF ResumeTask, ResumeByDecision, RowsOf
  <2> QED
    BY <2>1, ClaimStays
<1>6. CASE FailDispatch \/ ReleaseUnadopted \/ PollTimeout
  <2>1. UNCHANGED ckpt
    BY <1>6 DEF FailDispatch, ReleaseUnadopted, PollTimeout
  <2>2. \/ UNCHANGED task
        \/ \E tasks, u, e : tasks \in {task, Swept} /\ task' = ReleasedBy(tasks, u, e, backend)
    BY <1>6 DEF FailDispatch, ReleaseUnadopted, PollTimeout
  <2> QED
    BY <1>1, <1>2, <2>1, <2>2, ReleasedStays
<1>7. CASE MsgRetire
  <2>1. UNCHANGED ckpt
    BY <1>7 DEF MsgRetire
  <2>2. task' = Swept \/ \E S, me : task' = RetiredBy(Swept, S, me)
    BY <1>7 DEF MsgRetire
  <2>3. task'[t].state = Swept[t].state
    BY <1>1, <2>2, RetiredByKeeps
  <2> QED
    BY <1>1, <2>1, <2>3, SweptStays DEF Stays, Saved
<1>8. CASE RetireFail
  <2>1. UNCHANGED ckpt
    BY <1>8 DEF RetireFail
  <2>2. task'[t] = task[t] \/ task'[t] = ReleasedBy(task, t, task[t].epoch, backend)[t]
    BY <1>8 DEF RetireFail
  <2> QED
    BY <1>1, <2>1, <2>2, ReleasedStays DEF Stays, Saved
<1>9. CASE RetireOne
  <2>1. PICK u \in todo : SetTaskState({u}, "cancelled") /\ todo' = todo \ {u}
    BY <1>9 DEF RetireOne
  <2>2. "cancelled" \in Terminal /\ "cancelled" \in Live \union Terminal
    BY DEF Terminal
  <2>3. /\ t # u => (Saved(t)' <=> Saved(t)) /\ task'[t].state = task[t].state
        /\ t = u => ~Saved(t)' /\ task'[t].state = "cancelled"
    BY <1>1, <2>1, <2>2, SetTaskStateSaved
  <2> QED
    BY <1>9, <2>1, <2>2, <2>3 DEF Stays, Ends
<1>10. ~(StopTimeout \/ StopCollect \/ StopOne \/ StopFinish)
  BY DEF StopTimeout, StopCollect, StopOne, StopFinish, NoStop
<1> QED
  BY <1>2, <1>3, <1>4, <1>5, <1>6, <1>7, <1>8, <1>9, <1>10
  DEF BackendStep, StartBackend, CrashBackend, FinishShutdown, BackendGone, BeginShutdown,
      SendShutdown, Sweep, DispatchResume, DispatchNew, DecideLive, PollDecide, DecideWrite,
      SetPolicy, MsgBegin, MsgTimeout, Dies, StopBegin, ledger

\* The epoch of a task never goes back.
LEMMA EpochGrows ==
    ASSUME IInv, Next, NEW t \in Tasks, Exists(t)
    PROVE  Exists(t)' /\ task'[t].epoch >= task[t].epoch
<1>1. /\ StoreTypeOK /\ Swept \in [Tasks -> TaskRow] /\ task \in [Tasks -> TaskRow]
      /\ task[t].epoch \in Nat /\ Swept[t].epoch = task[t].epoch
  BY SweptType, SweptStays DEF IInv, TypeOK, StoreTypeOK, TaskRow
<1>2. ASSUME NEW w \in Pids, WorkerStep(w)
      PROVE  Exists(t)' /\ task'[t].epoch = task[t].epoch
  <2>1. CASE StartNew(w)
    <3>1. NewTask # t
      BY <2>1 DEF StartNew, Absent, NewTask, Exists
    <3> QED
      BY <1>1, <2>1, <3>1 DEF StartNew, CreatedTask, Exists
  <2>2. CASE AdoptResume(w)
    <3>1. UNCHANGED task \/ task' = [task EXCEPT ![cmd[w].task].owner = w]
      BY <2>2 DEF AdoptResume, AdoptedBy
    <3> QED
      BY <1>1, <3>1 DEF Exists, TaskRow
  <2> QED
    BY <1>2, <2>1, <2>2, WorkerTask
<1>3. ASSUME BackendStep
      PROVE  task'[t].epoch \in {task[t].epoch, task[t].epoch + 1}
  <2>1. CASE ResumeTask \/ ResumeByDecision
    <3>1. PICK u, p : u \in Tasks /\ Claim(u, p)
      BY <2>1 DEF ResumeTask, ResumeByDecision, RowsOf
    <3> QED
      BY <3>1, ClaimStays
  <2>2. CASE FailDispatch \/ ReleaseUnadopted \/ PollTimeout
    <3>1. UNCHANGED ckpt
      BY <2>2 DEF FailDispatch, ReleaseUnadopted, PollTimeout
    <3>2. \/ UNCHANGED task
          \/ \E tasks, u, e : tasks \in {task, Swept} /\ task' = ReleasedBy(tasks, u, e, backend)
      BY <2>2 DEF FailDispatch, ReleaseUnadopted, PollTimeout
    <3> QED
      BY <1>1, <3>1, <3>2, ReleasedStays
  <2>3. CASE MsgRetire
    <3>1. task' = Swept \/ \E S, me : task' = RetiredBy(Swept, S, me)
      BY <2>3 DEF MsgRetire
    <3>2. ASSUME NEW S, NEW me, task' = RetiredBy(Swept, S, me)
          PROVE  task'[t].epoch \in {task[t].epoch, task[t].epoch + 1}
      <4>1. Swept[t] \in TaskRow
        BY <1>1
      <4> QED
        BY <1>1, <3>2, <4>1 DEF RetiredBy, TaskRow
    <3> QED
      BY <1>1, <3>1, <3>2
  <2>4. CASE RetireFail
    <3>1. task'[t] = task[t] \/ task'[t] = ReleasedBy(task, t, task[t].epoch, backend)[t]
      BY <2>4 DEF RetireFail
    <3> QED
      BY <1>1, <2>4, <3>1, ReleasedStays DEF RetireFail
  <2>5. ASSUME NEW S, SetTaskState(S, "cancelled")
        PROVE  task'[t].epoch = task[t].epoch
    BY <1>1, <2>5, SetTaskStateKeeps DEF Terminal
  <2>6. SuspendSession => task'[t].epoch = task[t].epoch
    BY <1>1, SuspendSessionKeeps
  <2>7. RetireOne \/ StopOne \/ StopFinish => UNCHANGED task \/ \E S : SetTaskState(S, "cancelled")
    BY DEF RetireOne, StopOne, StopFinish, ledger
  <2>8. \/ ResumeTask \/ ResumeByDecision \/ FailDispatch \/ ReleaseUnadopted \/ PollTimeout
        \/ MsgRetire \/ RetireFail \/ RetireOne \/ StopOne \/ StopFinish
        \/ UNCHANGED task \/ task' = Swept \/ SuspendSession
    BY <1>3
    DEF BackendStep, StartBackend, CrashBackend, FinishShutdown, BackendGone, BeginShutdown,
        SendShutdown, Sweep, DispatchResume, DispatchNew, DecideLive, PollDecide, DecideWrite,
        SetPolicy, MsgBegin, MsgTimeout, Dies, StopBegin, StopTimeout, StopCollect, ledger
  <2> QED
    BY <1>1, <2>1, <2>2, <2>3, <2>4, <2>5, <2>6, <2>7, <2>8
<1>4. ASSUME BackendStep
      PROVE  Exists(t)'
  BY <1>4, BackendTask DEF Keeps
<1> QED
  BY <1>1, <1>2, <1>3, <1>4 DEF Next

\* The end of the backend, orderly or not, leaves no request and no worker of its own.
Gone == CrashBackend \/ FinishShutdown

\* Its coroutines end, the ledger stays.
LEMMA GoneLeaves ==
    ASSUME IInv, Gone
    PROVE  /\ res' = NoRes /\ watch' = {} /\ chat' = "none" /\ todo' = {}
           /\ worker' \notin alive' /\ UNCHANGED <<task, ckpt>>
  BY DEF Gone, CrashBackend, FinishShutdown, BackendGone, ledger, IInv, TypeOK, ProcessTypeOK

\* A command goes to the living worker or to a new process.
LEMMA Dispatched ==
    ASSUME IInv, NEW w \in Pids, NEW command, Dispatch(w, command), UNCHANGED rt
    PROVE  /\ worker' = w /\ cmd'[w] = command /\ rt'[w] = rt[w]
           /\ (worker \in alive /\ w = worker /\ cmd[w] = NoCmd) \/ rt[w].pc = "idle"
  BY FreshIsNew DEF Dispatch, DispatchTarget, Attached, IInv, TypeOK, ProcessTypeOK, ProcessInv

\* A step of the backend that neither ends a process nor sends a command.
Calm == /\ BackendStep /\ ~Gone /\ ~MsgTimeout /\ stop = NoStop
        /\ \A w \in Pids : ~DispatchResume(w) /\ ~DispatchNew(w)

\* It leaves the worker alone.
LEMMA CalmWorker ==
    ASSUME IInv, Calm
    PROVE  UNCHANGED <<worker, cmd, rt>> /\ (worker \in alive' => worker \in alive)
<1>1. ~(StopTimeout \/ StopCollect \/ StopOne \/ StopFinish)
  BY DEF Calm, StopTimeout, StopCollect, StopOne, StopFinish, NoStop
<1>2. CASE StartBackend
  <2>1. worker \in born \/ worker = NoPid
    BY DEF IInv, ProcessInv
  <2>2. worker # Fresh
    BY <1>2, <2>1, FreshIsNew DEF StartBackend
  <2> QED
    BY <1>2, <2>2 DEF StartBackend, pipe
<1> QED
  BY <1>1, <1>2
  DEF Calm, Gone, BackendStep, BeginShutdown, SendShutdown, Sweep, ResumeTask, ResumeByDecision,
      Claim, FailDispatch, ReleaseUnadopted, DecideLive, PollDecide, DecideWrite, PollTimeout,
      SetPolicy, MsgBegin, MsgRetire, RetireOne, RetireFail, StopBegin, process, pipe

\* The steps of the request that brings a message.
MessageStep == MsgBegin \/ MsgTimeout \/ MsgRetire \/ RetireOne \/ RetireFail

\* Nobody else moves that request on, but for the end of the backend and the dispatch.
LEMMA CalmMessage ==
    ASSUME IInv, Calm, ~MessageStep
    PROVE  UNCHANGED <<chat, todo>>
<1>1. ~(StopTimeout \/ StopCollect \/ StopOne \/ StopFinish)
  BY DEF Calm, StopTimeout, StopCollect, StopOne, StopFinish, NoStop
<1> QED
  BY <1>1
  DEF Calm, Gone, MessageStep, BackendStep, StartBackend, BeginShutdown, SendShutdown, Sweep,
      ResumeTask, ResumeByDecision, Claim, FailDispatch, ReleaseUnadopted, DecideLive, PollDecide,
      DecideWrite, PollTimeout, SetPolicy, StopBegin, handler

\* A worker's step leaves the requests of the backend alone.
LEMMA WorkerHandler ==
    ASSUME NEW w \in Pids, WorkerStep(w)
    PROVE  UNCHANGED <<handler, worker, backend>>
  BY DEF WorkerStep, StartNew, AdoptResume, DropCommand, Bind, Abandon, Authorize, AutoApprove,
         Settle, CheckCall, ClaimCall, StartBatch, RunTool, FinishCall, Complete, FailRound,
         Interrupt, Unwind, ReadState, Close, LeaveLoop, ExitWorker, CrashWorker, Dies, process

\* One process at a time executes a task.
LEMMA OneExecutes ==
    ASSUME IInv, NEW p \in Pids, NEW q \in Pids, NEW t \in Tasks, Executes(p, t), Executes(q, t)
    PROVE  p = q
  BY DEF IInv, OwnerInv

\* A new snapshot is the first one of its task, left by the worker of the backend.
LEMMA SavedGrows ==
    ASSUME IInv, SnapshotInv, Next, NEW t \in Tasks, Saved(t)', ~Saved(t)
    PROVE  \E w \in Pids : /\ Authorize(w) /\ w = worker /\ t = rt[w].task
                           /\ Executes(w, t) /\ MaySave(worker)
<1>1. PICK w \in Pids : WorkerStep(w)
  BY BackendStays DEF Next, SnapshotInv, Stays, Ends, Resumed
<1>2. ~StartNew(w)
  BY DEF StartNew, Saved
<1>3. Authorize(w)
  BY <1>1, <1>2, WorkerStays DEF SnapshotInv, Stays, Ends
<1>4. w = worker /\ w \in alive /\ rt[w].pc = "ready" /\ ckpt' = ckpt \union {<<rt[w].task, "main">>}
  BY <1>3 DEF Authorize, Attached
<1>5. t = rt[w].task
  BY <1>4 DEF Saved
<1> QED
  BY <1>3, <1>4, <1>5 DEF MaySave, Executes, Executing

\* What Authorize does to a task beside: nothing.
LEMMA AuthorizeStays ==
    ASSUME IInv, NEW w \in Pids, Authorize(w)
    PROVE  /\ w = worker /\ Executes(w, rt[w].task) /\ rt[w].task \in Tasks
           /\ UNCHANGED <<task, alive, cmd>>
           /\ rt'[w].task = rt[w].task
           /\ \A t : Saved(t)' <=> Saved(t) \/ t = rt[w].task
<1>1. w = worker /\ w \in alive /\ rt[w].pc = "ready" /\ UNCHANGED <<task, alive, cmd>>
      /\ ckpt' = ckpt \union {<<rt[w].task, "main">>}
  BY DEF Authorize, Attached, process, pipe
<1>2. rt[w].task \in Tasks /\ rt \in [Pids -> Runtime]
  BY <1>1 DEF IInv, TypeOK, RuntimeTypeOK, OwnerInv, Busy, Exists
<1>3. rt'[w].task = rt[w].task
  BY <1>2 DEF Authorize, Fail, Runtime
<1> QED
  BY <1>1, <1>2, <1>3 DEF Executes, Executing, Saved

\* A worker's step that takes nothing up keeps what is being worked on.
LEMMA WorkerMaySave ==
    ASSUME IInv, SnapshotInv, NEW w \in Pids, WorkerStep(w), MaySave(worker)'
    PROVE  MaySave(worker) /\ ~Authorize(w)
<1>1. /\ UNCHANGED worker /\ \A p \in Pids \ {w} : rt'[p] = rt[p]
      /\ cmd \in [Pids -> Commands] /\ rt \in [Pids -> Runtime] /\ w \in alive
  BY WorkerHandler, WorkerLocal DEF IInv, TypeOK, ProcessTypeOK, RuntimeTypeOK
<1>0. /\ worker' \in alive'
      /\ \/ cmd'[worker'].kind = "new"
         \/ rt'[worker'].pc \in Executing /\ <<rt'[worker'].task, "main">> \notin ckpt'
  BY DEF MaySave, Saved
<1>2. worker \in Pids
  BY <1>1, ProcessType DEF MaySave, ProcessTypeOK, Next
<1>3. alive' \subseteq alive
  <2>1. StartNew(w) \/ AdoptResume(w) => UNCHANGED alive
    BY DEF StartNew, AdoptResume, process
  <2> QED
    BY <2>1, WorkerExecutes
<1>4. worker \in alive
  BY <1>1, <1>3 DEF MaySave
<1>5. cmd'[worker] = cmd[worker] \/ cmd'[worker] = NoCmd
  BY <1>2, WorkerCommand
<1>6. cmd'[worker].kind = "new" => cmd[worker].kind = "new"
  BY <1>5 DEF NoCmd
<1>7. CASE StartNew(w)
  <2>1. UNCHANGED ckpt /\ cmd[w].kind = "new"
    BY <1>7 DEF StartNew
  <2>2. ~Authorize(w)
    BY <1>7 DEF StartNew, Authorize
  <2> QED
    BY <1>1, <1>2, <1>4, <1>6, <2>1, <2>2 DEF MaySave, Saved
<1>8. CASE AdoptResume(w)
  <2>1. /\ UNCHANGED ckpt /\ cmd' = [cmd EXCEPT ![w] = NoCmd]
        /\ cmd[w].kind = "resume" /\ rt[w].pc = "idle"
    BY <1>8 DEF AdoptResume
  <2>2. CASE task[cmd[w].task].state = "running"
    <3>1. rt'[w].pc = "starting" /\ rt'[w].task = cmd[w].task
      <4>1. \E e : StartedAs(w, cmd[w].task, e)
        BY <1>8, <2>2 DEF AdoptResume
      <4>2. \E e : rt'[w] = [Idle EXCEPT !.pc = "starting", !.task = cmd[w].task, !.epoch = e]
        BY <1>1, <4>1 DEF StartedAs
      <4> QED
        BY <4>2 DEF Idle
    <3>2. w = worker => Saved(cmd[w].task) /\ cmd'[w] = NoCmd
      BY <1>1, <2>1, <2>2 DEF SnapshotInv, HandInv
    <3>3. w # worker
      BY <1>1, <2>1, <3>1, <3>2 DEF MaySave, Saved, NoCmd
    <3>4. ~Authorize(w)
      BY <2>1 DEF Authorize
    <3> QED
      BY <1>0, <1>1, <1>2, <1>4, <1>6, <2>1, <3>3, <3>4 DEF MaySave, Saved
  <2>3. CASE task[cmd[w].task].state # "running"
    <3>1. UNCHANGED rt /\ ~Authorize(w)
      BY <1>8, <2>1, <2>3 DEF AdoptResume, Authorize
    <3> QED
      BY <1>1, <1>4, <1>6, <2>1, <3>1 DEF MaySave, Saved
  <2> QED
    BY <2>2, <2>3
<1>9. CASE Authorize(w)
  <2>1. /\ w = worker /\ UNCHANGED cmd /\ rt'[w].task = rt[w].task
        /\ Executes(w, rt[w].task) /\ <<rt[w].task, "main">> \in ckpt'
    BY <1>9, AuthorizeStays DEF Saved
  <2>2. rt[w].pc \in Executing
    BY <2>1 DEF Executes
  <2>3. cmd[worker].kind # "new"
    BY <1>4, <2>1, <2>2 DEF SnapshotInv, NewInv
  <2> QED
    BY <1>0, <1>1, <2>1, <2>3
<1>10. CASE ~StartNew(w) /\ ~AdoptResume(w) /\ ~Authorize(w)
  <2>1. CASE cmd'[worker].kind = "new"
    BY <1>4, <1>6, <1>10, <2>1 DEF MaySave
  <2>2. CASE rt'[worker].pc \in Executing /\ <<rt'[worker].task, "main">> \notin ckpt'
    <3>1. PICK v \in Pids : v = worker
      BY <1>2
    <3>2. PICK t : t = rt'[worker].task
      OBVIOUS
    <3>3. Executes(v, t)'
      BY <1>0, <1>1, <2>2, <3>1, <3>2 DEF Executes
    <3>4. Executes(v, t)
      BY <1>10, <3>3, WorkerExecutes
    <3>5. Executes(worker, t) /\ rt[worker].task = t /\ rt[worker].pc \in Executing
      BY <3>1, <3>4 DEF Executes
    <3>6. t \in Tasks
      BY <1>2, <3>5 DEF IInv, OwnerInv, Busy, Executing, Exists
    <3>7. ~(Executes(w, t) /\ rt'[w] = Idle)
      <4>1. ASSUME Executes(w, t), rt'[w] = Idle
            PROVE  FALSE
        <5>1. w = worker
          BY <1>2, <3>5, <3>6, <4>1, OneExecutes
        <5> QED
          BY <2>2, <4>1, <5>1 DEF Idle, Executing
      <4> QED
        BY <4>1
    <3>8. Stays(t)
      BY <1>10, <3>6, <3>7, WorkerStays DEF SnapshotInv
    <3>9. ~Saved(t)
      BY <2>2, <3>8, <3>2 DEF Stays, Saved
    <3> QED
      BY <1>4, <1>10, <3>5, <3>9 DEF MaySave
  <2> QED
    BY <1>0, <1>1, <2>1, <2>2
<1> QED
  BY <1>7, <1>8, <1>9, <1>10

\* So does a step of the backend, but for the dispatch of a message.
LEMMA BackendMaySave ==
    ASSUME IInv, SnapshotInv, BackendStep, MaySave(worker)', \A w \in Pids : ~DispatchNew(w)
    PROVE  MaySave(worker)
<1>1. cmd \in [Pids -> Commands] /\ rt \in [Pids -> Runtime] /\ stop = NoStop
  BY DEF IInv, TypeOK, ProcessTypeOK, RuntimeTypeOK, SnapshotInv
<1>2. ~Gone
  BY GoneLeaves DEF MaySave
<1>3. ~MsgTimeout
  BY DEF MsgTimeout, Dies, MaySave
<1>4. ASSUME NEW w \in Pids, DispatchResume(w)
      PROVE  MaySave(worker)
  <2>1. Dispatch(w, [kind |-> "resume", task |-> res.task]) /\ UNCHANGED <<ckpt, rt>>
    BY <1>4 DEF DispatchResume, ledger
  <2>2. /\ worker' = w /\ cmd'[w].kind = "resume" /\ rt'[w] = rt[w]
        /\ (worker \in alive /\ w = worker) \/ rt[w].pc = "idle"
    BY <2>1, Dispatched
  <2>3. \/ cmd'[worker'].kind = "new"
        \/ rt'[worker'].pc \in Executing /\ <<rt'[worker'].task, "main">> \notin ckpt'
    BY DEF MaySave, Saved
  <2>4. rt[w].pc \in Executing /\ <<rt[w].task, "main">> \notin ckpt
    BY <2>1, <2>2, <2>3
  <2> QED
    BY <2>2, <2>4 DEF MaySave, Saved, Executing
<1>5. CASE Calm
  <2>1. UNCHANGED <<worker, cmd, rt>> /\ worker \in alive /\ worker \in Pids
    BY <1>5, CalmWorker, WorkerIsNotBackend DEF MaySave
  <2>2. CASE cmd[worker].kind = "new"
    BY <2>1, <2>2 DEF MaySave
  <2>3. CASE rt[worker].pc \in Executing /\ <<rt[worker].task, "main">> \notin ckpt'
    <3>1. PICK t \in Tasks : t = rt[worker].task /\ Executes(worker, t)
      BY <2>1, <2>3 DEF IInv, OwnerInv, Busy, Executing, Exists, Executes
    <3>2. ~RetireOne
      BY <2>1, <2>3 DEF RetireOne, SnapshotInv, RetireInv
    <3>3. Stays(t) \/ Resumed(t)
      BY <1>1, <3>1, <3>2, BackendStays
    <3>4. ~Saved(t)
      BY <2>3, <3>1, <3>3 DEF Stays, Resumed, Saved
    <3> QED
      BY <2>1, <2>3, <3>1, <3>4 DEF MaySave
  <2>4. \/ cmd'[worker'].kind = "new"
        \/ rt'[worker'].pc \in Executing /\ <<rt'[worker'].task, "main">> \notin ckpt'
    BY DEF MaySave, Saved
  <2> QED
    BY <2>1, <2>2, <2>3, <2>4
<1> QED
  BY <1>1, <1>2, <1>3, <1>4, <1>5 DEF Calm

\* Before a message is dispatched there is no snapshot, and the worker has no task.
LEMMA DispatchNewMakes ==
    ASSUME IInv, SnapshotInv, NEW w \in Pids, DispatchNew(w)
    PROVE  /\ \A t \in Tasks : ~Saved(t) /\ ~Saved(t)'
           /\ worker' = w /\ rt'[w].pc \notin Executing /\ chat' = "none"
<1>1. /\ chat = "retire" /\ todo = {} /\ UNCHANGED <<ckpt, rt>> /\ chat' = "none"
      /\ Dispatch(w, [kind |-> "new", task |-> NoTask])
  BY DEF DispatchNew, ledger
<1>2. \A t \in Tasks : ~Saved(t)
  BY <1>1 DEF SnapshotInv, RetireInv
<1>3. worker' = w /\ rt'[w] = rt[w] /\ ((worker \in alive /\ w = worker) \/ rt[w].pc = "idle")
  BY <1>1, Dispatched
<1>4. rt[w].pc \notin Executing
  BY <1>1, <1>3 DEF SnapshotInv, RetireInv, Executing
<1> QED
  BY <1>1, <1>2, <1>3, <1>4 DEF Saved

\* Every step keeps the snapshots to one.
LEMMA OneStep ==
    ASSUME IInv, SnapshotInv, Next
    PROVE  OneSaved'
<1>1. ASSUME NEW t \in Tasks, Saved(t)', ~Saved(t), NEW u \in Tasks, Saved(u)'
      PROVE  u = t
  <2>1. PICK w \in Pids : w = worker /\ t = rt[w].task /\ MaySave(worker)
    BY <1>1, SavedGrows
  <2>2. ~Saved(u)
    BY <2>1 DEF SnapshotInv, NewInv
  <2> QED
    BY <1>1, <2>1, <2>2, SavedGrows
<1> QED
  BY <1>1 DEF SnapshotInv, OneSaved

\* Every step keeps NewInv.
LEMMA NewStep ==
    ASSUME Uncontested', IInv, SnapshotInv, Next
    PROVE  NewInv'
<1>1. /\ cmd \in [Pids -> Commands] /\ rt \in [Pids -> Runtime] /\ stop = NoStop
      /\ ProcessTypeOK'
  BY ProcessType DEF IInv, TypeOK, ProcessTypeOK, RuntimeTypeOK, SnapshotInv
<1>2. ASSUME MaySave(worker)', NEW t \in Tasks
      PROVE  ~Saved(t)'
  <2>1. CASE \E w \in Pids : DispatchNew(w)
    BY <2>1, DispatchNewMakes
  <2>2. CASE ~(\E w \in Pids : DispatchNew(w))
    <3>1. MaySave(worker)
      BY <1>2, <2>2, WorkerMaySave, BackendMaySave DEF Next
    <3>2. ~Saved(t)
      BY <3>1 DEF SnapshotInv, NewInv
    <3>3. ASSUME Saved(t)'
          PROVE  FALSE
      <4>1. PICK w \in Pids : Authorize(w) /\ w = worker
        BY <3>2, <3>3, SavedGrows
      <4>2. WorkerStep(w)
        BY <4>1 DEF WorkerStep
      <4> QED
        BY <1>2, <4>1, <4>2, WorkerMaySave
    <3> QED
      BY <3>3
  <2> QED
    BY <2>1, <2>2
<1>3. ASSUME worker' \in alive', cmd'[worker'].kind = "new"
      PROVE  rt'[worker'].pc \notin Executing
  <2>1. MaySave(worker)' /\ worker' \in Pids
    BY <1>1, <1>3 DEF MaySave, ProcessTypeOK
  <2>2. CASE \E w \in Pids : DispatchNew(w)
    BY <2>2, DispatchNewMakes
  <2>3. ASSUME NEW w \in Pids, WorkerStep(w)
        PROVE  rt'[worker'].pc \notin Executing
    <3>1. /\ UNCHANGED worker /\ \A p \in Pids \ {w} : rt'[p] = rt[p]
          /\ cmd'[worker] = cmd[worker] \/ cmd'[worker] = NoCmd
          /\ worker \in alive
      BY <2>1, <2>3, WorkerHandler, WorkerLocal, WorkerCommand, WorkerMaySave DEF MaySave
    <3>2. cmd[worker].kind = "new"
      BY <1>3, <3>1 DEF NoCmd
    <3>3. rt[worker].pc \notin Executing
      BY <3>1, <3>2 DEF SnapshotInv, NewInv
    <3>4. CASE w = worker /\ (StartNew(w) \/ AdoptResume(w))
      <4>1. cmd' = [cmd EXCEPT ![w] = NoCmd]
        BY <3>4 DEF StartNew, AdoptResume
      <4> QED
        BY <1>1, <1>3, <3>1, <3>4, <4>1 DEF NoCmd
    <3>5. CASE w = worker /\ ~(StartNew(w) \/ AdoptResume(w))
      <4>1. \A t : Executes(worker, t)' => Executes(worker, t)
        BY <2>1, <2>3, <3>1, <3>5, WorkerExecutes
      <4>2. PICK t : t = rt'[worker].task
        OBVIOUS
      <4> QED
        BY <1>3, <3>1, <3>3, <4>1, <4>2 DEF Executes
    <3>6. CASE w # worker
      BY <2>1, <3>1, <3>3, <3>6
    <3> QED
      BY <3>4, <3>5, <3>6
  <2>4. CASE BackendStep /\ ~(\E w \in Pids : DispatchNew(w))
    <3>1. ~Gone /\ ~MsgTimeout
      BY <1>3, GoneLeaves DEF MsgTimeout, Dies
    <3>2. ASSUME NEW w \in Pids
          PROVE  ~DispatchResume(w)
      <4>1. DispatchResume(w) => worker' = w /\ cmd'[w].kind = "resume"
        BY Dispatched DEF DispatchResume
      <4> QED
        BY <1>3, <4>1
    <3>3. Calm
      BY <1>1, <2>4, <3>1, <3>2 DEF Calm
    <3> QED
      BY <1>3, <3>3, CalmWorker DEF SnapshotInv, NewInv
  <2> QED
    BY <2>2, <2>3, <2>4 DEF Next
<1>4. ASSUME chat' = "over", MaySave(worker)'
      PROVE  FALSE
  <2>1. ~(\E w \in Pids : DispatchNew(w))
    BY <1>4, DispatchNewMakes
  <2>2. MaySave(worker)
    BY <1>4, <2>1, WorkerMaySave, BackendMaySave DEF Next
  <2>3. chat # "over"
    BY <2>2 DEF SnapshotInv, NewInv
  <2>4. ~(\E w \in Pids : WorkerStep(w))
    BY <1>4, <2>3, WorkerHandler DEF handler
  <2>5. ~Gone /\ ~MsgTimeout
    BY <1>4, GoneLeaves DEF MsgTimeout, Dies, MaySave
  <2>6. \A w \in Pids : ~DispatchResume(w)
    BY <1>4, <2>3 DEF DispatchResume
  <2>7. Calm
    BY <1>1, <2>1, <2>4, <2>5, <2>6 DEF Calm, Next
  <2>8. MessageStep
    BY <1>4, <2>3, <2>7, CalmMessage
  <2> QED
    BY <1>4, <2>3, <2>5, <2>8 DEF MessageStep, MsgBegin, MsgRetire, RetireOne, RetireFail
<1> QED
  BY <1>2, <1>3, <1>4 DEF NewInv, Saved, MaySave

\* Who executes a task after a step did so before, or has just taken it up.
LEMMA TakenUp ==
    ASSUME IInv, Next, NEW p \in Pids, NEW t \in Tasks, Executes(p, t)'
    PROVE  \/ Executes(p, t) /\ ~StartNew(p) /\ ~AdoptResume(p)
           \/ StartNew(p) /\ t = NewTask
           \/ AdoptResume(p) /\ t = cmd[p].task /\ task[t].state = "running"
<1>1. rt \in [Pids -> Runtime] /\ cmd \in [Pids -> Commands] /\ Idle.pc \notin Executing
  BY DEF IInv, TypeOK, RuntimeTypeOK, ProcessTypeOK, Idle, Executing
<1>2. CASE BackendStep
  <2>1. Executes(p, t)
    BY <1>2, BackendExecutes
  <2> QED
    BY <2>1 DEF Executes, Executing, StartNew, AdoptResume
<1>3. ASSUME NEW w \in Pids, WorkerStep(w), w # p
      PROVE  Executes(p, t) /\ ~StartNew(p) /\ ~AdoptResume(p)
  <2>1. rt'[p] = rt[p]
    BY <1>3, WorkerLocal
  <2>2. p \in alive
    BY <2>1 DEF Executes, Executing, IInv, ProcessInv
  <2> QED
    BY <2>1, <2>2 DEF Executes, Executing, StartNew, AdoptResume
<1>4. CASE StartNew(p)
  BY <1>1, <1>4 DEF StartNew, StartedAs, Idle, Executes
<1>5. CASE AdoptResume(p)
  <2>1. rt[p].pc = "idle"
    BY <1>5 DEF AdoptResume
  <2>2. rt'[p] # rt[p]
    BY <2>1 DEF Executes, Executing
  <2>3. task[cmd[p].task].state = "running" /\ StartedAs(p, cmd[p].task, task[cmd[p].task].epoch)
    BY <1>5, <2>2 DEF AdoptResume
  <2> QED
    BY <1>1, <1>5, <2>3 DEF StartedAs, Idle, Executes
<1>6. CASE WorkerStep(p) /\ ~StartNew(p) /\ ~AdoptResume(p)
  BY <1>6, WorkerExecutes
<1> QED
  BY <1>2, <1>3, <1>4, <1>5, <1>6 DEF Next

\* A task in somebody's hands does not end by anybody else's step.
LEMMA ExecutedStays ==
    ASSUME IInv, SnapshotInv, Next, NEW p \in Pids, NEW t \in Tasks, Executes(p, t),
           Executes(p, t)'
    PROVE  task'[t].state \in Live
<1>1. task[t].state \in Live
  BY DEF SnapshotInv, WorkInv
<1>2. CASE BackendStep
  <2>1. ~(RetireOne /\ t \in todo)
    BY DEF RetireOne, SnapshotInv, RetireInv
  <2> QED
    BY <1>1, <1>2, <2>1, BackendStays DEF SnapshotInv, Stays, Resumed, Live
<1>3. ASSUME NEW w \in Pids, WorkerStep(w)
      PROVE  task'[t].state \in Live
  <2>1. CASE StartNew(w)
    <3>1. task' = [task EXCEPT ![NewTask] = [state |-> "running", owner |-> w, epoch |-> 1]]
      BY <2>1 DEF StartNew, CreatedTask
    <3> QED
      BY <1>1, <3>1 DEF IInv, TypeOK, StoreTypeOK, Live
  <2>2. CASE Authorize(w)
    BY <1>1, <2>2, AuthorizeStays
  <2>3. CASE ~StartNew(w) /\ ~Authorize(w)
    <3>1. ~(Executes(w, t) /\ rt'[w] = Idle)
      BY OneExecutes DEF Idle, Executes, Executing
    <3> QED
      BY <1>1, <1>3, <2>3, <3>1, WorkerStays DEF SnapshotInv, Stays, Live
  <2> QED
    BY <2>1, <2>2, <2>3
<1> QED
  BY <1>2, <1>3 DEF Next

\* Every step keeps WorkInv.
LEMMA WorkStep ==
    ASSUME IInv, SnapshotInv, Next
    PROVE  WorkInv'
<1>1. task \in [Tasks -> TaskRow]
  BY DEF IInv, TypeOK, StoreTypeOK
<1>2. ASSUME NEW p \in Pids, NEW t \in Tasks, Executes(p, t)'
      PROVE  task'[t].state \in Live
  <2>1. CASE Executes(p, t)
    BY <1>2, <2>1, ExecutedStays
  <2>2. CASE StartNew(p) /\ t = NewTask
    BY <1>1, <2>2 DEF StartNew, CreatedTask, Live
  <2>3. CASE AdoptResume(p) /\ t = cmd[p].task /\ task[t].state = "running"
    BY <1>1, <2>3 DEF AdoptResume, AdoptedBy, TaskRow, Live
  <2> QED
    BY <1>2, <2>1, <2>2, <2>3, TakenUp
<1>3. ASSUME NEW t \in Tasks, Saved(t)'
      PROVE  task'[t].state \in Live
  <2>1. CASE ~Saved(t)
    <3>1. PICK w \in Pids : Authorize(w) /\ Executes(w, t)
      BY <1>3, <2>1, SavedGrows
    <3>2. UNCHANGED task
      BY <3>1, AuthorizeStays
    <3> QED
      BY <3>1, <3>2 DEF SnapshotInv, WorkInv
  <2>2. CASE Saved(t)
    <3>1. task[t].state \in Live
      BY <2>2 DEF SnapshotInv, WorkInv
    <3>2. CASE BackendStep
      BY <1>3, <3>1, <3>2, BackendStays DEF SnapshotInv, Stays, Ends, Resumed, Live
    <3>3. ASSUME NEW w \in Pids, WorkerStep(w)
          PROVE  task'[t].state \in Live
      <4>1. CASE StartNew(w)
        <5>1. task' = [task EXCEPT ![NewTask] = [state |-> "running", owner |-> w, epoch |-> 1]]
          BY <4>1 DEF StartNew, CreatedTask
        <5> QED
          BY <1>1, <3>1, <5>1 DEF Live
      <4>2. CASE Authorize(w)
        BY <3>1, <4>2, AuthorizeStays
      <4>3. CASE ~StartNew(w) /\ ~Authorize(w)
        BY <1>3, <3>1, <3>3, <4>3, WorkerStays DEF SnapshotInv, Stays, Ends, Live
      <4> QED
        BY <4>1, <4>2, <4>3
    <3> QED
      BY <3>2, <3>3 DEF Next
  <2> QED
    BY <2>1, <2>2
<1> QED
  BY <1>2, <1>3 DEF WorkInv

\* What RetireInv asks of the worker: it has nothing to do.
Unused == worker \in alive =>
            /\ rt[worker].pc \notin Executing /\ cmd[worker].kind # "new"
            /\ cmd[worker].kind = "resume" => task[cmd[worker].task].state # "running"

\* What RetireInv asks of the tasks: the message holds them.
Held == /\ \A t \in Tasks : Saved(t) => t \in todo
        /\ \A t \in todo : task[t].state = "suspended" /\ \A p \in Pids : ~Executes(p, t)

\* A worker's step leaves a message that holds its tasks alone.
LEMMA WorkerRetire ==
    ASSUME IInv, SnapshotInv, NEW w \in Pids, WorkerStep(w), chat = "retire"
    PROVE  Held' /\ Unused'
<1>1. /\ Held /\ Unused /\ res = NoRes /\ todo \subseteq Tasks
      /\ task \in [Tasks -> TaskRow] /\ cmd \in [Pids -> Commands]
  BY DEF SnapshotInv, RetireInv, Held, Unused, IInv, TypeOK, HandlerTypeOK, StoreTypeOK,
         ProcessTypeOK
<1>2. /\ UNCHANGED <<handler, worker>> /\ w \in alive /\ UNCHANGED todo
      /\ \A p \in Pids \ {w} : rt'[p] = rt[p]
      /\ \A p \in Pids : cmd'[p] = cmd[p] \/ cmd'[p] = NoCmd
  BY WorkerHandler, WorkerLocal, WorkerCommand DEF handler
<1>3. Next
  BY DEF Next
<1>4. ~Authorize(w)
  BY <1>1, AuthorizeStays DEF Authorize, Attached, Unused, Executing
<1>5. StartNew(w) => w # worker
  BY <1>1 DEF StartNew, Unused
<1>6. AdoptResume(w) /\ w = worker => UNCHANGED <<task, rt>>
  BY <1>1 DEF AdoptResume, Unused
<1>7. ASSUME NEW t \in Tasks, Exists(t)
      PROVE  /\ Saved(t)' => Saved(t)
             /\ task'[t].state = task[t].state \/ task'[t].state # "running"
             /\ t \in todo => task'[t].state = "suspended"
  <2>1. CASE StartNew(w)
    <3>1. NewTask # t /\ UNCHANGED ckpt
      BY <1>7, <2>1 DEF StartNew, Absent, NewTask, Exists
    <3>2. task'[t] = task[t]
      BY <1>1, <2>1, <3>1 DEF StartNew, CreatedTask
    <3> QED
      BY <1>1, <3>1, <3>2 DEF Saved, Held
  <2>2. CASE ~StartNew(w)
    <3>1. Stays(t) \/ (Ends(t) /\ Executes(w, t))
      BY <1>4, <2>2, WorkerStays DEF SnapshotInv
    <3>2. t \in todo => Stays(t) /\ task[t].state = "suspended"
      BY <1>1, <3>1 DEF Held
    <3> QED
      BY <3>1, <3>2 DEF Stays, Ends, Terminal
  <2> QED
    BY <2>1, <2>2
<1>8. \A t \in todo : t \in Tasks /\ Exists(t)
  BY <1>1 DEF Held, Exists
<1>9. ASSUME NEW t \in Tasks, Saved(t)'
      PROVE  t \in todo
  <2>1. Saved(t)
    BY <1>3, <1>4, <1>9, SavedGrows, <1>2, <1>1 DEF Unused, Executes
  <2> QED
    BY <1>1, <2>1 DEF Held
<1>10. ASSUME NEW t \in todo, NEW p \in Pids, Executes(p, t)'
       PROVE  FALSE
  <2>1. ~Executes(p, t) /\ task[t].state = "suspended" /\ t \in Tasks
    BY <1>1, <1>8 DEF Held
  <2>2. StartNew(p) /\ t = NewTask
    BY <1>3, <1>10, <2>1, TakenUp
  <2> QED
    BY <2>1, <2>2 DEF StartNew, Absent, NewTask
<1>11. Held'
  BY <1>2, <1>7, <1>8, <1>9, <1>10 DEF Held
<1>12. ASSUME worker' \in alive'
       PROVE  /\ rt'[worker].pc \notin Executing /\ cmd'[worker].kind # "new"
              /\ cmd'[worker].kind = "resume" => task'[cmd'[worker].task].state # "running"
  <2>1. worker \in Pids /\ worker \in alive
    <3>1. alive' \subseteq alive
      <4>1. StartNew(w) \/ AdoptResume(w) => UNCHANGED alive
        BY DEF StartNew, AdoptResume, process
      <4> QED
        BY <4>1, WorkerExecutes
    <3> QED
      BY <1>2, <1>12, <3>1, WorkerIsNotBackend
  <2>2. cmd'[worker].kind # "new"
    BY <1>1, <1>2, <2>1 DEF Unused, NoCmd
  <2>3. rt'[worker].pc \notin Executing
    <3>1. CASE StartNew(w) \/ AdoptResume(w)
      BY <1>1, <1>2, <1>5, <1>6, <2>1, <3>1 DEF Unused
    <3>2. CASE ~(StartNew(w) \/ AdoptResume(w))
      <4>1. PICK v \in Pids : v = worker
        BY <2>1
      <4>2. PICK t : t = rt'[worker].task
        OBVIOUS
      <4>3. Executes(v, t)' => Executes(v, t)
        BY <3>2, WorkerExecutes
      <4> QED
        BY <1>1, <1>2, <1>12, <2>1, <4>1, <4>2, <4>3 DEF Executes, Unused
    <3> QED
      BY <3>1, <3>2
  <2>4. ASSUME cmd'[worker].kind = "resume"
        PROVE  task'[cmd'[worker].task].state # "running"
    <3>1. cmd'[worker] = cmd[worker]
      BY <1>2, <2>1, <2>4 DEF NoCmd
    <3>2. PICK t \in Tasks : t = cmd[worker].task /\ Exists(t)
      BY <2>1, <2>4, <3>1 DEF IInv, OwnerInv, Handed, Exists
    <3>3. task[t].state # "running"
      BY <1>1, <2>1, <2>4, <3>1, <3>2 DEF Unused
    <3> QED
      BY <1>7, <3>1, <3>2, <3>3
  <2> QED
    BY <2>2, <2>3, <2>4
<1>13. Unused'
  BY <1>2, <1>12 DEF Unused
<1> QED
  BY <1>11, <1>13

\* So does a step of the backend, RetireOne included, until the message moves on.
LEMMA BackendRetire ==
    ASSUME IInv, SnapshotInv, BackendStep, chat = "retire", chat' = "retire"
    PROVE  Held' /\ Unused' /\ res' = NoRes
<1>1. /\ Held /\ Unused /\ res = NoRes /\ todo \subseteq Tasks /\ stop = NoStop
      /\ cmd \in [Pids -> Commands]
  BY DEF SnapshotInv, RetireInv, Held, Unused, IInv, TypeOK, HandlerTypeOK, ProcessTypeOK
<1>2. Calm
  <2>1. ~Gone
    BY GoneLeaves
  <2>2. ~MsgTimeout /\ \A w \in Pids : ~DispatchResume(w) /\ ~DispatchNew(w)
    BY <1>1 DEF MsgTimeout, DispatchResume, DispatchNew
  <2> QED
    BY <1>1, <2>1, <2>2 DEF Calm
<1>3. UNCHANGED <<worker, cmd, rt>> /\ (worker \in alive' => worker \in alive)
  BY <1>2, CalmWorker
<1>4. /\ ~MsgBegin /\ ~MsgRetire /\ ~RetireFail
      /\ ~RetireOne => UNCHANGED todo
      /\ todo' \subseteq todo
  <2>1. ~MsgBegin /\ ~MsgRetire /\ ~RetireFail /\ ~MsgTimeout
    BY DEF MsgBegin, MsgRetire, RetireFail, MsgTimeout
  <2>2. ~RetireOne => UNCHANGED todo
    BY <1>2, <2>1, CalmMessage DEF MessageStep
  <2> QED
    BY <2>1, <2>2 DEF RetireOne
<1>5. \A t \in Tasks : Stays(t) \/ (Ends(t) /\ RetireOne /\ todo' = todo \ {t})
  BY <1>1, BackendStays DEF Resumed
<1>6. ASSUME NEW t \in Tasks, Saved(t)'
      PROVE  t \in todo'
  <2>1. Saved(t)
    BY <1>5, <1>6 DEF Stays, Ends
  <2>2. t \in todo
    BY <1>1, <2>1 DEF Held
  <2>3. CASE RetireOne
    <3>1. PICK u \in todo : SetTaskState({u}, "cancelled") /\ todo' = todo \ {u}
      BY <2>3 DEF RetireOne
    <3>2. ~Saved(u)'
      BY <3>1, <1>1, SetTaskStateSaved DEF Terminal, IInv, TypeOK
    <3> QED
      BY <1>6, <2>2, <3>1, <3>2
  <2> QED
    BY <1>4, <2>2, <2>3
<1>7. ASSUME NEW t \in todo'
      PROVE  task'[t].state = "suspended" /\ \A p \in Pids : ~Executes(p, t)'
  <2>1. t \in todo /\ t \in Tasks /\ task[t].state = "suspended" /\ \A p \in Pids : ~Executes(p, t)
    BY <1>1, <1>4, <1>7 DEF Held
  <2>2. Stays(t)
    BY <1>5, <1>7, <2>1
  <2> QED
    BY <2>1, <2>2, BackendExecutes DEF Stays
<1>8. Held'
  BY <1>6, <1>7 DEF Held
<1>9. Unused'
  <2>1. ASSUME worker \in alive, cmd[worker].kind = "resume"
        PROVE  task'[cmd[worker].task].state # "running"
    <3>1. PICK t \in Tasks : t = cmd[worker].task
      BY <2>1 DEF IInv, OwnerInv, Handed, Exists
    <3>2. task[t].state # "running"
      BY <1>1, <2>1, <3>1 DEF Unused
    <3> QED
      BY <1>5, <3>1, <3>2 DEF Stays, Ends, Terminal
  <2> QED
    BY <1>1, <1>3, <2>1 DEF Unused
<1>10. res' = NoRes
  BY <1>1, <1>2 , ClaimStays
  DEF Calm, Gone, BackendStep, StartBackend, BeginShutdown, SendShutdown, Sweep, ResumeTask,
      ResumeByDecision, RowsOf, FailDispatch, ReleaseUnadopted, DecideLive, PollDecide, DecideWrite,
      PollTimeout, SetPolicy, MsgBegin, MsgRetire, RetireOne, RetireFail, StopBegin, StopTimeout,
      StopCollect, StopOne, StopFinish, handler
<1> QED
  BY <1>8, <1>9, <1>10

\* _retire_interrupted_tasks goes on only if it has claimed every task with a snapshot.
LEMMA MsgRetireHolds ==
    ASSUME IInv, SnapshotInv, MsgRetire, chat' = "retire"
    PROVE  Held' /\ Unused' /\ res' = NoRes
<1>1. /\ StoreTypeOK /\ Swept \in [Tasks -> TaskRow] /\ cmd \in [Pids -> Commands]
      /\ UNCHANGED <<ckpt, worker, alive, cmd, rt, res>> /\ BackendStep
  BY SweptType DEF IInv, TypeOK, StoreTypeOK, ProcessTypeOK, MsgRetire, process, pipe, BackendStep
<1> DEFINE mine == {t \in {u \in Tasks : Swept[u].state = "suspended"} : MayRetire(Swept, t)}
<1>2. /\ \A t \in Tasks : Saved(t) => Swept[t].state # "running"
      /\ mine = {t \in Tasks : Swept[t].state = "suspended"}
      /\ task' = RetiredBy(Swept, mine, backend) /\ todo' = mine
  BY DEF MsgRetire
<1>3. \A t \in Tasks : task'[t].state = Swept[t].state
  BY <1>1, <1>2, RetiredByKeeps
<1>4. ASSUME NEW t \in mine
      PROVE  /\ t \in Tasks /\ task'[t].state = "suspended"
             /\ task[t].owner \notin alive /\ \A p \in Pids : ~Executes(p, t)
  <2>1. t \in Tasks /\ Swept[t].state = "suspended" /\ Swept[t].owner \notin alive
    BY DEF MayRetire
  <2> QED
    BY <1>1, <1>3, <2>1, SweptStays, ExecutedIsOwned
<1>5. ASSUME NEW t \in Tasks, Saved(t)
      PROVE  t \in mine
  <2>1. task[t].state \in Live
    BY <1>5 DEF SnapshotInv, WorkInv
  <2>2. Swept[t].state \in Live
    BY <1>1, <2>1, SweptStays DEF Live
  <2> QED
    BY <1>2, <1>5, <2>2 DEF Live
<1> HIDE DEF mine
<1>6. Held'
  <2>1. \A t \in Tasks : Saved(t)' => t \in mine
    BY <1>1, <1>5 DEF Saved
  <2>2. \A t \in mine, p \in Pids : ~Executes(p, t)'
    BY <1>1, <1>4 DEF Executes
  <2> QED
    BY <1>2, <1>4, <2>1, <2>2 DEF Held
<1>7. res = NoRes
  <2>1. ASSUME res # NoRes
        PROVE  FALSE
    <3>1. Saved(res.task) /\ res.task \in Tasks /\ task[res.task].owner = backend /\ backend # NoPid
      BY <2>1 DEF SnapshotInv, HandInv, BackendUp, IInv, OwnerInv, Handed, Exists
    <3>2. backend \in alive
      BY <3>1 DEF IInv, ProcessInv
    <3> QED
      BY <1>4, <1>5, <3>1, <3>2
  <2> QED
    BY <2>1
<1>8. ASSUME worker \in alive
      PROVE  /\ rt[worker].pc \notin Executing /\ cmd[worker].kind # "new"
             /\ cmd[worker].kind = "resume" => task'[cmd[worker].task].state # "running"
  <2>1. worker \in Pids
    BY <1>8, WorkerIsNotBackend
  <2>2. CASE chat = "wait" /\ ~GenerationRunning
    BY <1>8, <2>2 DEF GenerationRunning, NoCmd, Executing
  <2>3. CASE chat = "over"
    <3>1. ~MaySave(worker)
      BY <2>3 DEF SnapshotInv, NewInv
    <3>2. ASSUME rt[worker].pc \in Executing
          PROVE  FALSE
      <4>1. PICK t \in Tasks : Executes(worker, t) /\ t = rt[worker].task
        BY <1>8, <2>1, <3>2 DEF IInv, OwnerInv, Busy, Executing, Exists, Executes
      <4>2. Saved(t)
        BY <1>8, <3>1, <3>2, <4>1 DEF MaySave
      <4> QED
        BY <1>4, <1>5, <2>1, <4>1, <4>2
    <3>3. ASSUME cmd[worker].kind = "resume"
          PROVE  task'[cmd[worker].task].state # "running"
      <4>1. PICK t \in Tasks : t = cmd[worker].task
        BY <1>8, <3>3 DEF IInv, OwnerInv, Handed, Exists
      <4>2. task[t].state = "running" => Saved(t)
        BY <1>8, <3>3, <4>1 DEF SnapshotInv, HandInv
      <4>3. Swept[t].state # "running"
        BY <1>1, <1>2, <4>2, SweptStays
      <4> QED
        BY <1>3, <4>1, <4>3
    <3> QED
      BY <1>8, <3>1, <3>2, <3>3 DEF MaySave
  <2> QED
    BY <2>2, <2>3 DEF MsgRetire
<1> QED
  BY <1>1, <1>6, <1>7, <1>8 DEF Unused

\* Every step keeps RetireInv.
LEMMA RetireStep ==
    ASSUME IInv, SnapshotInv, Next
    PROVE  RetireInv'
<1>1. stop = NoStop /\ (chat # "retire" => todo = {})
  BY DEF SnapshotInv, RetireInv
<1>2. ASSUME NEW w \in Pids, WorkerStep(w)
      PROVE  RetireInv'
  <2>1. UNCHANGED <<chat, todo, res>>
    BY <1>2, WorkerHandler DEF handler
  <2> QED
    BY <1>1, <1>2, <2>1, WorkerRetire DEF Held, Unused, RetireInv, SnapshotInv
<1>3. CASE BackendStep /\ chat' = "retire"
  <2>1. chat = "retire" \/ MsgRetire
    <3>1. ~Gone /\ ~MsgTimeout
      BY <1>3, GoneLeaves DEF MsgTimeout
    <3>2. \A w \in Pids : ~DispatchNew(w) /\ (DispatchResume(w) => UNCHANGED chat)
      BY <1>3 DEF DispatchNew, DispatchResume
    <3>3. Calm /\ ~MessageStep => UNCHANGED chat
      BY CalmMessage
    <3> QED
      BY <1>1, <1>3, <3>1, <3>2, <3>3
      DEF Calm, MessageStep, MsgBegin, RetireOne, RetireFail
  <2> QED
    BY <1>3, <2>1, BackendRetire, MsgRetireHolds DEF Held, Unused, RetireInv
<1>4. CASE BackendStep /\ chat' # "retire"
  <2>1. todo' = {}
    <3>1. CASE Gone
      BY <3>1, GoneLeaves
    <3>2. CASE MessageStep
      BY <1>1, <1>4, <3>2 DEF MessageStep, MsgBegin, MsgTimeout, MsgRetire, RetireOne, RetireFail
    <3>3. CASE \E w \in Pids : DispatchNew(w) \/ DispatchResume(w)
      BY <1>1, <1>4, <3>3 DEF DispatchNew, DispatchResume
    <3>4. CASE Calm /\ ~MessageStep
      BY <1>1, <1>4, <3>4, CalmMessage
    <3> QED
      BY <1>1, <1>4, <3>1, <3>2, <3>3, <3>4 DEF Calm, MessageStep
  <2> QED
    BY <1>4, <2>1 DEF RetireInv
<1> QED
  BY <1>2, <1>3, <1>4 DEF Next

\* A task the backend is about to dispatch stays the backend's, under the same epoch.
LEMMA DispatchKept ==
    ASSUME Uncontested', IInv, SnapshotInv, Next, res # NoRes, res' = res
    PROVE  /\ task'[res.task].owner = backend /\ task'[res.task].epoch = res.epoch
           /\ backend' = backend /\ Saved(res.task)' /\ res.task \in Tasks
<1>1. PICK t \in Tasks : /\ t = res.task /\ Exists(t) /\ Saved(t)
                         /\ \A p \in Pids : ~Executes(p, t)
                         /\ task[t].owner = backend /\ task[t].epoch = res.epoch
                         /\ \A e \in watch : e.task = t => e.epoch < res.epoch
                         /\ backend \in alive /\ backend \in Pids /\ chat # "retire"
  BY DEF SnapshotInv, HandInv, RetireInv, BackendUp, IInv, OwnerInv, ProcessInv, Handed, Exists,
         TypeOK, ProcessTypeOK
<1>2. /\ StoreTypeOK /\ HandlerTypeOK /\ task \in [Tasks -> TaskRow] /\ stop = NoStop
      /\ Swept \in [Tasks -> TaskRow]
      /\ Swept[t].owner = backend /\ Swept[t].epoch = res.epoch
  BY <1>1, SweptStays, SweptType DEF SnapshotInv, IInv, TypeOK, StoreTypeOK
<1>3. ASSUME NEW w \in Pids, WorkerStep(w)
      PROVE  /\ task'[t].owner = backend /\ task'[t].epoch = res.epoch
             /\ Saved(t)' /\ backend' = backend
  <2>1. backend' = backend
    BY <1>3, WorkerHandler
  <2>2. CASE StartNew(w)
    <3>1. NewTask # t /\ UNCHANGED ckpt
      BY <1>1, <2>2 DEF StartNew, Absent, NewTask, Exists
    <3> QED
      BY <1>1, <1>2, <2>1, <2>2, <3>1 DEF StartNew, CreatedTask, Saved
  <2>3. CASE AdoptResume(w)
    <3>1. cmd[w].kind = "resume" /\ cmd[w] # NoCmd /\ w \in alive /\ UNCHANGED ckpt
      BY <2>3 DEF AdoptResume, NoCmd
    <3>2. w # worker /\ w # backend
      BY <1>1, <3>1 DEF IInv, OwnerInv, ProcessInv
    <3>3. UNCHANGED task \/ cmd[w].task # t
      BY <1>1, <2>3, <3>1, <3>2 DEF AdoptResume, Contested, Orphan, Underway, Uncontested
    <3>4. UNCHANGED task \/ task' = [task EXCEPT ![cmd[w].task].owner = w]
      BY <2>3 DEF AdoptResume, AdoptedBy
    <3> QED
      BY <1>1, <1>2, <2>1, <3>1, <3>3, <3>4 DEF Saved
  <2>4. CASE Authorize(w)
    BY <1>1, <2>1, <2>4, AuthorizeStays
  <2>5. CASE ~StartNew(w) /\ ~AdoptResume(w) /\ ~Authorize(w)
    <3>1. Stays(t)
      BY <1>1, <1>3, <2>5, WorkerStays DEF SnapshotInv
    <3> QED
      BY <1>1, <1>3, <2>1, <2>5, <3>1, WorkerTask DEF Stays
  <2> QED
    BY <2>2, <2>3, <2>4, <2>5
<1>4. ASSUME BackendStep
      PROVE  /\ task'[t].owner = backend /\ task'[t].epoch = res.epoch
             /\ Saved(t)' /\ backend' = backend
  <2>1. ~Gone /\ ~StartBackend
    BY <1>1, GoneLeaves DEF StartBackend, SnapshotInv, HandInv
  <2>2. ~RetireOne /\ ~RetireFail /\ ~FailDispatch /\ \A w \in Pids : ~DispatchResume(w)
    BY <1>1 DEF RetireOne, RetireFail, FailDispatch, DispatchResume, NoRes
  <2>3. ~(StopTimeout \/ StopCollect \/ StopOne \/ StopFinish)
    BY <1>2 DEF StopTimeout, StopCollect, StopOne, StopFinish, NoStop
  <2>4. backend' = backend
    BY <1>4, <2>1, <2>3
    DEF Gone, BackendStep, BeginShutdown, SendShutdown, Sweep, ResumeTask, ResumeByDecision,
        Claim, DispatchResume, DispatchNew, Dispatch, FailDispatch, ReleaseUnadopted, DecideLive,
        PollDecide, DecideWrite, PollTimeout, SetPolicy, MsgBegin, MsgTimeout, Dies, MsgRetire,
        RetireOne, RetireFail, StopBegin, process
  <2>5. Saved(t)'
    BY <1>1, <1>2, <1>4, <2>2, BackendStays DEF Stays, Resumed
  <2>6. CASE UNCHANGED task \/ task' = Swept
    BY <1>1, <1>2, <2>4, <2>5, <2>6
  <2>7. CASE SuspendSession
    BY <1>1, <1>2, <2>4, <2>5, <2>7, SuspendSessionKeeps
  <2>8. CASE ResumeTask \/ ResumeByDecision
    <3>1. PICK u, p : u \in Tasks /\ Claim(u, p)
      BY <2>8 DEF ResumeTask, ResumeByDecision, RowsOf
    <3>2. u # t
      BY <1>1, <1>2, <3>1, ClaimStays
    <3> QED
      BY <1>1, <2>4, <2>5, <3>1, <3>2, ClaimStays
  <2>9. CASE ReleaseUnadopted
    <3>1. PICK e \in watch : task' = ReleasedBy(task, e.task, e.epoch, backend)
      BY <2>9 DEF ReleaseUnadopted
    <3>2. e.task = t => e.epoch # task[t].epoch
      <4>1. e.epoch \in Nat /\ res.epoch \in Nat
        BY <1>2 DEF HandlerTypeOK
      <4> QED
        BY <1>1, <4>1
    <3>3. task'[t] = task[t]
      BY <1>2, <3>1, <3>2 DEF ReleasedBy
    <3> QED
      BY <1>1, <2>4, <2>5, <3>3
  <2>10. CASE MsgRetire
    <3>1. task' = Swept \/ \E S, me : /\ \A u \in S : MayRetire(Swept, u)
                                      /\ task' = RetiredBy(Swept, S, me)
      BY <2>10 DEF MsgRetire
    <3>2. ~MayRetire(Swept, t)
      BY <1>1, <1>2 DEF MayRetire
    <3> QED
      BY <1>1, <1>2, <2>4, <2>5, <3>1, <3>2, RetiredByKeeps
  <2>11. ~PollTimeout /\ ~PollDecide
    BY DEF PollTimeout, PollDecide
  <2> QED
    BY <1>4, <2>1, <2>2, <2>3, <2>6, <2>7, <2>8, <2>9, <2>10, <2>11
    DEF Gone, BackendStep, BeginShutdown, SendShutdown, Sweep, DispatchNew, DecideLive,
        DecideWrite, SetPolicy, MsgBegin, MsgTimeout, Dies, StopBegin, ledger
<1> QED
  BY <1>1, <1>3, <1>4 DEF Next, Saved

\* What a step does to the resumption before its dispatch, and to those after it.
LEMMA ResumptionMoves ==
    ASSUME IInv, Next
    PROVE  \/ (res' = res \/ res' = NoRes) /\ watch' \subseteq watch
           \/ \E w \in Pids : DispatchResume(w)
           \/ \E u, p : u \in Tasks /\ Claim(u, p)
<1>1. CASE \E w \in Pids : WorkerStep(w)
  BY <1>1, WorkerHandler DEF handler
<1>2. CASE Gone
  BY <1>2, GoneLeaves
<1>3. CASE ResumeTask \/ ResumeByDecision
  BY <1>3 DEF ResumeTask, ResumeByDecision, RowsOf
<1>4. CASE BackendStep /\ ~Gone /\ ~ResumeTask /\ ~ResumeByDecision
           /\ ~\E w \in Pids : DispatchResume(w)
  BY <1>4
  DEF Gone, BackendStep, StartBackend, BeginShutdown, SendShutdown, Sweep, DispatchNew,
      FailDispatch, ReleaseUnadopted, DecideLive, PollDecide, DecideWrite, PollTimeout, SetPolicy,
      MsgBegin, MsgTimeout, MsgRetire, RetireOne, RetireFail, StopBegin, StopTimeout, StopCollect,
      StopOne, StopFinish, handler
<1> QED
  BY <1>1, <1>2, <1>3, <1>4 DEF Next

\* The command to resume is sent for a task with a snapshot, and nobody takes it away.
LEMMA CommandStep ==
    ASSUME IInv, SnapshotInv, Next, worker' \in alive', cmd'[worker'].kind = "resume",
           task'[cmd'[worker'].task].state = "running"
    PROVE  Saved(cmd[worker].task)'
<1>1. /\ cmd \in [Pids -> Commands] /\ task \in [Tasks -> TaskRow] /\ stop = NoStop
      /\ ProcessTypeOK'
  BY ProcessType DEF IInv, TypeOK, StoreTypeOK, ProcessTypeOK, SnapshotInv
<1>2. ASSUME UNCHANGED worker, cmd'[worker] = cmd[worker], worker \in alive
      PROVE  Saved(cmd[worker].task)'
  <2>1. PICK t \in Tasks : /\ t = cmd[worker].task /\ Exists(t)
                           /\ \A p \in Pids : ~Executes(p, t)
    BY <1>2 DEF IInv, OwnerInv, Handed, Exists
  <2>2. task'[t].state = "running" /\ (task[t].state = "running" => Saved(t))
    BY <1>2, <2>1 DEF SnapshotInv, HandInv
  <2>3. CASE BackendStep
    <3>1. Saved(t)'
      BY <1>1, <2>2, <2>3, BackendStays DEF Stays, Ends, Resumed, Terminal
    <3> QED
      BY <1>2, <2>1, <3>1 DEF Saved
  <2>4. ASSUME NEW w \in Pids, WorkerStep(w)
        PROVE  Saved(t)'
    <3>1. CASE StartNew(w)
      <4>1. NewTask # t /\ UNCHANGED ckpt
        BY <2>1, <3>1 DEF StartNew, Absent, NewTask, Exists
      <4>2. task'[t] = task[t]
        BY <1>1, <3>1, <4>1 DEF StartNew, CreatedTask
      <4> QED
        BY <2>2, <4>1, <4>2 DEF Saved
    <3>2. CASE Authorize(w)
      BY <2>2, <3>2, AuthorizeStays
    <3>3. CASE ~StartNew(w) /\ ~Authorize(w)
      BY <2>1, <2>2, <2>4, <3>3, WorkerStays DEF SnapshotInv, Stays
    <3> QED
      BY <3>1, <3>2, <3>3
  <2> QED
    BY <1>2, <2>1, <2>3, <2>4 DEF Next, Saved
<1>3. ASSUME NEW w \in Pids, DispatchResume(w)
      PROVE  Saved(cmd[worker].task)'
  <2>1. /\ Dispatch(w, [kind |-> "resume", task |-> res.task])
        /\ UNCHANGED <<ckpt, rt>> /\ res # NoRes
    BY <1>3 DEF DispatchResume, ledger
  <2>2. worker' = w /\ cmd'[w].task = res.task
    BY <2>1, Dispatched
  <2>3. Saved(res.task)
    BY <2>1 DEF SnapshotInv, HandInv
  <2> QED
    BY <2>1, <2>2, <2>3 DEF Saved
<1>4. ASSUME NEW w \in Pids, WorkerStep(w)
      PROVE  UNCHANGED worker /\ cmd'[worker] = cmd[worker] /\ worker \in alive
  <2>1. UNCHANGED worker
    BY <1>4, WorkerHandler
  <2>2. worker \in Pids
    BY <1>1, <2>1 DEF ProcessTypeOK
  <2>3. alive' \subseteq alive
    <3>1. StartNew(w) \/ AdoptResume(w) => UNCHANGED alive
      BY DEF StartNew, AdoptResume, process
    <3> QED
      BY <1>4, <3>1, WorkerExecutes
  <2> QED
    BY <1>4, <2>1, <2>2, <2>3, WorkerCommand DEF NoCmd
<1>5. CASE BackendStep /\ ~\E w \in Pids : DispatchResume(w)
  <2>1. ~Gone /\ ~MsgTimeout
    BY GoneLeaves DEF MsgTimeout, Dies
  <2>2. ASSUME NEW w \in Pids
        PROVE  ~DispatchNew(w)
    <3>1. DispatchNew(w) => worker' = w /\ cmd'[w].kind = "new"
      BY Dispatched DEF DispatchNew
    <3> QED
      BY <3>1
  <2>3. Calm
    BY <1>1, <1>5, <2>1, <2>2 DEF Calm
  <2> QED
    BY <1>2, <2>3, CalmWorker
<1> QED
  BY <1>2, <1>3, <1>4, <1>5 DEF Next

\* Every step keeps HandInv.
LEMMA HandStep ==
    ASSUME Uncontested', IInv, SnapshotInv, Next
    PROVE  HandInv'
<1>1. /\ HandInv /\ HandlerTypeOK /\ StoreTypeOK /\ task \in [Tasks -> TaskRow]
      /\ task' \in [Tasks -> TaskRow] /\ NoRes.epoch = 0
  BY TypeStep DEF SnapshotInv, IInv, TypeOK, StoreTypeOK, NoRes
<1>2. \A e \in watch \union {res} : e.epoch \in Nat
  BY <1>1 DEF HandlerTypeOK
<1>3. \A t \in Tasks : task[t].epoch \in Nat /\ task'[t].epoch \in Nat
  BY <1>1 DEF TaskRow
<1>4. ASSUME NEW e \in watch'
      PROVE  Exists(e.task)' /\ e.epoch <= task'[e.task].epoch
  <2>1. e \in watch \/ (e = res /\ res # NoRes)
    <3>1. ASSUME NEW w \in Pids, DispatchResume(w)
          PROVE  e \in watch \/ (e = res /\ res # NoRes)
      BY <1>4, <3>1 DEF DispatchResume
    <3>2. ASSUME NEW u \in Tasks, NEW p, Claim(u, p)
          PROVE  e \in watch
      BY <1>4, <3>2 DEF Claim
    <3> QED
      BY <1>4, <3>1, <3>2, ResumptionMoves
  <2>2. Exists(e.task) /\ e.epoch <= task[e.task].epoch /\ e.epoch \in Nat
    BY <1>1, <1>2, <1>3, <2>1 DEF HandInv, IInv, OwnerInv, Handed
  <2>3. PICK t \in Tasks : t = e.task /\ Exists(t)
    BY <2>2 DEF Exists
  <2>4. Exists(t)' /\ task'[t].epoch >= task[t].epoch
    BY <2>3, EpochGrows
  <2> QED
    BY <1>3, <2>2, <2>3, <2>4
<1>5. ASSUME res' # NoRes
      PROVE  /\ BackendUp' /\ Saved(res.task)'
             /\ task'[res'.task].owner = backend' /\ task'[res'.task].epoch = res'.epoch
             /\ \A e \in watch' : e.task = res'.task => e.epoch < res'.epoch
  <2>1. ASSUME NEW u \in Tasks, NEW p, Claim(u, p), res' # res
        PROVE  /\ BackendUp' /\ Saved(res.task)'
               /\ task'[res'.task].owner = backend' /\ task'[res'.task].epoch = res'.epoch
               /\ \A e \in watch' : e.task = res'.task => e.epoch < res'.epoch
    <3>1. /\ res' = [task |-> u, epoch |-> task'[u].epoch]
          /\ BackendUp /\ Saved(u)' /\ task'[u].owner = backend
          /\ task'[u].epoch = task[u].epoch + 1
      BY <2>1, ClaimStays
    <3>2. UNCHANGED <<watch, backend>>
      BY <2>1 DEF Claim, process
    <3>3. \A e \in watch : e.task = u => e.epoch <= task[u].epoch
      BY <1>1 DEF HandInv
    <3> QED
      BY <1>2, <1>3, <3>1, <3>2, <3>3 DEF BackendUp, Saved
  <2>2. ASSUME res' = res, watch' \subseteq watch
        PROVE  /\ BackendUp' /\ Saved(res.task)'
               /\ task'[res'.task].owner = backend' /\ task'[res'.task].epoch = res'.epoch
               /\ \A e \in watch' : e.task = res'.task => e.epoch < res'.epoch
    <3>1. res # NoRes
      BY <1>5, <2>2
    <3>2. PICK t \in Tasks : /\ t = res.task
                             /\ task'[t].owner = backend /\ task'[t].epoch = res.epoch
                             /\ backend' = backend /\ Saved(t)'
      BY <2>2, <3>1, DispatchKept DEF Saved
    <3> QED
      BY <1>1, <2>2, <3>1, <3>2 DEF HandInv, BackendUp, Saved
  <2>3. ASSUME NEW w \in Pids, DispatchResume(w)
        PROVE  FALSE
    BY <1>5, <2>3 DEF DispatchResume
  <2>4. ASSUME NEW u \in Tasks, NEW p, Claim(u, p)
        PROVE  watch' \subseteq watch
    BY <2>4 DEF Claim
  <2> QED
    BY <1>5, <2>1, <2>2, <2>3, <2>4, ResumptionMoves
<1> QED
  BY <1>4, <1>5, CommandStep DEF HandInv

\* SnapshotInv holds as long as nobody stops a task.
LEMMA SnapshotKept ==
    ASSUME NoStops
    PROVE  Spec => [](Uncontested => IInv /\ SnapshotInv)
<1>1. Init => SnapshotInv
  <2>1. ASSUME Init
        PROVE  SnapshotInv
    <3>1. /\ alive = {} /\ worker = NoPid /\ res = NoRes /\ watch = {} /\ todo = {}
          /\ chat = "none" /\ stop = NoStop /\ ckpt = {}
      BY <2>1 DEF Init, StoreInit
    <3> QED
      BY <3>1 DEF SnapshotInv, WorkInv, HandInv, RetireInv, NewInv, OneSaved, Executes, Saved,
                  MaySave
  <2> QED
    BY <2>1
<1>2. IInv /\ SnapshotInv /\ [Next]_vars /\ Uncontested' => SnapshotInv'
  <2>1. CASE Next /\ IInv /\ SnapshotInv /\ Uncontested'
    <3>1. stop' = NoStop
      <4>1. CASE \E w \in Pids : WorkerStep(w)
        BY <2>1, <4>1, WorkerHandler DEF handler, SnapshotInv
      <4>2. CASE Gone
        BY <4>2 DEF Gone, CrashBackend, FinishShutdown, BackendGone
      <4>3. ~(StopBegin \/ StopTimeout \/ StopCollect \/ StopOne \/ StopFinish)
        BY <2>1 DEF SnapshotInv, StopBegin, StopTimeout, StopCollect, StopOne, StopFinish, NoStop,
                    NoStops
      <4>4. CASE BackendStep /\ ~Gone
        BY <2>1, <4>3, <4>4
        DEF Gone, BackendStep, StartBackend, BeginShutdown, SendShutdown, Sweep, ResumeTask,
            ResumeByDecision, Claim, DispatchResume, DispatchNew, FailDispatch, ReleaseUnadopted,
            DecideLive, PollDecide, DecideWrite, PollTimeout, SetPolicy, MsgBegin, MsgTimeout,
            MsgRetire, RetireOne, RetireFail, handler, SnapshotInv
      <4> QED
        BY <2>1, <4>1, <4>2, <4>4 DEF Next
    <3> QED
      BY <2>1, <3>1, WorkStep, HandStep, RetireStep, NewStep, OneStep DEF SnapshotInv
  <2>2. CASE UNCHANGED vars /\ SnapshotInv
    BY <2>2 DEF vars, ledger, process, pipe, handler, history, SnapshotInv, WorkInv, HandInv,
                RetireInv, NewInv, OneSaved, Executes, Saved, MaySave, BackendUp, Exists
  <2> QED
    BY <2>1, <2>2
<1>3. [Next]_vars => (Uncontested' => Uncontested)
  BY ContestedGrows DEF Uncontested
<1> QED
  BY <1>1, <1>2, <1>3, Inductive, PTL DEF Spec

\* The third invariant, on snapshots, holds beside the first (authorize, set_task_state,
\* _retire_interrupted_tasks).
THEOREM SnapshotInductive == ASSUME NoStops PROVE Spec => [](Uncontested => SnapshotInv)
  BY SnapshotKept, PTL

\* At most one task of the session can be come back to, over any messages,
\* resumptions, crashes and orphans, as long as nobody stops a task
\* (_retire_interrupted_tasks, resume).
THEOREM RecoverableOnce == ASSUME NoStops PROVE Spec => [](Uncontested => OneRecoverable)
<1>1. SnapshotInv => OneRecoverable
  BY DEF SnapshotInv, OneSaved, OneRecoverable
<1> QED
  BY <1>1, SnapshotKept, PTL

-----------------------------------------------------------------------------
(***************************************************************************)
(* Where no backend dies without its worker, no task is adopted late, and  *)
(* the guarantees hold without a condition on the behaviour.               *)
(***************************************************************************)

\* Nobody is alive but the backend and the worker behind its proxy.
NoOrphans == alive \subseteq {backend, worker}

\* A worker whose backend dies with it only leaves no orphan.
LEMMA OrphanStep ==
    ASSUME NoBackendDeath, IInv, NoOrphans, [Next]_vars
    PROVE  NoOrphans'
<1>1. CASE UNCHANGED vars
  BY <1>1 DEF vars, process, NoOrphans
<1>2. ASSUME NEW w \in Pids, WorkerStep(w)
      PROVE  NoOrphans'
  <2>1. UNCHANGED <<backend, worker>> /\ alive' \subseteq alive
    BY <1>2
    DEF WorkerStep, StartNew, AdoptResume, DropCommand, Bind, Abandon, Authorize, AutoApprove,
        Settle, CheckCall, ClaimCall, StartBatch, RunTool, FinishCall, Complete, FailRound,
        Interrupt, Unwind, ReadState, Close, LeaveLoop, ExitWorker, CrashWorker, Dies, process
  <2> QED
    BY <2>1 DEF NoOrphans
<1>3. CASE StartBackend
  BY <1>3 DEF StartBackend, BackendUp, NoOrphans, IInv, TypeOK, ProcessTypeOK
<1>4. CASE FinishShutdown
  BY <1>4 DEF FinishShutdown, BackendGone, NoOrphans
<1>5. ASSUME NEW w \in Pids, DispatchResume(w) \/ DispatchNew(w)
      PROVE  NoOrphans'
  <2>1. PICK command : Dispatch(w, command)
    BY <1>5 DEF DispatchResume, DispatchNew
  <2>2. w = worker \/ worker \notin alive
    BY <2>1 DEF Dispatch, DispatchTarget, Attached
  <2> QED
    BY <2>1, <2>2 DEF Dispatch, NoOrphans
<1>6. CASE MsgTimeout \/ StopTimeout
  BY <1>6 DEF MsgTimeout, StopTimeout, Dies, NoOrphans
<1>7. CASE UNCHANGED <<alive, backend, worker>>
  BY <1>7 DEF NoOrphans
<1> QED
  BY <1>1, <1>2, <1>3, <1>4, <1>5, <1>6, <1>7
  DEF NoBackendDeath, Next, BackendStep, CrashBackend, BeginShutdown, SendShutdown, Sweep,
      ResumeTask, ResumeByDecision, Claim, FailDispatch, ReleaseUnadopted, DecideLive, PollDecide,
      DecideWrite, PollTimeout, SetPolicy, MsgBegin, MsgRetire, RetireOne, RetireFail, StopBegin,
      StopCollect, StopOne, StopFinish, process

\* Without an orphan a command is taken up by the only worker, which is idle.
LEMMA AdoptStep ==
    ASSUME IInv, NoOrphans, Uncontested, [Next]_vars
    PROVE  Uncontested'
<1>1. CASE UNCHANGED contested
  BY <1>1 DEF Uncontested
<1>2. ASSUME NEW w \in Pids, AdoptResume(w)
      PROVE  Uncontested'
  <2>1. w = worker /\ rt[w].pc = "idle"
    BY <1>2 DEF AdoptResume, NoOrphans, IInv, ProcessInv, NoCmd
  <2>2. \A p \in Pids, t \in Tasks : ~Executes(p, t)
    BY <2>1 DEF Executes, Executing, NoOrphans, IInv, ProcessInv
  <2>3. cmd[w].task \in Tasks
    BY <1>2, ResumedTask DEF AdoptResume, IInv, TypeOK
  <2>4. ~Contested(w, cmd[w].task)
    BY <2>1, <2>2, <2>3 DEF Contested, Orphan
  <2> QED
    BY <1>2, <2>4 DEF AdoptResume, Uncontested
<1>3. ASSUME NEW w \in Pids, WorkerStep(w), ~AdoptResume(w)
      PROVE  UNCHANGED contested
  BY <1>3
  DEF WorkerStep, StartNew, DropCommand, Bind, Abandon, Authorize, AutoApprove, Settle,
      CheckCall, ClaimCall, StartBatch, RunTool, FinishCall, Complete, FailRound, Interrupt,
      Unwind, ReadState, Close, LeaveLoop, ExitWorker, CrashWorker, Dies, history
<1>4. CASE BackendStep
  BY <1>1, <1>4
  DEF BackendStep, StartBackend, CrashBackend, BeginShutdown, SendShutdown, FinishShutdown,
      BackendGone, Sweep, ResumeTask, ResumeByDecision, Claim, DispatchResume, DispatchNew,
      FailDispatch, ReleaseUnadopted, DecideLive, PollDecide, DecideWrite, PollTimeout, SetPolicy,
      MsgBegin, MsgTimeout, Dies, MsgRetire, RetireOne, RetireFail, StopBegin, StopTimeout,
      StopCollect, StopOne, StopFinish, history
<1> QED
  BY <1>1, <1>2, <1>3, <1>4 DEF Next, vars, history

\* A task is adopted from under another process only after a backend has died and left
\* its worker behind (AdoptResume; _cmd_reader hands a command over before the end of
\* the pipe).
LEMMA NeverContested == ASSUME NoBackendDeath PROVE Spec => []Uncontested
<1>1. Init => NoOrphans /\ Uncontested
  BY DEF Init, NoOrphans, Uncontested
<1>2. IInv /\ NoOrphans /\ Uncontested /\ [Next]_vars => NoOrphans' /\ Uncontested'
  BY OrphanStep, AdoptStep
<1> QED
  BY <1>1, <1>2, Inductive, PTL DEF Spec

\* A tool call takes effect at most once, whichever of the workers die, whatever is
\* stopped, resumed, shut down or lost, as long as no backend dies before its worker
\* (claim_execution, resume, adopt).
THEOREM OnceWithoutOrphans == ASSUME NoBackendDeath PROVE Spec => []AtMostOnce
  BY OnceOnly, NeverContested, PTL

\* And the ledger implements ToolOnce then, every behaviour of it.
THEOREM ImplementsWithoutOrphans == ASSUME NoBackendDeath PROVE Spec => ImplementsOnce
<1>1. Uncontested /\ [Uncontested => Once!OnceNext]_<<outcomes, runsOf>>
          => [Once!OnceNext]_<<outcomes, runsOf>>
  OBVIOUS
<1> QED
  BY <1>1, Implements, NeverContested, PTL DEF ImplementsOnce, Once!OnceSpec
=============================================================================
