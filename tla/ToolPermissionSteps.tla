------------------------- MODULE ToolPermissionSteps ------------------------
(***************************************************************************)
(* Every step of ToolPermission that starts in the inductive invariant     *)
(* keeps it: its types, who may execute a task, and what happens to a      *)
(* call.                                                                   *)
(***************************************************************************)
EXTENDS ToolPermissionInv, TLAPS

USE CallAssumption, PidAssumption

-----------------------------------------------------------------------------
(***************************************************************************)
(* The types: first the operators of the ledger, then the variables, group *)
(* by group.                                                               *)
(***************************************************************************)

\* The states an approval row may have.
RowStates == Unresolved \union {"invalidated", "cancelled", "completed"}

\* Changing the state of rows of the approvals table keeps their type.
LEMMA RestateType ==
    ASSUME StoreTypeOK, NEW R \in SUBSET appr, NEW s \in RowStates
    PROVE  Restate(R, s) \subseteq ApprovalRow
  BY DEF Restate, RowStates, StoreTypeOK, ApprovalRow

\* An UPDATE of the state column keeps the type of the tasks table.
LEMMA WithStateType ==
    ASSUME StoreTypeOK, NEW S, NEW s \in Live \union Terminal
    PROVE  WithState(S, s) \in [Tasks -> TaskRow]
  BY DEF WithState, StoreTypeOK, TaskRow

\* So does the sweep of pending().
LEMMA SweptType ==
    ASSUME StoreTypeOK
    PROVE  Swept \in [Tasks -> TaskRow]
  BY WithStateType DEF Swept, Live

\* suspend_session keeps the type of the ledger.
LEMMA SuspendSessionType ==
    ASSUME StoreTypeOK, SuspendSession
    PROVE  StoreTypeOK'
  BY WithStateType DEF SuspendSession, StoreTypeOK, Live

\* release_resume keeps the type of the tasks table.
LEMMA ReleasedByType ==
    ASSUME NEW tasks \in [Tasks -> TaskRow], NEW t, NEW e, NEW me
    PROVE  ReleasedBy(tasks, t, e, me) \in [Tasks -> TaskRow]
  BY DEF ReleasedBy, TaskRow, Live

\* The UPDATE of resume keeps the type of the tasks table.
LEMMA ResumedByType ==
    ASSUME NEW tasks \in [Tasks -> TaskRow], NEW t \in Tasks, NEW me \in Pids \union {NoPid}
    PROVE  ResumedBy(tasks, t, me) \in [Tasks -> TaskRow]
  BY DEF ResumedBy, TaskRow, Live

\* Recording a result keeps the type of the executions table.
LEMMA CompletedType ==
    ASSUME StoreTypeOK, NEW t \in Tasks, NEW c \in Calls, NEW r \in {"ok", "denied", "cancelled"}
    PROVE  Completed(t, c, r) \in [Tasks -> [Calls -> ExecutionRow]]
  BY DEF Completed, StoreTypeOK, ExecutionRow

\* claim_interrupted_task keeps the type of the tasks table.
LEMMA RetiredByType ==
    ASSUME NEW tasks \in [Tasks -> TaskRow], NEW S, NEW me \in Pids \union {NoPid}
    PROVE  RetiredBy(tasks, S, me) \in [Tasks -> TaskRow]
<1>1. ASSUME NEW t \in Tasks
      PROVE  [tasks[t] EXCEPT !.owner = me, !.epoch = tasks[t].epoch + 1] \in TaskRow
  <2>1. tasks[t] \in TaskRow /\ tasks[t].epoch + 1 \in Nat
    BY DEF TaskRow
  <2>2. PICK e \in Nat : e = tasks[t].epoch + 1
    BY <2>1
  <2>3. [tasks[t] EXCEPT !.owner = me, !.epoch = e] \in TaskRow
    BY <2>1 DEF TaskRow
  <2> QED
    BY <2>2, <2>3
<1> QED
  BY <1>1 DEF RetiredBy

\* set_task_state, with all its statements, keeps the type of the ledger.
LEMMA SetTaskStateType ==
    ASSUME StoreTypeOK, NEW S, NEW s \in Live \union Terminal, SetTaskState(S, s)
    PROVE  StoreTypeOK'
<1>1. task' \in [Tasks -> TaskRow]
  BY WithStateType DEF SetTaskState
<1>2. appr' \subseteq ApprovalRow
  <2>1. RowsOf(S) \in SUBSET appr
    BY DEF RowsOf
  <2>2. Restate(RowsOf(S), "cancelled") \subseteq ApprovalRow
    BY <2>1, RestateType DEF RowStates
  <2> QED
    BY <2>2 DEF SetTaskState, StoreTypeOK
<1>3. exec' \in [Tasks -> [Calls -> ExecutionRow]]
  <2>1. ASSUME NEW t \in Tasks, NEW c \in Calls
        PROVE  [exec[t][c] EXCEPT !.result = "null"] \in ExecutionRow
    <3>1. exec[t][c] \in ExecutionRow
      BY DEF StoreTypeOK
    <3> QED
      BY <3>1 DEF ExecutionRow
  <2> QED
    BY <2>1 DEF SetTaskState, StoreTypeOK
<1> QED
  BY <1>1, <1>2, <1>3 DEF SetTaskState, StoreTypeOK

\* A step of a worker keeps the type of the ledger.
LEMMA WorkerStoreType ==
    ASSUME IInv, NEW w \in Pids, WorkerStep(w)
    PROVE  StoreTypeOK'
<1> SUFFICES ASSUME ~UNCHANGED ledger
             PROVE  StoreTypeOK'
  BY DEF ledger, StoreTypeOK, IInv, TypeOK
<1>1. StoreTypeOK /\ rt[w] \in Runtime /\ (Busy(w) => rt[w].task \in Tasks)
  BY DEF IInv, TypeOK, RuntimeTypeOK, OwnerInv, Exists
<1>2. CASE StartNew(w)
  <2>1. NewTask \in Tasks
    BY <1>2 DEF StartNew, Absent, NewTask
  <2>2. [state |-> "running", owner |-> w, epoch |-> 1] \in TaskRow
    BY DEF TaskRow, Live
  <2>3. task' \in [Tasks -> TaskRow]
    BY <1>1, <1>2, <2>1, <2>2 DEF StartNew, CreatedTask, StoreTypeOK
  <2> QED
    BY <1>1, <1>2, <2>3 DEF StartNew, StoreTypeOK
<1>3. CASE AdoptResume(w)
  <2>1. task' = task \/ task' = AdoptedBy(cmd[w].task, w)
    BY <1>3 DEF AdoptResume
  <2>2. \A t \in Tasks : [task[t] EXCEPT !.owner = w] \in TaskRow
    BY <1>1 DEF StoreTypeOK, TaskRow
  <2>3. task' \in [Tasks -> TaskRow]
    BY <1>1, <2>1, <2>2 DEF AdoptedBy, StoreTypeOK
  <2> QED
    BY <1>1, <1>3, <2>3 DEF AdoptResume, StoreTypeOK
<1>4. CASE Authorize(w)
  <2>1. ckpt' \subseteq Tasks \X Keys
    BY <1>1, <1>4 DEF Authorize, StoreTypeOK, Keys, Busy
  <2> QED
    BY <1>1, <1>4, <2>1
    DEF Authorize, Requested, StoreTypeOK, ApprovalRow, Unresolved, Runtime, Busy
<1>5. CASE AutoApprove(w)
  <2>1. PICK r \in appr : appr' = Restate({r}, "approved")
    BY <1>5 DEF AutoApprove
  <2>2. appr' \subseteq ApprovalRow
    BY <1>1, <2>1, RestateType DEF RowStates, Unresolved
  <2> QED
    BY <1>1, <1>5, <2>2 DEF AutoApprove, StoreTypeOK
<1>6. CASE Settle(w)
  <2>1. PICK r \in appr, x \in {"denied", "cancelled"} :
            exec' = exec \/ exec' = Completed(r.task, r.call, x)
    BY <1>6 DEF Settle
  <2>2. r.task \in Tasks /\ r.call \in Calls
    BY <1>1 DEF StoreTypeOK, ApprovalRow
  <2>3. Completed(r.task, r.call, x) \in [Tasks -> [Calls -> ExecutionRow]]
    BY <1>1, <2>2, CompletedType
  <2> QED
    BY <1>1, <1>6, <2>1, <2>3 DEF Settle, StoreTypeOK
<1>7. CASE ClaimCall(w)
  <2>1. PICK c \in Calls : exec' = Claimed(rt[w].task, c) \/ UNCHANGED exec
    BY <1>7 DEF ClaimCall
  <2>2. [state |-> "executing", result |-> "null"] \in ExecutionRow
    BY DEF ExecutionRow
  <2>3. exec' \in [Tasks -> [Calls -> ExecutionRow]]
    BY <1>1, <2>1, <2>2 DEF StoreTypeOK, Claimed
  <2> QED
    BY <1>1, <1>7, <2>3 DEF ClaimCall, StoreTypeOK
<1>8. CASE FinishCall(w)
  <2>1. PICK c \in Calls : /\ exec' = Completed(rt[w].task, c, "ok")
                           /\ appr' = RowsFinished(rt[w].task, {c}, rt[w].epoch)
    BY <1>8 DEF FinishCall
  <2>2. rt[w].task \in Tasks
    BY <1>1, <1>8 DEF FinishCall, InBatch, Busy
  <2>3. exec' \in [Tasks -> [Calls -> ExecutionRow]]
    BY <1>1, <2>1, <2>2, CompletedType
  <2>4. appr' \subseteq ApprovalRow
    BY <1>1, <2>1, RestateType DEF RowsFinished, RowStates
  <2> QED
    BY <1>1, <1>8, <2>3, <2>4 DEF FinishCall, StoreTypeOK
<1>9. CASE Complete(w)
  <2>1. appr' \subseteq ApprovalRow
    BY <1>1, <1>9, RestateType DEF Complete, RowsFinished, RowStates
  <2> QED
    BY <1>1, <1>9, <2>1 DEF Complete, StoreTypeOK
<1>10. CASE Interrupt(w) \/ LeaveLoop(w)
  BY <1>1, <1>10, SuspendSessionType DEF Interrupt, LeaveLoop, ledger
<1>11. CASE Unwind(w)
  BY <1>1, <1>11, SetTaskStateType DEF Unwind, ledger, Live
<1>12. CASE Close(w)
  <2>1. rt[w].close \in Live \union Terminal
    BY <1>1 DEF Runtime, Live, Terminal
  <2> QED
    BY <1>1, <1>12, <2>1, SetTaskStateType DEF Close
<1>13. CASE Bind(w)
  BY <1>1, <1>13 DEF Bind, StoreTypeOK, Keys, Busy
<1>14. ~(\/ DropCommand(w) \/ Abandon(w) \/ CheckCall(w) \/ StartBatch(w) \/ RunTool(w)
        \/ FailRound(w) \/ ReadState(w) \/ ExitWorker(w) \/ CrashWorker(w))
  BY DEF DropCommand, Abandon, CheckCall, StartBatch, RunTool, FailRound, ReadState, ExitWorker,
         CrashWorker, Dies
<1> QED
  BY <1>2, <1>3, <1>4, <1>5, <1>6, <1>7, <1>8, <1>9, <1>10, <1>11, <1>12, <1>13,
     <1>14 DEF WorkerStep

\* A step of the backend keeps the type of the ledger.
LEMMA BackendStoreType ==
    ASSUME IInv, BackendStep
    PROVE  StoreTypeOK'
<1> SUFFICES ASSUME ~UNCHANGED ledger
             PROVE  StoreTypeOK'
  BY DEF ledger, StoreTypeOK, IInv, TypeOK
<1>1. /\ StoreTypeOK /\ HandlerTypeOK /\ backend \in Pids \union {NoPid}
      /\ Swept \in [Tasks -> TaskRow]
  BY SweptType DEF IInv, TypeOK, ProcessTypeOK
<1>2. CASE BeginShutdown
  BY <1>1, <1>2, SuspendSessionType DEF BeginShutdown
<1>3. CASE Sweep
  BY <1>1, <1>3 DEF Sweep, StoreTypeOK
<1>4. ASSUME NEW t \in Tasks, NEW p, Claim(t, p)
      PROVE  StoreTypeOK'
  <2>1. ResumedBy(Swept, t, backend) \in [Tasks -> TaskRow]
    BY <1>1, ResumedByType
  <2>2. task' \in [Tasks -> TaskRow]
    BY <1>4, <2>1, ReleasedByType DEF Claim
  <2>3. appr' \subseteq ApprovalRow
    BY <1>1, <1>4, RestateType DEF Claim, Invalidated, RowsOf, RowStates
  <2> QED
    BY <1>1, <1>4, <2>2, <2>3 DEF Claim, StoreTypeOK
<1>5. CASE ResumeTask
  BY <1>4, <1>5 DEF ResumeTask
<1>6. CASE ResumeByDecision
  <2>1. PICK r \in RowsOf(Tasks) : \E p : Claim(r.task, p)
    BY <1>6 DEF ResumeByDecision
  <2> QED
    BY <1>4, <2>1 DEF RowsOf
<1>7. CASE FailDispatch \/ ReleaseUnadopted \/ PollTimeout
  BY <1>1, <1>7, ReleasedByType DEF FailDispatch, ReleaseUnadopted, PollTimeout, StoreTypeOK
<1>8. CASE DecideLive \/ PollDecide
  BY <1>1, <1>8 DEF DecideLive, PollDecide, StoreTypeOK
<1>9. CASE DecideWrite
  <2>1. PICK r \in appr : appr' = Restate({r}, dec.decision)
    BY <1>9 DEF DecideWrite
  <2>2. dec.decision \in {"approved", "denied"}
    BY <1>1, <1>9 DEF DecideWrite, HandlerTypeOK
  <2>3. appr' \subseteq ApprovalRow
    BY <1>1, <2>1, <2>2, RestateType DEF RowStates, Unresolved
  <2> QED
    BY <1>1, <1>9, <2>3 DEF DecideWrite, StoreTypeOK
<1>10. CASE SetPolicy
  BY <1>1, <1>10 DEF SetPolicy, StoreTypeOK
<1>11. CASE MsgRetire
  BY <1>1, <1>11, RetiredByType DEF MsgRetire, StoreTypeOK
<1>12. CASE RetireOne
  BY <1>1, <1>12, SetTaskStateType DEF RetireOne, Terminal
<1>13. CASE RetireFail
  <2>1. \A t \in Tasks : ReleasedBy(task, t, task[t].epoch, backend)[t] \in TaskRow
    BY <1>1, ReleasedByType DEF StoreTypeOK
  <2> QED
    BY <1>1, <1>13, <2>1 DEF RetireFail, StoreTypeOK
<1>14. CASE StopCollect
  BY <1>1, <1>14 DEF StopCollect, StoreTypeOK
<1>15. CASE StopOne \/ StopFinish
  BY <1>1, <1>15, SetTaskStateType DEF StopOne, StopFinish, Terminal
<1>16. ASSUME NEW w \in Pids
       PROVE  ~(DispatchResume(w) \/ DispatchNew(w))
  BY DEF DispatchResume, DispatchNew
<1>17. ~(\/ StartBackend \/ CrashBackend \/ SendShutdown \/ FinishShutdown \/ MsgBegin
        \/ MsgTimeout \/ StopBegin \/ StopTimeout)
  BY DEF StartBackend, CrashBackend, SendShutdown, FinishShutdown, MsgBegin, MsgTimeout,
         StopBegin, StopTimeout, BackendGone, Dies
<1> QED
  BY <1>2, <1>3, <1>5, <1>6, <1>7, <1>8, <1>9, <1>10, <1>11, <1>12, <1>13, <1>14, <1>15,
     <1>16, <1>17 DEF BackendStep

-----------------------------------------------------------------------------
(* The types of the processes, the coroutines and the history.             *)

\* A new process has a pid that was never given out.
LEMMA FreshIsNew ==
    ASSUME Spare
    PROVE  Fresh \in Pids \ born
  BY DEF Spare, Fresh

\* A command to resume names a task.
LEMMA ResumedTask ==
    ASSUME ProcessTypeOK, NEW w \in Pids, cmd[w].kind = "resume"
    PROVE  cmd[w].task \in Tasks
  BY DEF ProcessTypeOK, Commands, NoCmd

\* A step keeps the types of the processes and of their pipes.
LEMMA ProcessType ==
    ASSUME IInv, Next
    PROVE  ProcessTypeOK'
<1> SUFFICES ASSUME ~(UNCHANGED process /\ UNCHANGED pipe)
             PROVE  ProcessTypeOK'
  BY DEF process, pipe, ProcessTypeOK, IInv, TypeOK
<1>1. ProcessTypeOK /\ HandlerTypeOK
  BY DEF IInv, TypeOK
<1>2. ASSUME NEW p \in Pids, Dies(p)
      PROVE  ProcessTypeOK'
  BY <1>1, <1>2 DEF Dies, ProcessTypeOK, Commands
<1>3. ASSUME NEW w \in Pids, NEW command \in Commands, Dispatch(w, command)
      PROVE  ProcessTypeOK'
  BY <1>1, <1>3, FreshIsNew DEF Dispatch, DispatchTarget, ProcessTypeOK, Attached
<1>4. ASSUME NEW w \in Pids, WorkerStep(w)
      PROVE  ProcessTypeOK'
  <2>1. CASE StartNew(w) \/ AdoptResume(w) \/ DropCommand(w) \/ Interrupt(w)
    BY <1>1, <2>1
    DEF StartNew, AdoptResume, DropCommand, Interrupt, ProcessTypeOK, process, Commands
  <2>2. CASE ExitWorker(w) \/ CrashWorker(w)
    BY <1>2, <2>2 DEF ExitWorker, CrashWorker
  <2> QED
    BY <1>4, <2>1, <2>2
    DEF WorkerStep, Bind, Abandon, Authorize, AutoApprove, Settle, CheckCall, ClaimCall,
        StartBatch, RunTool, FinishCall, Complete, FailRound, Unwind, ReadState, Close, LeaveLoop
<1>5. ASSUME BackendStep
      PROVE  ProcessTypeOK'
  <2>1. CASE StartBackend
    BY <1>1, <2>1, FreshIsNew DEF StartBackend, ProcessTypeOK, pipe
  <2>2. ASSUME NEW dead, BackendGone(dead)
        PROVE  ProcessTypeOK'
    BY <1>1, <2>2 DEF BackendGone, ProcessTypeOK, Commands
  <2>3. CASE CrashBackend \/ FinishShutdown
    BY <2>2, <2>3 DEF CrashBackend, FinishShutdown
  <2>4. CASE BeginShutdown \/ SendShutdown
    BY <1>1, <2>4 DEF BeginShutdown, SendShutdown, ProcessTypeOK, pipe
  <2>5. ASSUME NEW w \in Pids, DispatchResume(w) \/ DispatchNew(w)
        PROVE  ProcessTypeOK'
    <3>1. res # NoRes => res.task \in Tasks
      BY DEF IInv, OwnerInv, Handed, Exists
    <3> QED
      BY <1>3, <2>5, <3>1 DEF DispatchResume, DispatchNew, Commands
  <2>6. CASE MsgTimeout \/ StopTimeout
    <3>1. worker \in Pids
      BY <1>1, <2>6 DEF MsgTimeout, StopTimeout, GenerationRunning, ProcessTypeOK
    <3> QED
      BY <1>2, <2>6, <3>1 DEF MsgTimeout, StopTimeout
  <2>7. CASE MsgBegin \/ StopBegin
    BY <1>1, <2>7 DEF MsgBegin, StopBegin, SendStop, ProcessTypeOK, process
  <2> QED
    BY <1>5, <2>1, <2>3, <2>4, <2>5, <2>6, <2>7
    DEF BackendStep, Sweep, ResumeTask, ResumeByDecision, Claim, FailDispatch,
        ReleaseUnadopted, DecideLive, PollDecide, DecideWrite, PollTimeout, SetPolicy,
        MsgRetire, RetireOne, RetireFail, StopCollect, StopOne, StopFinish
<1> QED
  BY <1>4, <1>5 DEF Next

\* A step keeps the types of the backend's coroutines.
LEMMA HandlerType ==
    ASSUME IInv, Next
    PROVE  HandlerTypeOK'
<1> SUFFICES ASSUME ~UNCHANGED handler
             PROVE  HandlerTypeOK'
  BY DEF handler, HandlerTypeOK, IInv, TypeOK
<1>1. HandlerTypeOK /\ StoreTypeOK
  BY DEF IInv, TypeOK
<1>2. ASSUME NEW w \in Pids
      PROVE  ~WorkerStep(w)
  BY DEF WorkerStep, StartNew, AdoptResume, DropCommand, Bind, Abandon, Authorize, AutoApprove,
         Settle, CheckCall, ClaimCall, StartBatch, RunTool, FinishCall, Complete, FailRound,
         Interrupt, Unwind, ReadState, Close, LeaveLoop, ExitWorker, CrashWorker
<1>3. CASE CrashBackend \/ FinishShutdown
  BY <1>3 DEF CrashBackend, FinishShutdown, BackendGone, HandlerTypeOK, NoRes, NoPoll, NoDec,
                 NoStop
<1>4. ASSUME NEW t \in Tasks,
             NEW p \in [task : Tasks, call : Calls, epoch : Nat,
                        decision : {"approved", "denied"}] \union {NoPoll}, Claim(t, p)
      PROVE  HandlerTypeOK'
  <2>1. task[t].epoch + 1 \in Nat
    BY <1>1 DEF StoreTypeOK, TaskRow
  <2> QED
    BY <1>1, <1>4, <2>1 DEF Claim, HandlerTypeOK
<1>5. CASE ResumeTask
  BY <1>1, <1>4, <1>5 DEF ResumeTask, HandlerTypeOK
<1>6. CASE ResumeByDecision
  <2>1. PICK r \in RowsOf(Tasks), d \in {"approved", "denied"} :
            Claim(r.task, [task |-> r.task, call |-> r.call,
                           epoch |-> task[r.task].epoch + 1, decision |-> d])
    BY <1>6 DEF ResumeByDecision
  <2>2. r.task \in Tasks /\ r.call \in Calls /\ task[r.task].epoch + 1 \in Nat
    BY <1>1, <2>1 DEF RowsOf, StoreTypeOK, ApprovalRow, TaskRow
  <2> QED
    BY <1>4, <2>1, <2>2
<1>7. ASSUME NEW w \in Pids, DispatchResume(w) \/ DispatchNew(w)
      PROVE  HandlerTypeOK'
  BY <1>1, <1>7 DEF DispatchResume, DispatchNew, HandlerTypeOK, NoRes
<1>8. CASE FailDispatch \/ ReleaseUnadopted \/ PollTimeout
  BY <1>1, <1>8 DEF FailDispatch, ReleaseUnadopted, PollTimeout, HandlerTypeOK, NoRes
<1>9. CASE MsgBegin \/ MsgTimeout
  BY <1>1, <1>9 DEF MsgBegin, MsgTimeout, HandlerTypeOK
<1>10. CASE MsgRetire \/ RetireOne \/ RetireFail
  BY <1>1, <1>10 DEF MsgRetire, RetireOne, RetireFail, HandlerTypeOK
<1>11. CASE StopBegin \/ StopTimeout
  BY <1>1, <1>11 DEF StopBegin, StopTimeout, HandlerTypeOK
<1>12. CASE StopCollect \/ StopOne \/ StopFinish
  <2>1. PICK S \in SUBSET Tasks : \/ stop' = [stop EXCEPT !.pc = "close", !.left = S]
                                 \/ stop' = [stop EXCEPT !.left = S]
                                 \/ stop' = NoStop
    BY <1>1, <1>12 DEF StopCollect, StopOne, StopFinish, HandlerTypeOK
  <2> DEFINE T == [pc : {"none", "wait", "over", "close"}, task : Tasks \union {NoTask},
                   left : SUBSET Tasks]
  <2>2. stop' \in T
    <3>1. stop \in T
      BY <1>1 DEF HandlerTypeOK
    <3>2. [stop EXCEPT !.pc = "close", !.left = S] \in T
      BY <3>1
    <3>3. [stop EXCEPT !.left = S] \in T
      BY <3>1
    <3>4. NoStop \in T
      BY DEF NoStop
    <3> HIDE DEF T
    <3> QED
      BY <2>1, <3>2, <3>3, <3>4
  <2> QED
    BY <1>1, <1>12, <2>2 DEF StopCollect, StopOne, StopFinish, HandlerTypeOK
<1>13. ASSUME NEW r \in appr, NEW d \in {"approved", "denied"},
              UNCHANGED <<res, watch, chat, todo, stop>>,
              poll' = poll \/ poll' = NoPoll, dec' = dec \/ dec' = Answer(r, d)
       PROVE  HandlerTypeOK'
  <2>1. r.task \in Tasks /\ r.call \in Calls /\ r.epoch \in Nat
    BY <1>1 DEF StoreTypeOK, ApprovalRow
  <2> QED
    BY <1>1, <1>13, <2>1 DEF Answer, HandlerTypeOK
<1>14. CASE DecideLive
  BY <1>13, <1>14 DEF DecideLive
<1>15. CASE PollDecide
  <2>1. poll.decision \in {"approved", "denied"}
    BY <1>1, <1>15 DEF PollDecide, HandlerTypeOK
  <2>2. PICK r \in appr : dec' = dec \/ dec' = Answer(r, poll.decision)
    BY <1>15 DEF PollDecide, RowsOf
  <2> QED
    BY <1>13, <1>15, <2>1, <2>2 DEF PollDecide
<1>16. CASE DecideWrite
  BY <1>1, <1>16 DEF DecideWrite, HandlerTypeOK
<1>17. ~(StartBackend \/ BeginShutdown \/ SendShutdown \/ Sweep \/ SetPolicy)
  BY DEF StartBackend, BeginShutdown, SendShutdown, Sweep, SetPolicy
<1> QED
  BY <1>2, <1>3, <1>5, <1>6, <1>7, <1>8, <1>9, <1>10, <1>11, <1>12, <1>14, <1>15, <1>16, <1>17
  DEF Next, BackendStep

\* A step keeps the types of the history variables.
LEMMA HistoryType ==
    ASSUME IInv, Next
    PROVE  HistoryTypeOK'
<1> SUFFICES ASSUME ~UNCHANGED history
             PROVE  HistoryTypeOK'
  BY DEF history, HistoryTypeOK, IInv, TypeOK
<1>1. HistoryTypeOK /\ StoreTypeOK
  BY DEF IInv, TypeOK
<1>2. ASSUME NEW t \in Tasks, NEW C \in SUBSET Calls, NEW e \in Nat
      PROVE  Grants(t, C, e) \subseteq [task : Tasks, call : Calls, epoch : Nat]
  BY <1>1 DEF Grants, HistoryTypeOK
<1>3. ASSUME NEW r \in appr
      PROVE  Grants(r.task, {r.call}, r.epoch) \subseteq [task : Tasks, call : Calls, epoch : Nat]
  BY <1>1, <1>2 DEF StoreTypeOK, ApprovalRow
<1>4. ASSUME NEW w \in Pids, WorkerStep(w)
      PROVE  HistoryTypeOK'
  <2>1. rt[w] \in Runtime /\ (Busy(w) => rt[w].task \in Tasks)
    BY DEF IInv, TypeOK, RuntimeTypeOK, OwnerInv, Exists
  <2>2. CASE Authorize(w)
    BY <1>1, <1>2, <2>1, <2>2 DEF Authorize, HistoryTypeOK, Busy, Runtime
  <2>3. CASE AutoApprove(w)
    BY <1>1, <1>3, <2>3 DEF AutoApprove, HistoryTypeOK
  <2>4. CASE ClaimCall(w)
    <3>1. PICK c \in Calls, e \in Nat : \/ claimedAt' = [claimedAt EXCEPT ![rt[w].task][c] = e]
                                        \/ claimedAt' = claimedAt
      BY <2>1, <2>4 DEF ClaimCall, Runtime
    <3>2. claimedAt \in [Tasks -> [Calls -> Nat]]
      BY <1>1 DEF HistoryTypeOK
    <3>3. \A t : [claimedAt EXCEPT ![t][c] = e] \in [Tasks -> [Calls -> Nat]]
      BY <3>2
    <3>4. claimedAt' \in [Tasks -> [Calls -> Nat]]
      BY <3>1, <3>2, <3>3
    <3> QED
      BY <1>1, <2>4, <3>4 DEF ClaimCall, HistoryTypeOK
  <2>5. CASE RunTool(w)
    BY <1>1, <2>5 DEF RunTool, HistoryTypeOK
  <2>6. CASE AdoptResume(w)
    <3>1. cmd[w].task \in Tasks
      BY <2>6, ResumedTask DEF AdoptResume, IInv, TypeOK
    <3> QED
      BY <1>1, <2>6, <3>1 DEF AdoptResume, HistoryTypeOK
  <2> QED
    BY <1>4, <2>2, <2>3, <2>4, <2>5, <2>6
    DEF WorkerStep, StartNew, DropCommand, Bind, Abandon, Settle, CheckCall,
        StartBatch, FinishCall, Complete, FailRound, Interrupt, Unwind, ReadState, Close,
        LeaveLoop, ExitWorker, CrashWorker, Dies
<1>5. CASE DecideWrite
  <2>1. dec.task \in Tasks /\ dec.call \in Calls /\ dec.epoch \in Nat
    BY <1>5 DEF DecideWrite, IInv, TypeOK, HandlerTypeOK
  <2>2. Grants(dec.task, {dec.call}, dec.epoch) \subseteq [task : Tasks, call : Calls, epoch : Nat]
    BY <1>2, <2>1
  <2> QED
    BY <1>1, <1>5, <2>2 DEF DecideWrite, HistoryTypeOK
<1>6. ASSUME BackendStep
      PROVE  DecideWrite
  BY <1>6
  DEF BackendStep, StartBackend, CrashBackend, BeginShutdown, SendShutdown, FinishShutdown,
      BackendGone, Sweep, ResumeTask, ResumeByDecision, Claim, DispatchResume, DispatchNew,
      FailDispatch, ReleaseUnadopted, DecideLive, PollDecide, PollTimeout, SetPolicy, MsgBegin,
      MsgTimeout, Dies, MsgRetire, RetireOne, RetireFail, StopBegin, StopTimeout, StopCollect,
      StopOne, StopFinish
<1> QED
  BY <1>4, <1>5, <1>6 DEF Next

\* A task once adopted from under another process remains noted.
LEMMA ContestedGrows ==
    ASSUME [Next]_vars
    PROVE  contested \subseteq contested'
<1>1. CASE UNCHANGED vars
  BY <1>1 DEF vars, history
<1>2. ASSUME NEW w \in Pids, WorkerStep(w)
      PROVE  contested \subseteq contested'
  BY <1>2
  DEF WorkerStep, StartNew, AdoptResume, DropCommand, Bind, Abandon, Authorize, AutoApprove,
      Settle, CheckCall, ClaimCall, StartBatch, RunTool, FinishCall, Complete, FailRound,
      Interrupt, Unwind, ReadState, Close, LeaveLoop, ExitWorker, CrashWorker, Dies, history
<1>3. CASE BackendStep
  BY <1>3
  DEF BackendStep, StartBackend, CrashBackend, BeginShutdown, SendShutdown, FinishShutdown,
      BackendGone, Sweep, ResumeTask, ResumeByDecision, Claim, DispatchResume, DispatchNew,
      FailDispatch, ReleaseUnadopted, DecideLive, PollDecide, DecideWrite, PollTimeout, SetPolicy,
      MsgBegin, MsgTimeout, Dies, MsgRetire, RetireOne, RetireFail, StopBegin, StopTimeout,
      StopCollect, StopOne, StopFinish, history
<1> QED
  BY <1>1, <1>2, <1>3 DEF Next

-----------------------------------------------------------------------------
(* The types of what the processes execute.                                *)

\* Replacing what one process executes keeps the type of rt.
LEMMA RuntimeAtType ==
    ASSUME RuntimeTypeOK, NEW w \in Pids, NEW x \in Runtime, rt' = [rt EXCEPT ![w] = x]
    PROVE  rt' \in [Pids -> Runtime]
  BY DEF RuntimeTypeOK

\* Moving the calls of a batch on keeps the type of rt.
LEMMA SetCallsType ==
    ASSUME RuntimeTypeOK, NEW w \in Pids, NEW C, NEW s \in CallStates
    PROVE  SetCalls(w, C, s) \in [Pids -> Runtime]
<1> DEFINE f == [c \in Calls |-> IF c \in C THEN s ELSE rt[w].call[c]]
<1>1. rt[w] \in Runtime
  BY DEF RuntimeTypeOK
<1>2. f \in [Calls -> CallStates]
  BY <1>1 DEF Runtime
<1>3. [rt[w] EXCEPT !.call = f] \in Runtime
  BY <1>1, <1>2 DEF Runtime
<1> QED
  BY <1>3 DEF SetCalls, RuntimeTypeOK

\* A failing round keeps the type of rt.
LEMMA FailType ==
    ASSUME RuntimeTypeOK, NEW w \in Pids, Fail(w)
    PROVE  rt' \in [Pids -> Runtime]
<1>1. rt[w] \in Runtime
  BY DEF RuntimeTypeOK
<1>2. [rt[w] EXCEPT !.pc = "finally", !.final = "failed"] \in Runtime
  BY <1>1 DEF Runtime
<1>3. rt' = [rt EXCEPT ![w] = [rt[w] EXCEPT !.pc = "finally", !.final = "failed"]]
  BY DEF Fail, RuntimeTypeOK
<1> QED
  BY <1>2, <1>3, RuntimeAtType

\* A call that begins keeps the types of rt and of the tool threads.
LEMMA BegunType ==
    ASSUME RuntimeTypeOK, NEW w \in Pids, NEW c \in Calls, rt[w].task \in Tasks, Begun(w, c)
    PROVE  RuntimeTypeOK'
<1>1. rt' \in [Pids -> Runtime]
  BY SetCallsType DEF Begun, CallStates
<1> QED
  BY <1>1 DEF Begun, RuntimeTypeOK

\* A step of a worker keeps the types of rt and of the tool threads.
LEMMA WorkerRuntimeType ==
    ASSUME IInv, NEW w \in Pids, WorkerStep(w)
    PROVE  RuntimeTypeOK'
<1> SUFFICES ASSUME ~UNCHANGED <<rt, inflight>>
             PROVE  RuntimeTypeOK'
  BY DEF RuntimeTypeOK, IInv, TypeOK
<1>1. /\ RuntimeTypeOK /\ StoreTypeOK /\ ProcessTypeOK
      /\ rt[w] \in Runtime /\ (Busy(w) => rt[w].task \in Tasks)
  BY DEF IInv, TypeOK, RuntimeTypeOK, OwnerInv, Exists
<1>2. Idle \in Runtime
  BY DEF Idle, Runtime, CallStates
<1>3. ASSUME NEW t \in Tasks, NEW e \in Nat, StartedAs(w, t, e)
      PROVE  rt' \in [Pids -> Runtime]
  <2>1. [Idle EXCEPT !.pc = "starting", !.task = t, !.epoch = e] \in Runtime
    BY <1>2 DEF Runtime
  <2> QED
    BY <1>1, <1>3, <2>1, RuntimeAtType DEF StartedAs
<1>4. CASE StartNew(w)
  <2>1. NewTask \in Tasks
    BY <1>4 DEF StartNew, Absent, NewTask
  <2> QED
    BY <1>1, <1>3, <1>4, <2>1 DEF StartNew, RuntimeTypeOK
<1>5. CASE AdoptResume(w)
  <2>1. cmd[w].task \in Tasks
    BY <1>1, <1>5, ResumedTask DEF AdoptResume
  <2>2. task[cmd[w].task].epoch \in Nat
    BY <1>1, <2>1 DEF StoreTypeOK, TaskRow
  <2>3. rt' \in [Pids -> Runtime]
    BY <1>1, <1>3, <1>5, <2>1, <2>2 DEF AdoptResume, RuntimeTypeOK
  <2> QED
    BY <1>1, <1>5, <2>3 DEF AdoptResume, RuntimeTypeOK
<1>6. CASE Authorize(w)
  <2>1. CASE Fail(w)
    BY <1>1, <1>6, <2>1, FailType DEF Authorize, RuntimeTypeOK
  <2>2. CASE ~Fail(w)
    <3>1. PICK f \in [Calls -> CallStates] : rt' = [rt EXCEPT ![w].pc = "batch", ![w].call = f]
      BY <1>6, <2>2 DEF Authorize, CallStates
    <3>2. [rt[w] EXCEPT !.pc = "batch", !.call = f] \in Runtime
      BY <1>1 DEF Runtime
    <3>3. rt' = [rt EXCEPT ![w] = [rt[w] EXCEPT !.pc = "batch", !.call = f]]
      BY <1>1, <3>1 DEF RuntimeTypeOK
    <3>4. rt' \in [Pids -> Runtime]
      BY <1>1, <3>2, <3>3, RuntimeAtType
    <3> QED
      BY <1>1, <1>6, <3>4 DEF Authorize, RuntimeTypeOK
  <2> QED
    BY <2>1, <2>2
<1>7. CASE Settle(w)
  <2>1. PICK r \in appr : \/ rt' = SetCalls(w, {r.call}, "allow")
                         \/ rt' = SetCalls(w, {r.call}, "done")
    BY <1>7 DEF Settle
  <2>2. rt' \in [Pids -> Runtime]
    BY <1>1, <2>1, SetCallsType DEF CallStates
  <2> QED
    BY <1>1, <1>7, <2>2 DEF Settle, RuntimeTypeOK
<1>8. CASE FinishCall(w)
  <2>1. PICK c \in Calls : rt' = SetCalls(w, {c}, "done")
    BY <1>8 DEF FinishCall
  <2>2. rt' \in [Pids -> Runtime]
    BY <1>1, <2>1, SetCallsType DEF CallStates
  <2> QED
    BY <1>1, <1>8, <2>2 DEF FinishCall, RuntimeTypeOK
<1>9. CASE CheckCall(w) \/ ClaimCall(w)
  <2>1. PICK c \in Calls : \/ Begun(w, c)
                           \/ rt' = SetCalls(w, {c}, "checked") /\ UNCHANGED inflight
                           \/ Fail(w) /\ UNCHANGED inflight
    BY <1>9 DEF CheckCall, ClaimCall
  <2>2. rt[w].task \in Tasks
    BY <1>1, <1>9 DEF CheckCall, ClaimCall, NextCall, InBatch, Busy
  <2>3. CASE Begun(w, c)
    BY <1>1, <2>2, <2>3, BegunType
  <2>4. CASE rt' = SetCalls(w, {c}, "checked") /\ UNCHANGED inflight
    BY <1>1, <2>4, SetCallsType DEF RuntimeTypeOK, CallStates
  <2>5. CASE Fail(w) /\ UNCHANGED inflight
    BY <1>1, <2>5, FailType DEF RuntimeTypeOK
  <2> QED
    BY <2>1, <2>3, <2>4, <2>5
<1>10. CASE StartBatch(w)
  <2>1. rt[w].task \in Tasks
    BY <1>1, <1>10 DEF StartBatch, InBatch, Busy
  <2>2. rt' \in [Pids -> Runtime]
    BY <1>1, <1>10, SetCallsType DEF StartBatch, CallStates
  <2> QED
    BY <1>1, <1>10, <2>1, <2>2 DEF StartBatch, StatusOf, RuntimeTypeOK
<1>11. CASE RunTool(w)
  BY <1>1, <1>11 DEF RunTool, RuntimeTypeOK
<1>12. CASE Complete(w)
  <2>1. [rt[w] EXCEPT !.pc = "finally", !.final = "completed"] \in Runtime
    BY <1>1 DEF Runtime
  <2>2. rt' = [rt EXCEPT ![w] = [rt[w] EXCEPT !.pc = "finally", !.final = "completed"]]
    BY <1>1, <1>12 DEF Complete, RuntimeTypeOK
  <2> QED
    BY <1>1, <1>12, <2>1, <2>2, RuntimeAtType DEF Complete, RuntimeTypeOK
<1>13. CASE FailRound(w)
  BY <1>1, <1>13, FailType DEF FailRound, RuntimeTypeOK
<1>14. CASE Interrupt(w)
  <2>1. PICK why \in {"user", "interrupt", "suspend"} : Cancel(w, why)
    BY <1>14 DEF Interrupt
  <2>2. [rt[w] EXCEPT !.pc = "cancelling", !.why = why] \in Runtime
    BY <1>1 DEF Runtime
  <2> QED
    BY <1>1, <1>2, <1>14, <2>1, <2>2, RuntimeAtType DEF Cancel, Interrupt, RuntimeTypeOK
<1>15. CASE ReadState(w)
  <2>1. PICK s \in {"suspended", "cancelled", "failed", "completed"} :
            rt' = [rt EXCEPT ![w].pc = "closing", ![w].close = s]
    BY <1>1, <1>15 DEF ReadState, Runtime
  <2>2. [rt[w] EXCEPT !.pc = "closing", !.close = s] \in Runtime
    BY <1>1 DEF Runtime
  <2>3. rt' = [rt EXCEPT ![w] = [rt[w] EXCEPT !.pc = "closing", !.close = s]]
    BY <1>1, <2>1 DEF RuntimeTypeOK
  <2> QED
    BY <1>1, <1>15, <2>2, <2>3, RuntimeAtType DEF ReadState, RuntimeTypeOK
<1>16. CASE Bind(w) \/ Unwind(w) \/ LeaveLoop(w)
  <2>1. PICK s \in {"ready", "finally", "leaving"} : rt' = [rt EXCEPT ![w].pc = s]
    BY <1>16 DEF Bind, Unwind, LeaveLoop
  <2>2. [rt[w] EXCEPT !.pc = s] \in Runtime
    BY <1>1 DEF Runtime
  <2> QED
    BY <1>1, <1>16, <2>1, <2>2, RuntimeAtType DEF Bind, Unwind, LeaveLoop, RuntimeTypeOK
<1>17. CASE Abandon(w) \/ Close(w)
  BY <1>1, <1>2, <1>17, RuntimeAtType DEF Abandon, Close, RuntimeTypeOK
<1>18. CASE ExitWorker(w) \/ CrashWorker(w)
  BY <1>1, <1>2, <1>18 DEF ExitWorker, CrashWorker, Dies, RuntimeTypeOK
<1>19. ~(DropCommand(w) \/ AutoApprove(w))
  BY DEF DropCommand, AutoApprove
<1> QED
  BY <1>4, <1>5, <1>6, <1>7, <1>8, <1>9, <1>10, <1>11, <1>12, <1>13, <1>14, <1>15, <1>16, <1>17,
     <1>18, <1>19 DEF WorkerStep

\* A step of the backend keeps the types of rt and of the tool threads.
LEMMA BackendRuntimeType ==
    ASSUME IInv, BackendStep
    PROVE  RuntimeTypeOK'
<1> SUFFICES ASSUME ~UNCHANGED <<rt, inflight>>
             PROVE  RuntimeTypeOK'
  BY DEF RuntimeTypeOK, IInv, TypeOK
<1>1. RuntimeTypeOK
  BY DEF IInv, TypeOK
<1>2. Idle \in Runtime
  BY DEF Idle, Runtime, CallStates
<1>3. CASE CrashBackend \/ FinishShutdown
  BY <1>1, <1>2, <1>3 DEF CrashBackend, FinishShutdown, BackendGone, RuntimeTypeOK
<1>4. CASE MsgTimeout \/ StopTimeout
  BY <1>1, <1>2, <1>4 DEF MsgTimeout, StopTimeout, Dies, RuntimeTypeOK
<1> QED
  BY <1>3, <1>4
  DEF BackendStep, StartBackend, BeginShutdown, SendShutdown, Sweep, ResumeTask,
      ResumeByDecision, Claim, DispatchResume, DispatchNew, FailDispatch, ReleaseUnadopted,
      DecideLive, PollDecide, DecideWrite, PollTimeout, SetPolicy, MsgBegin, MsgRetire,
      RetireOne, RetireFail, StopBegin, StopCollect, StopOne, StopFinish

\* The type invariant is kept by every step from the inductive invariant.
LEMMA TypeStep ==
    ASSUME IInv, Next
    PROVE  TypeOK'
<1>1. StoreTypeOK'
  BY WorkerStoreType, BackendStoreType DEF Next
<1>2. RuntimeTypeOK'
  BY WorkerRuntimeType, BackendRuntimeType DEF Next
<1> QED
  BY <1>1, <1>2, ProcessType, HandlerType, HistoryType DEF TypeOK

-----------------------------------------------------------------------------
(***************************************************************************)
(* Who may execute a task: every step keeps ProcessInv and OwnerInv.  A    *)
(* task whose owner is alive, and is not the backend, changes hands in no  *)
(* step, so that the one who executes it stays alone.                      *)
(***************************************************************************)

(* Who is alive, and who may execute.                                      *)

\* The process behind the backend's worker proxy is not the backend.
LEMMA WorkerIsNotBackend ==
    ASSUME IInv, worker \in alive
    PROVE  worker # backend /\ worker \in Pids
  BY DEF IInv, TypeOK, ProcessTypeOK, ProcessInv

\* A worker's step is of a living process, changes the runtime of no other
\* process, and the backend executes nothing.
LEMMA WorkerLocal ==
    ASSUME IInv, NEW w \in Pids, WorkerStep(w)
    PROVE  /\ w \in alive
           /\ \A p \in Pids \ {w} : rt'[p] = rt[p]
           /\ rt'[w] # rt[w] => w # backend
<1>1. /\ rt \in [Pids -> Runtime]
      /\ \A p \in Pids : p \notin alive \/ p = backend => rt[p].pc = "idle"
      /\ \A x \in inflight : x[1] \in alive
  BY DEF IInv, TypeOK, RuntimeTypeOK, ProcessInv
<1>2. Attached(w) => w \in alive /\ w # backend
  BY WorkerIsNotBackend DEF Attached
<1>3. w \in alive
  <2>1. RunTool(w) => w \in alive
    BY <1>1 DEF RunTool
  <2> QED
    BY <1>2, <2>1
    DEF WorkerStep, StartNew, AdoptResume, DropCommand, Bind, Abandon, Authorize, AutoApprove,
        Awaited, Settle, CheckCall, ClaimCall, InBatch, NextCall, StartBatch, FinishCall,
        Complete, FailRound, Interrupt, Unwind, ReadState, Close, LeaveLoop, ExitWorker,
        CrashWorker
<1>4. \A p \in Pids \ {w} : rt'[p] = rt[p]
  <2>1. CASE CheckCall(w) \/ ClaimCall(w) \/ Authorize(w)
    BY <1>1, <2>1 DEF CheckCall, ClaimCall, Authorize, Begun, Fail, SetCalls
  <2>2. CASE AdoptResume(w) \/ StartNew(w) \/ Settle(w) \/ FinishCall(w) \/ StartBatch(w)
             \/ Complete(w) \/ FailRound(w)
    BY <1>1, <2>2 DEF AdoptResume, StartNew, StartedAs, Settle, FinishCall, StartBatch, Complete,
                      FailRound, Fail, SetCalls
  <2>3. CASE Interrupt(w) \/ Unwind(w) \/ ReadState(w) \/ Close(w) \/ LeaveLoop(w)
    BY <1>1, <2>3 DEF Interrupt, Cancel, Unwind, ReadState, Close, LeaveLoop
  <2>4. CASE ExitWorker(w) \/ CrashWorker(w)
    BY <1>1, <2>4 DEF ExitWorker, CrashWorker, Dies
  <2>5. CASE Bind(w) \/ Abandon(w)
    BY <1>1, <2>5 DEF Bind, Abandon
  <2>6. CASE DropCommand(w) \/ AutoApprove(w) \/ RunTool(w)
    BY <2>6 DEF DropCommand, AutoApprove, RunTool
  <2> QED
    BY <2>1, <2>2, <2>3, <2>4, <2>5, <2>6 DEF WorkerStep
<1>5. rt'[w] # rt[w] => w # backend
  <2>1. CASE Attached(w) \/ rt[w].pc # "idle" \/ LeaveLoop(w) \/ CrashWorker(w)
    BY <1>1, <1>2, <2>1 DEF LeaveLoop, CrashWorker
  <2>2. CASE RunTool(w) \/ DropCommand(w)
    BY <2>2 DEF RunTool, DropCommand
  <2>3. CASE StartNew(w) \/ AdoptResume(w)
    BY <2>3 DEF StartNew, AdoptResume, NoCmd, IInv, ProcessInv
  <2> QED
    BY <2>1, <2>2, <2>3
    DEF WorkerStep, Bind, Abandon, Authorize, AutoApprove,
        Awaited, Settle, CheckCall, ClaimCall, InBatch, NextCall, StartBatch, FinishCall,
        Complete, FailRound, Interrupt, Unwind, ReadState, Close, ExitWorker
<1> QED
  BY <1>3, <1>4, <1>5

\* The death of a process other than the backend keeps ProcessInv.
LEMMA DiesProcess ==
    ASSUME IInv, NEW p \in Pids, p # backend, Dies(p)
    PROVE  ProcessInv'
<1>1. rt \in [Pids -> Runtime] /\ cmd \in [Pids -> Commands]
  BY DEF IInv, TypeOK, RuntimeTypeOK, ProcessTypeOK
<1>2. Idle.pc = "idle"
  BY DEF Idle
<1>3. \A q \in Pids : cmd'[q] = IF q = p THEN NoCmd ELSE cmd[q]
  BY <1>1 DEF Dies
<1> QED
  BY <1>1, <1>2, <1>3 DEF IInv, ProcessInv, Dies

\* The end of the backend, alone or with its worker, keeps ProcessInv.
LEMMA GoneProcess ==
    ASSUME IInv, NEW dead, backend \in dead, BackendGone(dead)
    PROVE  ProcessInv'
<1>1. Idle.pc = "idle"
  BY DEF Idle
<1>2. ProcessInv /\ NoPid \notin Pids
  BY DEF IInv
<1> QED
  BY <1>1, <1>2 DEF ProcessInv, BackendGone, NoCmd

\* A dispatch, to the living worker or to a new one, keeps ProcessInv.
LEMMA DispatchProcess ==
    ASSUME IInv, NEW w \in Pids, NEW command, command # NoCmd, Dispatch(w, command),
           UNCHANGED <<rt, inflight>>
    PROVE  ProcessInv'
<1>1. w # backend /\ (w = worker \/ w \notin born)
  BY FreshIsNew, WorkerIsNotBackend
  DEF Dispatch, DispatchTarget, Attached, IInv, TypeOK, ProcessTypeOK, ProcessInv
<1>2. ProcessInv /\ alive \subseteq born
  BY DEF IInv, TypeOK, ProcessTypeOK
<1>3. w \in Pids /\ NoPid \notin Pids
  OBVIOUS
<1> QED
  BY <1>1, <1>2, <1>3 DEF Dispatch, ProcessInv

\* A step of a worker takes its own command from the pipe, if any.
LEMMA WorkerCommand ==
    ASSUME IInv, NEW w \in Pids, WorkerStep(w)
    PROVE  \/ UNCHANGED cmd
           \/ /\ cmd' = [cmd EXCEPT ![w] = NoCmd]
              /\ \A p \in Pids : cmd'[p] = IF p = w THEN NoCmd ELSE cmd[p]
<1>1. cmd \in [Pids -> Commands]
  BY DEF IInv, TypeOK, ProcessTypeOK
<1> QED
  BY <1>1
  DEF WorkerStep, StartNew, AdoptResume, DropCommand, Bind, Abandon, Authorize, AutoApprove,
      pipe, Settle, CheckCall, ClaimCall, StartBatch, RunTool, FinishCall, Complete, FailRound,
      Interrupt, Unwind, ReadState, Close, LeaveLoop, ExitWorker, CrashWorker, Dies

\* Every step keeps ProcessInv.
LEMMA ProcessStep ==
    ASSUME IInv, Next
    PROVE  ProcessInv'
<1>1. ProcessInv /\ ProcessTypeOK /\ RuntimeTypeOK /\ NoPid \notin Pids
  BY DEF IInv, TypeOK
<1>2. ASSUME NEW w \in Pids, WorkerStep(w)
      PROVE  ProcessInv'
  <2>1. w \in alive /\ (\A p \in Pids \ {w} : rt'[p] = rt[p]) /\ (rt'[w] # rt[w] => w # backend)
    BY <1>2, WorkerLocal
  <2>2. CASE ExitWorker(w) \/ CrashWorker(w)
    <3>1. w # backend
      BY <1>1, <2>2 DEF ExitWorker, CrashWorker, ProcessInv
    <3> QED
      BY <2>2, <3>1, DiesProcess DEF ExitWorker, CrashWorker
  <2>3. CASE ~(ExitWorker(w) \/ CrashWorker(w))
    <3>1. UNCHANGED process
      BY <1>2, <2>3
      DEF WorkerStep, StartNew, AdoptResume, DropCommand, Bind, Abandon, Authorize, AutoApprove,
          Settle, CheckCall, ClaimCall, StartBatch, RunTool, FinishCall, Complete, FailRound,
          Interrupt, Unwind, ReadState, Close, LeaveLoop
    <3>2. (\A p \in Pids : cmd'[p] = cmd[p] \/ cmd'[p] = NoCmd)
      BY <1>2, WorkerCommand
    <3>3. \A x \in inflight' : x \in inflight \/ x[1] = w
      <4>1. CASE CheckCall(w) \/ ClaimCall(w)
        <5>1. PICK c \in Calls : Begun(w, c) \/ UNCHANGED inflight
          BY <4>1 DEF CheckCall, ClaimCall
        <5> QED
          BY <5>1 DEF Begun
      <4>2. CASE StartBatch(w)
        BY <4>2 DEF StartBatch
      <4>3. CASE RunTool(w)
        BY <4>3 DEF RunTool
      <4> QED
        BY <1>2, <2>3, <4>1, <4>2, <4>3
        DEF WorkerStep, StartNew, AdoptResume, DropCommand, Bind, Abandon, Authorize,
            AutoApprove, Settle, FinishCall, Complete, FailRound, Interrupt, Unwind, ReadState,
            Close, LeaveLoop
    <3> QED
      BY <1>1, <2>1, <3>1, <3>2, <3>3 DEF ProcessInv, process
  <2> QED
    BY <2>2, <2>3
<1>3. ASSUME BackendStep
      PROVE  ProcessInv'
  <2>1. CASE StartBackend
    <3>1. Fresh \notin born /\ Fresh \in Pids
      BY <2>1, FreshIsNew DEF StartBackend
    <3> QED
      BY <1>1, <2>1, <3>1 DEF StartBackend, BackendUp, ProcessInv, ProcessTypeOK, pipe
  <2>2. CASE CrashBackend \/ FinishShutdown
    <3>1. PICK dead : backend \in dead /\ BackendGone(dead)
      BY <2>2 DEF CrashBackend, FinishShutdown
    <3> QED
      BY <3>1, GoneProcess
  <2>3. ASSUME NEW w \in Pids, DispatchResume(w) \/ DispatchNew(w)
        PROVE  ProcessInv'
    <3>1. PICK command : command # NoCmd /\ Dispatch(w, command) /\ UNCHANGED <<rt, inflight>>
      BY <2>3 DEF DispatchResume, DispatchNew, NoCmd
    <3> QED
      BY <3>1, DispatchProcess
  <2>4. CASE MsgTimeout \/ StopTimeout
    <3>1. worker # backend /\ worker \in Pids /\ Dies(worker)
      BY <2>4, WorkerIsNotBackend DEF MsgTimeout, StopTimeout, GenerationRunning
    <3> QED
      BY <3>1, DiesProcess
  <2>5. CASE UNCHANGED <<alive, born, backend, worker, cmd, rt, inflight>>
    BY <1>1, <2>5 DEF ProcessInv, ProcessTypeOK
  <2> QED
    BY <1>3, <2>1, <2>2, <2>3, <2>4, <2>5
    DEF BackendStep, BeginShutdown, SendShutdown, Sweep, ResumeTask, ResumeByDecision, Claim,
        FailDispatch, ReleaseUnadopted, DecideLive, PollDecide, DecideWrite, PollTimeout,
        SetPolicy, MsgBegin, MsgRetire, RetireOne, RetireFail, StopBegin, StopCollect, StopOne,
        StopFinish, process, pipe
<1> QED
  BY <1>2, <1>3 DEF Next

-----------------------------------------------------------------------------
(* Who owns a task.                                                        *)

\* An UPDATE of the state column leaves the owners and the epochs alone.
LEMMA WithStateKeeps ==
    ASSUME StoreTypeOK, NEW S, NEW s, NEW t \in Tasks
    PROVE  /\ WithState(S, s)[t].owner = task[t].owner
           /\ WithState(S, s)[t].epoch = task[t].epoch
           /\ WithState(S, s)[t].state = (IF t \in S THEN s ELSE task[t].state)
<1>1. task[t] \in TaskRow
  BY DEF StoreTypeOK
<1> QED
  BY <1>1 DEF WithState, TaskRow

\* So does the sweep of pending(), which creates no task either.
LEMMA SweptKeeps ==
    ASSUME StoreTypeOK, NEW t \in Tasks
    PROVE  /\ Swept[t].owner = task[t].owner
           /\ Swept[t].epoch = task[t].epoch
           /\ Swept[t].state = "absent" <=> task[t].state = "absent"
  BY WithStateKeeps DEF Swept

\* set_task_state leaves the owners and the epochs alone.
LEMMA SetTaskStateKeeps ==
    ASSUME StoreTypeOK, NEW S, NEW s \in Live \union Terminal, SetTaskState(S, s), NEW t \in Tasks
    PROVE  /\ task'[t].owner = task[t].owner
           /\ task'[t].epoch = task[t].epoch
           /\ Exists(t) => Exists(t)'
  BY WithStateKeeps DEF SetTaskState, Exists, Live, Terminal

\* suspend_session leaves the owners and the epochs alone.
LEMMA SuspendSessionKeeps ==
    ASSUME StoreTypeOK, SuspendSession, NEW t \in Tasks
    PROVE  /\ task'[t].owner = task[t].owner
           /\ task'[t].epoch = task[t].epoch
           /\ Exists(t) => Exists(t)'
  BY WithStateKeeps DEF SuspendSession, Exists

\* release_resume changes the owner only of a task that the releaser owns.
LEMMA ReleasedByKeeps ==
    ASSUME NEW tasks \in [Tasks -> TaskRow], NEW t, NEW e, NEW me, NEW u \in Tasks
    PROVE  LET new == ReleasedBy(tasks, t, e, me)[u]
           IN /\ tasks[u].state # "absent" => new.state # "absent"
              /\ u # t \/ tasks[u].owner # me =>
                    new.owner = tasks[u].owner /\ new.epoch = tasks[u].epoch
<1>1. tasks[u] \in TaskRow
  OBVIOUS
<1> QED
  BY <1>1 DEF ReleasedBy, TaskRow

\* claim_interrupted_task changes the owners of the tasks it claims only.
LEMMA RetiredByKeeps ==
    ASSUME NEW tasks \in [Tasks -> TaskRow], NEW S, NEW me, NEW u \in Tasks
    PROVE  LET new == RetiredBy(tasks, S, me)[u]
           IN /\ new.state = tasks[u].state
              /\ u \notin S => new.owner = tasks[u].owner /\ new.epoch = tasks[u].epoch
<1>1. tasks[u] \in TaskRow
  OBVIOUS
<1> QED
  BY <1>1 DEF RetiredBy, TaskRow

\* A step of the backend starts nothing: at most it ends what a process executes.
LEMMA BackendRuntime ==
    ASSUME IInv, BackendStep
    PROVE  /\ inflight' \subseteq inflight
           /\ \A p \in Pids : /\ p \notin alive => rt[p].pc = "idle"
                              /\ rt'[p] = rt[p] \/ rt'[p].pc = "idle"
<1>1. /\ rt \in [Pids -> Runtime] /\ ProcessInv
  BY DEF IInv, TypeOK, RuntimeTypeOK
<1>2. Idle.pc = "idle"
  BY DEF Idle
<1>3. \A p \in Pids : p \notin alive => rt[p].pc = "idle"
  BY <1>1 DEF ProcessInv
<1>4. CASE CrashBackend \/ FinishShutdown
  BY <1>1, <1>2, <1>3, <1>4 DEF CrashBackend, FinishShutdown, BackendGone
<1>5. CASE MsgTimeout \/ StopTimeout
  BY <1>1, <1>2, <1>3, <1>5 DEF MsgTimeout, StopTimeout, Dies
<1>6. ~(CrashBackend \/ FinishShutdown \/ MsgTimeout \/ StopTimeout) => UNCHANGED <<rt, inflight>>
  BY DEF BackendStep, StartBackend, BeginShutdown, SendShutdown, Sweep, ResumeTask,
         ResumeByDecision, Claim, DispatchResume, DispatchNew, FailDispatch, ReleaseUnadopted,
         DecideLive, PollDecide, DecideWrite, PollTimeout, SetPolicy, MsgBegin, MsgRetire,
         RetireOne, RetireFail, StopBegin, StopCollect, StopOne, StopFinish
<1> QED
  BY <1>3, <1>4, <1>5, <1>6

\* Who executes a task after a step of the backend did so before it.
LEMMA BackendExecutes ==
    ASSUME IInv, BackendStep, NEW p \in Pids, NEW t, Executes(p, t)'
    PROVE  Executes(p, t) /\ rt'[p] = rt[p]
  BY BackendRuntime DEF Executes, Executing

\* A task that somebody executes has a living owner other than the backend.
LEMMA ExecutedIsOwned ==
    ASSUME IInv, NEW p \in Pids, NEW t \in Tasks, Executes(p, t)
    PROVE  task[t].owner = p /\ task[t].owner \in alive /\ task[t].owner # backend
  BY DEF IInv, OwnerInv, ProcessInv, Executes, Executing

\* A step that keeps task t: no other process takes it while its owner is alive
\* and is not the backend.
Keeps(t) ==
    /\ Exists(t) => Exists(t)'
    /\ task[t].owner \in alive /\ task[t].owner # backend =>
         task'[t].owner = task[t].owner /\ task'[t].epoch = task[t].epoch

\* A step of the backend keeps every task.
LEMMA BackendTask ==
    ASSUME IInv, BackendStep, NEW t \in Tasks
    PROVE  Keeps(t)
<1>1. StoreTypeOK /\ HandlerTypeOK /\ Swept \in [Tasks -> TaskRow] /\ task \in [Tasks -> TaskRow]
  BY SweptType DEF IInv, TypeOK, StoreTypeOK
<1>2. /\ Swept[t].owner = task[t].owner
      /\ Swept[t].epoch = task[t].epoch
      /\ Swept[t].state = "absent" <=> task[t].state = "absent"
  BY <1>1, SweptKeeps
<1>3. CASE UNCHANGED task
  BY <1>3 DEF Keeps, Exists
<1>4. CASE task' = Swept
  BY <1>2, <1>4 DEF Keeps, Exists
<1>5. ASSUME NEW u \in Tasks, NEW p, Claim(u, p)
      PROVE  Keeps(t)
  <2>1. Swept[u].owner \notin alive
    BY <1>5 DEF Claim, MayResume
  <2> DEFINE new == ResumedBy(Swept, u, backend)
  <2>2. new \in [Tasks -> TaskRow]
    BY <1>1, ResumedByType DEF IInv, TypeOK, ProcessTypeOK
  <2>3. new[t].state # "absent" \/ ~Exists(t)
    BY <1>1, <1>2 DEF ResumedBy, Exists
  <2>4. t # u => new[t] = Swept[t]
    BY <1>1 DEF ResumedBy
  <2>5. task' = new \/ \E e : task' = ReleasedBy(new, u, e, backend)
    BY <1>5 DEF Claim
  <2> HIDE DEF new
  <2> QED
    BY <1>2, <2>1, <2>2, <2>3, <2>4, <2>5, ReleasedByKeeps DEF Keeps, Exists
<1>6. ASSUME NEW tasks \in {task, Swept}, NEW u, NEW e, task' = ReleasedBy(tasks, u, e, backend)
      PROVE  Keeps(t)
  BY <1>1, <1>2, <1>6, ReleasedByKeeps DEF Keeps, Exists
<1>7. CASE MsgRetire
  <2>1. task' = Swept \/ \E S, me : /\ \A u \in S : MayRetire(Swept, u)
                                    /\ task' = RetiredBy(Swept, S, me)
    BY <1>7 DEF MsgRetire
  <2> QED
    BY <1>1, <1>2, <1>4, <2>1, RetiredByKeeps DEF MayRetire, Keeps, Exists
<1>8. CASE RetireFail
  BY <1>1, <1>8, ReleasedByKeeps DEF RetireFail, Keeps, Exists
<1>9. ASSUME NEW S, SetTaskState(S, "cancelled")
      PROVE  Keeps(t)
  BY <1>1, <1>9, SetTaskStateKeeps DEF Keeps, Terminal
<1>10. CASE SuspendSession
  BY <1>1, <1>10, SuspendSessionKeeps DEF Keeps
<1>11. CASE ResumeTask
  BY <1>5, <1>11 DEF ResumeTask
<1>12. CASE ResumeByDecision
  <2>1. \A r \in RowsOf(Tasks) : r.task \in Tasks
    BY DEF RowsOf
  <2> QED
    BY <1>5, <1>12, <2>1 DEF ResumeByDecision
<1>13. CASE FailDispatch \/ ReleaseUnadopted \/ PollTimeout
  BY <1>3, <1>6, <1>13 DEF FailDispatch, ReleaseUnadopted, PollTimeout
<1>14. CASE RetireOne \/ StopOne \/ StopFinish
  <2>1. UNCHANGED task \/ \E S : SetTaskState(S, "cancelled")
    BY <1>14 DEF RetireOne, StopOne, StopFinish, ledger
  <2> QED
    BY <1>3, <1>9, <2>1
<1>15. ASSUME ~(ResumeTask \/ ResumeByDecision \/ FailDispatch \/ ReleaseUnadopted \/ PollTimeout
                \/ RetireOne \/ StopOne \/ StopFinish \/ MsgRetire \/ RetireFail)
       PROVE  Keeps(t)
  BY <1>3, <1>4, <1>10, <1>15
  DEF BackendStep, StartBackend, CrashBackend, FinishShutdown, BackendGone, BeginShutdown,
      SendShutdown, Sweep, DispatchResume, DispatchNew, DecideLive, PollDecide, DecideWrite,
      SetPolicy, MsgBegin, MsgTimeout, Dies, StopBegin, StopTimeout, StopCollect, ledger
<1> QED
  BY <1>7, <1>8, <1>11, <1>12, <1>13, <1>14, <1>15

\* Across a worker's step that takes nothing up, nothing starts to execute.
LEMMA WorkerExecutes ==
    ASSUME IInv, NEW w \in Pids, WorkerStep(w), ~StartNew(w), ~AdoptResume(w), NEW p \in Pids
    PROVE  /\ Busy(p)' => Busy(p) /\ rt'[p].task = rt[p].task /\ rt'[p].epoch = rt[p].epoch
           /\ \A t : Executes(p, t)' => Executes(p, t)
           /\ alive' \subseteq alive
<1>1. rt \in [Pids -> Runtime] /\ rt[w] \in Runtime
  BY DEF IInv, TypeOK, RuntimeTypeOK
<1>2. alive' \subseteq alive
  BY DEF WorkerStep, DropCommand, Bind, Abandon, Authorize, AutoApprove, Settle, CheckCall,
         ClaimCall, StartBatch, RunTool, FinishCall, Complete, FailRound, Interrupt, Unwind,
         ReadState, Close, LeaveLoop, ExitWorker, CrashWorker, Dies, process
<1>3. p # w => rt'[p] = rt[p]
  BY WorkerLocal
<1>4. CASE p # w
  BY <1>2, <1>3, <1>4 DEF Busy, Executes, Executing
<1>5. CASE p = w
  <2>1. \/ rt'[w].pc \in {"idle", "leaving"}
        \/ /\ rt'[w].task = rt[w].task /\ rt'[w].epoch = rt[w].epoch
           /\ rt[w].pc \notin {"idle", "leaving"}
           /\ rt'[w].pc \in Executing => rt[w].pc \in Executing
        \/ rt'[w] = rt[w]
    <3>1. CASE CheckCall(w) \/ ClaimCall(w)
      <4>1. \/ \E C, s : rt' = SetCalls(w, C, s)
            \/ Fail(w)
        BY <3>1 DEF CheckCall, ClaimCall, Begun
      <4>2. rt[w].pc = "batch"
        BY <3>1 DEF CheckCall, ClaimCall, NextCall, InBatch
      <4> QED
        BY <1>1, <4>1, <4>2 DEF Fail, SetCalls, Runtime, Executing
    <3>2. CASE Settle(w) \/ FinishCall(w) \/ StartBatch(w)
      <4>1. \E C, s : rt' = SetCalls(w, C, s)
        BY <3>2 DEF Settle, FinishCall, StartBatch
      <4>2. rt[w].pc = "batch"
        BY <3>2 DEF Settle, FinishCall, StartBatch, Awaited, InBatch
      <4> QED
        BY <1>1, <4>1, <4>2 DEF SetCalls, Runtime, Executing
    <3>7. CASE Complete(w)
      BY <1>1, <3>7 DEF Complete, InBatch, Runtime, Executing
    <3>3. CASE Bind(w) \/ Authorize(w) \/ FailRound(w)
      BY <1>1, <3>3 DEF Bind, Authorize, FailRound, Fail, InBatch, Runtime, Executing
    <3>8. CASE Interrupt(w)
      <4>1. PICK why : Cancel(w, why)
        BY <3>8 DEF Interrupt
      <4>2. rt[w].pc \in Executing
        BY <3>8 DEF Interrupt, Executing
      <4> QED
        BY <1>1, <4>1, <4>2 DEF Cancel, Runtime, Executing, Idle
    <3>4. CASE Unwind(w) \/ ReadState(w) \/ LeaveLoop(w)
      BY <1>1, <3>4 DEF Unwind, ReadState, LeaveLoop, Runtime, Executing
    <3>5. CASE Abandon(w) \/ Close(w) \/ ExitWorker(w) \/ CrashWorker(w)
      BY <1>1, <3>5 DEF Abandon, Close, ExitWorker, CrashWorker, Dies, Idle
    <3>6. CASE DropCommand(w) \/ AutoApprove(w) \/ RunTool(w)
      BY <3>6 DEF DropCommand, AutoApprove, RunTool
    <3> QED
      BY <3>1, <3>2, <3>3, <3>4, <3>5, <3>6, <3>7, <3>8 DEF WorkerStep
  <2> QED
    BY <1>2, <1>5, <2>1 DEF Busy, Executes, Executing
<1> QED
  BY <1>2, <1>4, <1>5

\* No step of a worker, other than taking a task up, changes an owner or an epoch.
LEMMA WorkerTask ==
    ASSUME IInv, NEW w \in Pids, WorkerStep(w), ~StartNew(w), ~AdoptResume(w), NEW t \in Tasks
    PROVE  /\ Exists(t) => Exists(t)'
           /\ task'[t].owner = task[t].owner /\ task'[t].epoch = task[t].epoch
<1>1. StoreTypeOK /\ rt[w] \in Runtime
  BY DEF IInv, TypeOK, RuntimeTypeOK
<1>2. CASE UNCHANGED task
  BY <1>2 DEF Exists
<1>3. ASSUME NEW S, NEW s \in Live \union Terminal, SetTaskState(S, s)
      PROVE  /\ Exists(t) => Exists(t)'
             /\ task'[t].owner = task[t].owner /\ task'[t].epoch = task[t].epoch
  BY <1>1, <1>3, SetTaskStateKeeps
<1>4. CASE Unwind(w) \/ Close(w)
  BY <1>1, <1>2, <1>3, <1>4 DEF Unwind, Close, Runtime, Live, Terminal, ledger
<1>5. CASE Interrupt(w) \/ LeaveLoop(w)
  BY <1>1, <1>2, <1>5, SuspendSessionKeeps DEF Interrupt, LeaveLoop, ledger
<1> QED
  BY <1>2, <1>4, <1>5
  DEF WorkerStep, DropCommand, Bind, Abandon, Authorize, AutoApprove, Settle, CheckCall,
      ClaimCall, StartBatch, RunTool, FinishCall, Complete, FailRound, ReadState, ExitWorker,
      CrashWorker, Dies, ledger

\* A step of a worker that is no late adoption keeps OwnerInv: the task it creates is
\* executed by nobody, and so is the one it adopts.
LEMMA WorkerOwner ==
    ASSUME Uncontested', IInv, NEW w \in Pids, WorkerStep(w)
    PROVE  OwnerInv'
<1>1. OwnerInv /\ rt \in [Pids -> Runtime] /\ task \in [Tasks -> TaskRow]
  BY DEF IInv, TypeOK, RuntimeTypeOK, StoreTypeOK
<1>2. \A p \in Pids \ {w} : rt'[p] = rt[p]
  BY WorkerLocal
<1>3. /\ worker' = worker /\ alive' \subseteq alive /\ alive \subseteq Pids
      /\ \A p \in alive : cmd'[p] = cmd[p] \/ cmd'[p].kind = "none"
  <2>1. worker' = worker /\ alive' \subseteq alive
    BY DEF WorkerStep, StartNew, AdoptResume, DropCommand, Bind, Abandon, Authorize,
           AutoApprove, Settle, CheckCall, ClaimCall, StartBatch, RunTool, FinishCall, Complete,
           FailRound, Interrupt, Unwind, ReadState, Close, LeaveLoop, ExitWorker, CrashWorker,
           Dies, process
  <2>2. alive \subseteq Pids
    BY DEF IInv, TypeOK, ProcessTypeOK
  <2> QED
    BY <2>1, <2>2, WorkerCommand DEF NoCmd
<1>4. UNCHANGED res
  BY DEF WorkerStep, StartNew, AdoptResume, DropCommand, Bind, Abandon, Authorize, AutoApprove,
         Settle, CheckCall, ClaimCall, StartBatch, RunTool, FinishCall, Complete, FailRound,
         Interrupt, Unwind, ReadState, Close, LeaveLoop, ExitWorker, CrashWorker, Dies, handler
<1>5. CASE StartNew(w)
  <2> DEFINE n == NewTask
  <2>1. n \in Tasks /\ task[n].state = "absent"
    BY <1>5 DEF StartNew, Absent, NewTask
  <2>2. task' = [task EXCEPT ![n] = [state |-> "running", owner |-> w, epoch |-> 1]]
    BY <1>5 DEF StartNew, CreatedTask
  <2>3. rt'[w].pc = "starting" /\ rt'[w].task = n /\ rt'[w].epoch = 1
    BY <1>1, <1>5 DEF StartNew, StartedAs, Idle
  <2>4. UNCHANGED alive
    BY <1>5 DEF StartNew, process
  <2>5. \A t \in Tasks : t # n => task'[t] = task[t]
    BY <1>1, <2>2
  <2>6. task'[n].state = "running" /\ task'[n].owner = w /\ task'[n].epoch = 1
    BY <1>1, <2>1, <2>2
  <2>7. \A p \in Pids : Busy(p) => rt[p].task # n
    BY <1>1, <2>1 DEF OwnerInv, Exists
  <2> HIDE DEF n
  <2>8. \A p \in Pids : Busy(p)' => Exists(rt[p].task)'
    BY <1>1, <1>2, <2>1, <2>3, <2>5, <2>6 DEF OwnerInv, Busy, Exists
  <2>9. \A p \in Pids, t \in Tasks :
            Executes(p, t)' => task'[t].owner = p /\ task'[t].epoch = rt'[p].epoch
    BY <1>1, <1>2, <2>1, <2>3, <2>4, <2>5, <2>6, <2>7 DEF OwnerInv, Busy, Executes, Executing
  <2>10. ASSUME NEW t, Handed(t) PROVE Handed(t)'
    BY <1>1, <1>2, <2>1, <2>3, <2>4, <2>5, <2>10 DEF Handed, Exists, Executes
  <2> QED
    BY <1>1, <1>3, <1>4, <2>4, <2>8, <2>9, <2>10 DEF OwnerInv
<1>6. CASE AdoptResume(w)
  <2> DEFINE r == cmd[w].task
  <2>1. r \in Tasks
    BY <1>6, ResumedTask DEF AdoptResume, IInv, TypeOK
  <2>2. CASE UNCHANGED <<task, rt>>
    <3>1. UNCHANGED alive
      BY <1>6 DEF AdoptResume, process
    <3>2. \A t : Handed(t)' <=> Handed(t)
      BY <2>2, <3>1 DEF Handed, Exists, Executes
    <3>3. \A p \in Pids : Busy(p)' => Exists(rt[p].task)'
      BY <1>1, <2>2 DEF OwnerInv, Busy, Exists
    <3>4. \A p \in Pids, t \in Tasks :
              Executes(p, t)' => task'[t].owner = p /\ task'[t].epoch = rt'[p].epoch
      BY <1>1, <2>2, <3>1 DEF OwnerInv, Executes
    <3> QED
      BY <1>1, <1>3, <1>4, <3>1, <3>2, <3>3, <3>4 DEF OwnerInv
  <2>3. CASE ~UNCHANGED <<task, rt>>
    <3>1. task' = [task EXCEPT ![r].owner = w] /\ task[r].state = "running"
      BY <1>6, <2>3 DEF AdoptResume, AdoptedBy
    <3>2. rt'[w].pc = "starting" /\ rt'[w].task = r /\ rt'[w].epoch = task[r].epoch
      <4>1. StartedAs(w, r, task[r].epoch)
        BY <1>6, <2>3 DEF AdoptResume
      <4> QED
        BY <1>1, <4>1 DEF StartedAs, Idle
    <3>3. \A t \in Tasks : /\ task'[t].state = task[t].state /\ task'[t].epoch = task[t].epoch
                           /\ t # r => task'[t].owner = task[t].owner
                           /\ t = r => task'[t].owner = w
      BY <1>1, <3>1 DEF TaskRow
    <3>4. UNCHANGED alive /\ w \in alive /\ cmd'[w].kind = "none"
      BY <1>6, WorkerCommand DEF AdoptResume, process, NoCmd, IInv, TypeOK, ProcessTypeOK
    <3>5. ~Contested(w, r)
      BY <1>6, <2>3 DEF AdoptResume, Uncontested
    <3>6. \A p \in Pids : ~Executes(p, r)
      BY <3>5 DEF Contested
    <3>7. \A p \in Pids : Busy(p)' => Exists(rt[p].task)'
      BY <1>1, <1>2, <2>1, <3>1, <3>2, <3>3 DEF OwnerInv, Busy, Exists
    <3>8. \A p \in Pids, t \in Tasks :
              Executes(p, t)' => task'[t].owner = p /\ task'[t].epoch = rt'[p].epoch
      BY <1>1, <1>2, <2>1, <3>2, <3>3, <3>4, <3>6 DEF OwnerInv, Executes
    <3>9. ASSUME NEW t, Handed(t), t # r
          PROVE  Handed(t)'
      BY <1>1, <1>2, <3>2, <3>3, <3>4, <3>9 DEF Handed, Exists, Executes
    <3>10. CASE w = worker
      <4>1. res = NoRes
        BY <1>1, <1>6, <3>4, <3>10 DEF OwnerInv, AdoptResume
      <4> QED
        BY <1>3, <1>4, <3>4, <3>7, <3>8, <3>10, <4>1 DEF OwnerInv
    <3>11. CASE w # worker
      <4>1. w # backend
        BY <1>6 DEF AdoptResume, IInv, ProcessInv, NoCmd
      <4>2. res.task # r /\ (worker \in alive => cmd[worker].task # r)
        BY <3>4, <3>5, <3>11, <4>1 DEF Contested, Orphan, Underway
      <4>3. res' # NoRes => Handed(res.task)'
        BY <1>1, <1>4, <3>9, <4>2 DEF OwnerInv
      <4>4. worker' \in alive' /\ cmd'[worker'].kind = "resume" =>
                Handed(cmd[worker].task)' /\ res' = NoRes
        <5> SUFFICES ASSUME worker' \in alive', cmd'[worker'].kind = "resume"
                     PROVE  Handed(cmd[worker].task)' /\ res' = NoRes
          OBVIOUS
        <5>1. worker' = worker /\ worker \in alive /\ cmd'[worker] = cmd[worker]
          BY <1>3
        <5>2. Handed(cmd[worker].task) /\ res = NoRes /\ cmd[worker].task # r
          BY <1>1, <4>2, <5>1 DEF OwnerInv
        <5> HIDE DEF r
        <5>3. ASSUME NEW t, t = cmd[worker].task
              PROVE  Handed(t)'
          BY <3>9, <5>2, <5>3
        <5> QED
          BY <1>4, <5>1, <5>2, <5>3
      <4> QED
        BY <3>7, <3>8, <4>3, <4>4 DEF OwnerInv
    <3> QED
      BY <3>10, <3>11
  <2> QED
    BY <2>2, <2>3
<1>7. CASE ~StartNew(w) /\ ~AdoptResume(w)
  <2>1. \A t \in Tasks : /\ Exists(t) => Exists(t)'
                         /\ task'[t].owner = task[t].owner /\ task'[t].epoch = task[t].epoch
    BY <1>7, WorkerTask
  <2>2. \A p \in Pids :
           /\ Busy(p)' => Busy(p) /\ rt'[p].task = rt[p].task /\ rt'[p].epoch = rt[p].epoch
           /\ \A t : Executes(p, t)' => Executes(p, t)
    BY <1>7, WorkerExecutes
  <2>3. \A p \in Pids : \A t : Executes(p, t)' => Busy(p)'
    BY DEF Executes, Executing, Busy
  <2>4. \A p \in Pids : Busy(p)' => Exists(rt[p].task)'
    <3>1. \A p \in Pids : Busy(p) => rt[p].task \in Tasks /\ Exists(rt[p].task)
      BY <1>1 DEF OwnerInv, Exists
    <3>2. \A t \in Tasks : Exists(t) => task'[t].state # "absent"
      BY <2>1 DEF Exists
    <3> QED
      BY <2>2, <3>1, <3>2 DEF Exists
  <2>5. \A p \in Pids, t \in Tasks :
            Executes(p, t)' => task'[t].owner = p /\ task'[t].epoch = rt'[p].epoch
    BY <1>1, <2>1, <2>2, <2>3 DEF OwnerInv
  <2>6. \A t \in Tasks : Handed(t) => Handed(t)'
    BY <2>1, <2>2 DEF Handed
  <2>7. \A t : Handed(t) => t \in Tasks
    BY DEF Handed, Exists
  <2> QED
    BY <1>1, <1>3, <1>4, <2>4, <2>5, <2>6, <2>7 DEF OwnerInv
<1> QED
  BY <1>5, <1>6, <1>7

\* A task handed over is still executed by nobody after a step of the backend.
LEMMA HandedStays ==
    ASSUME IInv, BackendStep, NEW t, Handed(t)
    PROVE  Handed(t)'
<1>1. t \in Tasks
  BY DEF Handed, Exists
<1>2. Exists(t)'
  BY <1>1, BackendTask DEF Keeps, Handed
<1>3. \A p \in Pids : ~Executes(p, t)'
  BY BackendExecutes DEF Handed
<1> QED
  BY <1>2, <1>3 DEF Handed

\* A step of the backend keeps OwnerInv: it hands over tasks of dead owners only.
LEMMA BackendOwner ==
    ASSUME IInv, BackendStep
    PROVE  OwnerInv'
<1>1. OwnerInv /\ ProcessInv /\ StoreTypeOK /\ ProcessTypeOK /\ HandlerTypeOK
  BY DEF IInv, TypeOK
<1>2. ASSUME NEW p \in Pids, Busy(p)'
      PROVE  Exists(rt[p].task)'
  <2>1. Busy(p) /\ rt'[p] = rt[p]
    BY <1>2, BackendRuntime DEF Busy
  <2>2. Exists(rt[p].task) /\ rt[p].task \in Tasks
    BY <1>1, <2>1 DEF OwnerInv, Exists
  <2>3. task'[rt[p].task].state # "absent"
    BY <2>2, BackendTask DEF Keeps, Exists
  <2> QED
    BY <2>1, <2>2, <2>3 DEF Exists
<1>3. ASSUME NEW p \in Pids, NEW t \in Tasks, Executes(p, t)'
      PROVE  task'[t].owner = p /\ task'[t].epoch = rt'[p].epoch
  <2>1. Executes(p, t) /\ rt'[p] = rt[p]
    BY <1>3, BackendExecutes
  <2>2. /\ task[t].owner = p /\ task[t].epoch = rt[p].epoch
        /\ task[t].owner \in alive /\ task[t].owner # backend
    BY <1>1, <2>1, ExecutedIsOwned DEF OwnerInv
  <2> QED
    BY <2>1, <2>2, BackendTask DEF Keeps
<1>4. ASSUME NEW t \in Tasks, NEW p, Claim(t, p)
      PROVE  /\ res' # NoRes => Handed(res.task)'
             /\ worker' \in alive' /\ cmd'[worker'].kind = "resume" =>
                    Handed(cmd[worker].task)' /\ res' = NoRes
  <2>1. Handed(t)
    <3>1. Swept[t].owner \notin alive /\ Swept[t].state = "suspended"
      BY <1>4 DEF Claim, MayResume
    <3> QED
      BY <1>1, <3>1, SweptKeeps, ExecutedIsOwned DEF Handed, Exists
  <2>2. UNCHANGED <<cmd, worker, alive>>
    BY <1>4 DEF Claim, pipe, process
  <2>3. CASE UNCHANGED res
    BY <1>1, <2>2, <2>3, HandedStays DEF OwnerInv
  <2>4. CASE ~UNCHANGED res
    <3>1. ~GenerationRunning /\ res' = [task |-> t, epoch |-> task[t].epoch + 1]
      BY <1>4, <2>4 DEF Claim
    <3>2. worker \in alive => cmd[worker] = NoCmd
      BY <3>1 DEF GenerationRunning
    <3> QED
      BY <2>1, <2>2, <3>1, <3>2, HandedStays DEF NoCmd
  <2> QED
    BY <2>3, <2>4
<1>5. ASSUME NEW w \in Pids, DispatchResume(w)
      PROVE  /\ res' # NoRes => Handed(res.task)'
             /\ worker' \in alive' /\ cmd'[worker'].kind = "resume" =>
                    Handed(cmd[worker].task)' /\ res' = NoRes
  <2>1. Handed(res.task)
    BY <1>1, <1>5 DEF DispatchResume, OwnerInv
  <2>2. res' = NoRes /\ worker' = w /\ cmd'[w] = [kind |-> "resume", task |-> res.task]
    BY <1>1, <1>5 DEF DispatchResume, Dispatch, ProcessTypeOK
  <2> QED
    BY <2>1, <2>2, HandedStays
<1>6. /\ res' # NoRes => Handed(res.task)'
      /\ worker' \in alive' /\ cmd'[worker'].kind = "resume" =>
             Handed(cmd[worker].task)' /\ res' = NoRes
  <2>1. CASE ResumeTask
    BY <1>4, <2>1 DEF ResumeTask
  <2>2. CASE ResumeByDecision
    <3>1. \A r \in RowsOf(Tasks) : r.task \in Tasks
      BY DEF RowsOf
    <3> QED
      BY <1>4, <2>2, <3>1 DEF ResumeByDecision
  <2>3. CASE \E w \in Pids : DispatchResume(w)
    BY <1>5, <2>3
  <2>4. CASE ~(ResumeTask \/ ResumeByDecision \/ \E w \in Pids : DispatchResume(w))
    <3>1. res' = res \/ res' = NoRes
      BY <2>4
      DEF BackendStep, StartBackend, CrashBackend, FinishShutdown, BackendGone, BeginShutdown,
          SendShutdown, Sweep, DispatchNew, FailDispatch, ReleaseUnadopted, DecideLive,
          PollDecide, DecideWrite, PollTimeout, SetPolicy, MsgBegin, MsgTimeout, MsgRetire,
          RetireOne, RetireFail, StopBegin, StopTimeout, StopCollect, StopOne, StopFinish,
          handler
    <3>2. \/ worker' \notin alive'
          \/ cmd'[worker'].kind \in {"none", "new"}
          \/ worker' = worker /\ worker \in alive /\ cmd'[worker] = cmd[worker]
      <4>1. CASE StartBackend
        BY <1>1, <4>1, FreshIsNew DEF StartBackend, ProcessInv, ProcessTypeOK, pipe
      <4>2. CASE CrashBackend \/ FinishShutdown
        BY <1>1, <4>2 DEF CrashBackend, FinishShutdown, BackendGone, ProcessTypeOK
      <4>3. CASE \E w \in Pids : DispatchNew(w)
        BY <1>1, <4>3 DEF DispatchNew, Dispatch, ProcessTypeOK
      <4>4. CASE MsgTimeout \/ StopTimeout
        BY <4>4 DEF MsgTimeout, StopTimeout, Dies
      <4>5. CASE UNCHANGED <<worker, alive, cmd>>
        BY <4>5
      <4> QED
        BY <2>4, <4>1, <4>2, <4>3, <4>4, <4>5
        DEF BackendStep, BeginShutdown, SendShutdown, Sweep, FailDispatch, ReleaseUnadopted,
            DecideLive, PollDecide, DecideWrite, PollTimeout, SetPolicy, MsgBegin, MsgRetire,
            RetireOne, RetireFail, StopBegin, StopCollect, StopOne, StopFinish, pipe, process
    <3> QED
      BY <1>1, <3>1, <3>2, HandedStays DEF OwnerInv
  <2> QED
    BY <2>1, <2>2, <2>3, <2>4
<1> QED
  BY <1>2, <1>3, <1>6 DEF OwnerInv

-----------------------------------------------------------------------------
(***************************************************************************)
(* What happens to a call: every step keeps CallInv.  Most steps leave the *)
(* calls alone; one that touches a call is of the one process that has the *)
(* task of the call in its batch.                                          *)
(***************************************************************************)

(* What happens to a call.                                                 *)

\* A process in its batch owns the task of the batch.
LEMMA BatchOwner ==
    ASSUME IInv, NEW p \in Pids, InBatch(p)
    PROVE  rt[p].task \in Tasks /\ task[rt[p].task].owner = p
<1>1. Busy(p)
  BY DEF InBatch, Busy
<1>2. rt[p].task \in Tasks
  BY <1>1 DEF IInv, OwnerInv, Exists
<1> QED
  BY <1>2 DEF IInv, OwnerInv, InBatch, Executes, Executing

\* A step that starts, claims and records nothing.
QuietCall ==
    /\ inflight' \subseteq inflight
    /\ UNCHANGED effects
    /\ \A t \in Tasks, c \in Calls :
        /\ exec'[t][c].state = exec[t][c].state
        /\ exec'[t][c].result \in {exec[t][c].result, "null"}

\* Process p is in its batch afterwards only if it was before, and it may claim
\* or start no call that it might not before.
QuietBatch(p) ==
    InBatch(p)' =>
        /\ InBatch(p) /\ rt'[p].task = rt[p].task
        /\ \A c \in Calls :
            \/ rt'[p].call[c] \notin {"ask", "allow", "begun"}
            \/ rt'[p].call[c] = rt[p].call[c]
            \/ rt'[p].call[c] # "begun" /\ rt[p].call[c] \in {"ask", "allow"}

\* Quiet steps keep CallInv.
LEMMA QuietStep ==
    ASSUME IInv, QuietCall, \A p \in Pids : QuietBatch(p)
    PROVE  CallInv'
<1>1. CallInv
  BY DEF IInv
<1>2. \A t \in Tasks, c \in Calls : Untouched(t, c) => Untouched(t, c)'
  BY DEF Untouched, QuietCall
<1>3. BatchInv'
  <2> SUFFICES ASSUME NEW p \in Pids, InBatch(p)', NEW c \in Calls
               PROVE  BatchCall(p, c)'
    BY DEF BatchInv
  <2>1. InBatch(p) /\ rt'[p].task = rt[p].task /\ rt[p].task \in Tasks
    BY BatchOwner DEF QuietBatch
  <2>2. PICK t \in Tasks : t = rt[p].task
    BY <2>1
  <2>3. BatchCall(p, c)
    BY <1>1, <2>1 DEF CallInv, BatchInv
  <2>4. /\ rt[p].call[c] \in {"ask", "allow"} => exec[t][c].state = "none"
        /\ rt[p].call[c] = "begun" => exec[t][c].state = "executing" /\ Untouched(t, c)
    BY <2>2, <2>3 DEF BatchCall
  <2>5. /\ rt'[p].call[c] \in {"ask", "allow"} => exec'[t][c].state = "none"
        /\ rt'[p].call[c] = "begun" => exec'[t][c].state = "executing" /\ Untouched(t, c)'
    BY <1>1, <1>2, <2>4 DEF QuietBatch, QuietCall, CallInv
  <2> QED
    BY <2>1, <2>2, <2>5 DEF BatchCall
<1>4. ThreadInv' /\ AtMostOnce'
  BY <1>1 DEF CallInv, ThreadInv, AtMostOnce, QuietCall
<1>5. RefusedNeverRuns'
  BY <1>1 DEF CallInv, RefusedNeverRuns, QuietCall
<1>6. \A t \in Tasks, c \in Calls :
        /\ exec'[t][c].state # "completed" => exec'[t][c].result = "null"
        /\ exec'[t][c].state = "none" => Untouched(t, c)'
  BY <1>1, <1>2 DEF CallInv, QuietCall
<1> QED
  BY <1>3, <1>4, <1>5, <1>6 DEF CallInv

\* The backend touches the executions only by ending tasks.
LEMMA BackendExec ==
    ASSUME BackendStep
    PROVE  UNCHANGED exec \/ \E S : SetTaskState(S, "cancelled")
<1>1. CASE RetireOne \/ StopOne \/ StopFinish
  BY <1>1 DEF RetireOne, StopOne, StopFinish, ledger
<1>2. CASE ~(RetireOne \/ StopOne \/ StopFinish)
  BY <1>2
  DEF BackendStep, StartBackend, CrashBackend, FinishShutdown, BackendGone, BeginShutdown,
      SendShutdown, SuspendSession, Sweep, ResumeTask, ResumeByDecision, Claim, DispatchResume,
      DispatchNew, FailDispatch, ReleaseUnadopted, DecideLive, PollDecide, DecideWrite,
      PollTimeout, SetPolicy, MsgBegin, MsgTimeout, Dies, MsgRetire, RetireFail, StopBegin,
      StopTimeout, StopCollect, ledger
<1> QED
  BY <1>1, <1>2

\* The steps of the backend are quiet.
LEMMA BackendCall ==
    ASSUME IInv, BackendStep
    PROVE  CallInv'
<1>1. exec \in [Tasks -> [Calls -> ExecutionRow]]
  BY DEF IInv, TypeOK, StoreTypeOK
<1>2. UNCHANGED exec \/ \E S : SetTaskState(S, "cancelled")
  BY BackendExec
<1>3. UNCHANGED effects
  BY DEF BackendStep, StartBackend, CrashBackend, FinishShutdown, BackendGone, BeginShutdown,
         SendShutdown, Sweep, ResumeTask, ResumeByDecision, Claim, DispatchResume, DispatchNew,
         FailDispatch, ReleaseUnadopted, DecideLive, PollDecide, DecideWrite, PollTimeout,
         SetPolicy, MsgBegin, MsgTimeout, Dies, MsgRetire, RetireOne, RetireFail, StopBegin,
         StopTimeout, StopCollect, StopOne, StopFinish, history
<1>4. \A t \in Tasks, c \in Calls :
        /\ exec'[t][c].state = exec[t][c].state
        /\ exec'[t][c].result \in {exec[t][c].result, "null"}
  <2>1. ASSUME NEW S, SetTaskState(S, "cancelled"), NEW t \in Tasks, NEW c \in Calls
        PROVE  exec'[t][c] = exec[t][c] \/ exec'[t][c] = [exec[t][c] EXCEPT !.result = "null"]
    BY <2>1 DEF SetTaskState, Terminal
  <2>2. \A t \in Tasks, c \in Calls : exec[t][c] \in ExecutionRow
    BY <1>1
  <2> QED
    <3>1. ASSUME NEW x \in ExecutionRow, NEW y, y = x \/ y = [x EXCEPT !.result = "null"]
          PROVE  y.state = x.state /\ y.result \in {x.result, "null"}
      BY <3>1 DEF ExecutionRow
    <3>2. \A t \in Tasks, c \in Calls :
            exec'[t][c] = exec[t][c] \/ exec'[t][c] = [exec[t][c] EXCEPT !.result = "null"]
      BY <1>2, <2>1
    <3> QED
      <4> TAKE t \in Tasks, c \in Calls
      <4>1. exec[t][c] \in ExecutionRow
        BY <2>2
      <4>2. exec'[t][c] = exec[t][c] \/ exec'[t][c] = [exec[t][c] EXCEPT !.result = "null"]
        BY <3>2
      <4> QED
        BY <3>1, <4>1, <4>2
<1>5. inflight' \subseteq inflight
  BY BackendRuntime
<1>6. \A p \in Pids : QuietBatch(p)
  <2>1. \A p \in Pids : /\ p \notin alive => rt[p].pc = "idle"
                        /\ rt'[p] = rt[p] \/ rt'[p].pc = "idle"
    BY BackendRuntime
  <2> QED
    BY <2>1 DEF QuietBatch, InBatch
<1> QED
  BY <1>3, <1>4, <1>5, <1>6, QuietStep DEF QuietCall

\* A step of worker w, which is in its batch, that touches call c only.
OnlyCall(w, c) ==
    /\ c \in Calls
    /\ InBatch(w) /\ rt'[w].pc = "batch" /\ rt'[w].task = rt[w].task
    /\ UNCHANGED <<alive, effects>>
    /\ \A d \in Calls : d # c => rt'[w].call[d] = rt[w].call[d]
    /\ \A t \in Tasks, d \in Calls : (t = rt[w].task /\ d = c) \/ exec'[t][d] = exec[t][d]
    /\ \A x \in inflight' : x \in inflight \/ x = <<w, rt[w].task, c>>

\* If the batch is right about that call afterwards, and the call itself is in
\* order, a step that touches one call keeps CallInv.
LEMMA OnlyCallStep ==
    ASSUME IInv, NEW w \in Pids, NEW c \in Calls, NEW t \in Tasks, t = rt[w].task,
           \A p \in Pids \ {w} : rt'[p] = rt[p],
           OnlyCall(w, c), BatchCall(w, c)',
           exec'[t][c].state # "completed" => exec'[t][c].result = "null",
           exec'[t][c].state = "none" => Untouched(t, c)',
           exec'[t][c].result \in {"denied", "cancelled"} => Untouched(t, c)',
           inflight' \subseteq inflight \/ Untouched(t, c)
    PROVE  CallInv'
<1>1. CallInv /\ RuntimeTypeOK
  BY DEF IInv, TypeOK
<1>2. \A u \in Tasks, d \in Calls : Untouched(u, d) /\ ~(u = t /\ d = c) => Untouched(u, d)'
  BY DEF Untouched, OnlyCall
<1>3. BatchInv'
  <2> SUFFICES ASSUME NEW p \in Pids, InBatch(p)', NEW d \in Calls
               PROVE  BatchCall(p, d)'
    BY DEF BatchInv
  <2>1. CASE p = w /\ d = c
    BY <2>1
  <2>2. CASE ~(p = w /\ d = c)
    <3>1. InBatch(p) /\ rt'[p].task = rt[p].task /\ rt'[p].call[d] = rt[p].call[d]
      BY <2>2 DEF OnlyCall, InBatch
    <3>2. PICK u \in Tasks : u = rt[p].task
      BY <3>1, BatchOwner
    <3>3. ~(u = t /\ d = c)
      BY <2>2, <3>1, <3>2, BatchOwner DEF OnlyCall
    <3>4. /\ rt[p].call[d] \in {"ask", "allow"} => exec[u][d].state = "none"
          /\ rt[p].call[d] = "begun" => exec[u][d].state = "executing" /\ Untouched(u, d)
      BY <1>1, <3>1, <3>2 DEF CallInv, BatchInv, BatchCall
    <3>5. exec'[u][d] = exec[u][d]
      BY <3>3 DEF OnlyCall
    <3> QED
      BY <1>2, <3>1, <3>2, <3>3, <3>4, <3>5 DEF BatchCall
  <2> QED
    BY <2>1, <2>2
<1>4. ThreadInv' /\ AtMostOnce'
  <2>1. AtMostOnce' /\ UNCHANGED effects
    BY <1>1 DEF CallInv, AtMostOnce, OnlyCall
  <2>2. CASE inflight' \subseteq inflight
    BY <1>1, <2>1, <2>2 DEF CallInv, ThreadInv
  <2>3. CASE Untouched(t, c)
    <3>1. \A x \in inflight : x = <<x[1], x[2], x[3]>> /\ x[1] \in Pids
      BY <1>1 DEF RuntimeTypeOK
    <3>2. \A x \in inflight : ~(x[2] = t /\ x[3] = c)
      BY <2>3, <3>1 DEF Untouched
    <3>3. \A x \in inflight' : x \in inflight \/ x = <<w, t, c>>
      BY DEF OnlyCall
    <3>4. effects[t][c] = 0
      BY <2>3 DEF Untouched
    <3>5. \A x \in inflight' : effects'[x[2]][x[3]] = 0
      BY <1>1, <2>1, <3>3, <3>4 DEF CallInv, ThreadInv
    <3>6. \A x, y \in inflight' : x[2] = y[2] /\ x[3] = y[3] => x = y
      BY <1>1, <3>2, <3>3 DEF CallInv, ThreadInv
    <3> QED
      BY <2>1, <3>5, <3>6 DEF ThreadInv
  <2> QED
    BY <2>1, <2>2, <2>3
<1>5. RefusedNeverRuns'
  <2> SUFFICES ASSUME NEW u \in Tasks, NEW d \in Calls,
                      exec'[u][d].result \in {"denied", "cancelled"}
               PROVE  Untouched(u, d)'
    BY DEF RefusedNeverRuns, Untouched
  <2>1. CASE u = t /\ d = c
    BY <2>1
  <2>2. CASE ~(u = t /\ d = c)
    <3>1. exec'[u][d] = exec[u][d]
      BY <2>2 DEF OnlyCall
    <3>2. Untouched(u, d)
      BY <1>1, <3>1 DEF CallInv, RefusedNeverRuns, Untouched
    <3> QED
      BY <1>2, <2>2, <3>2
  <2> QED
    BY <2>1, <2>2
<1>6. \A u \in Tasks, d \in Calls :
        /\ exec'[u][d].state # "completed" => exec'[u][d].result = "null"
        /\ exec'[u][d].state = "none" => Untouched(u, d)'
  <2> TAKE u \in Tasks, d \in Calls
  <2>1. CASE u = t /\ d = c
    BY <2>1
  <2>2. CASE ~(u = t /\ d = c)
    BY <1>1, <1>2, <2>2 DEF CallInv, OnlyCall
  <2> QED
    BY <2>1, <2>2
<1> QED
  BY <1>3, <1>4, <1>5, <1>6 DEF CallInv

\* What SetCalls does to the runtime of the worker.
LEMMA SetCallsAt ==
    ASSUME RuntimeTypeOK, NEW w \in Pids, NEW C, NEW s
    PROVE  /\ SetCalls(w, C, s)[w].pc = rt[w].pc /\ SetCalls(w, C, s)[w].task = rt[w].task
           /\ \A c \in Calls : SetCalls(w, C, s)[w].call[c] = IF c \in C THEN s ELSE rt[w].call[c]
<1>1. rt \in [Pids -> Runtime] /\ rt[w] \in Runtime
  BY DEF RuntimeTypeOK
<1> QED
  BY <1>1 DEF SetCalls, Runtime

\* What Completed does to the executions table.
LEMMA CompletedAt ==
    ASSUME StoreTypeOK, NEW t \in Tasks, NEW c \in Calls, NEW r
    PROVE  /\ Completed(t, c, r)[t][c].state = "completed" /\ Completed(t, c, r)[t][c].result = r
           /\ \A u \in Tasks, d \in Calls :
                (u = t /\ d = c) \/ Completed(t, c, r)[u][d] = exec[u][d]
  BY DEF StoreTypeOK, Completed

\* The end of a wait keeps CallInv: a call that is refused has had no effect.
LEMMA SettleCall ==
    ASSUME IInv, NEW w \in Pids, Settle(w)
    PROVE  CallInv'
<1>1. StoreTypeOK /\ RuntimeTypeOK /\ CallInv
  BY DEF IInv, TypeOK
<1>2. /\ UNCHANGED <<alive, inflight, effects>>
      /\ WorkerStep(w)
  BY DEF Settle, WorkerStep, process, history
<1>3. PICK t \in Tasks, c \in Calls :
        /\ InBatch(w) /\ t = rt[w].task /\ rt[w].call[c] = "ask"
        /\ \/ rt' = SetCalls(w, {c}, "allow") /\ UNCHANGED exec
           \/ /\ rt' = SetCalls(w, {c}, "done")
              /\ exec' = Completed(t, c, "denied") \/ exec' = Completed(t, c, "cancelled")
  <2>1. PICK r \in appr :
          /\ Awaited(w, r)
          /\ \/ rt' = SetCalls(w, {r.call}, "allow") /\ UNCHANGED exec
             \/ /\ rt' = SetCalls(w, {r.call}, "done")
                /\ \/ exec' = Completed(r.task, r.call, "denied")
                   \/ exec' = Completed(r.task, r.call, "cancelled")
    BY DEF Settle
  <2>2. r.task \in Tasks /\ r.call \in Calls
    BY <1>1 DEF StoreTypeOK, ApprovalRow
  <2> QED
    BY <2>1, <2>2 DEF Awaited
<1>4. \A p \in Pids \ {w} : rt'[p] = rt[p]
  BY <1>2, WorkerLocal
<1>5. CASE rt' = SetCalls(w, {c}, "allow") /\ UNCHANGED exec
  <2>1. QuietCall
    BY <1>2, <1>5 DEF QuietCall
  <2>2. /\ rt'[w].pc = rt[w].pc /\ rt'[w].task = rt[w].task
        /\ \A d \in Calls : rt'[w].call[d] = IF d \in {c} THEN "allow" ELSE rt[w].call[d]
    BY <1>1, <1>5, SetCallsAt
  <2>3. \A p \in Pids : QuietBatch(p)
    BY <1>2, <1>3, <1>4, <2>2 DEF QuietBatch, InBatch
  <2> QED
    BY <2>1, <2>3, QuietStep
<1>6. CASE /\ rt' = SetCalls(w, {c}, "done")
           /\ exec' = Completed(t, c, "denied") \/ exec' = Completed(t, c, "cancelled")
  <2>1. Untouched(t, c)
    BY <1>1, <1>3 DEF CallInv, BatchInv, BatchCall
  <2>2. Untouched(t, c)'
    BY <1>2, <2>1 DEF Untouched
  <2>3. /\ rt'[w].pc = rt[w].pc /\ rt'[w].task = rt[w].task
        /\ \A d \in Calls : rt'[w].call[d] = IF d \in {c} THEN "done" ELSE rt[w].call[d]
    BY <1>1, <1>6, SetCallsAt
  <2>4. /\ exec'[t][c].state = "completed"
        /\ \A u \in Tasks, d \in Calls : (u = t /\ d = c) \/ exec'[u][d] = exec[u][d]
    <3>1. PICK x \in {"denied", "cancelled"} : exec' = Completed(t, c, x)
      BY <1>6
    <3> QED
      BY <1>1, <3>1, CompletedAt
  <2>5. OnlyCall(w, c)
    BY <1>2, <1>3, <2>3, <2>4 DEF OnlyCall, InBatch
  <2>6. BatchCall(w, c)'
    BY <2>3 DEF BatchCall
  <2> QED
    BY <1>2, <1>3, <1>4, <2>2, <2>4, <2>5, <2>6, OnlyCallStep
<1> QED
  BY <1>3, <1>5, <1>6

\* finish_call keeps CallInv.
LEMMA FinishCallCall ==
    ASSUME IInv, NEW w \in Pids, FinishCall(w)
    PROVE  CallInv'
<1>1. StoreTypeOK /\ RuntimeTypeOK
  BY DEF IInv, TypeOK
<1>2. UNCHANGED <<alive, inflight, effects>> /\ WorkerStep(w) /\ InBatch(w)
  BY DEF FinishCall, WorkerStep, process, history
<1>3. PICK t \in Tasks, c \in Calls :
        /\ t = rt[w].task
        /\ rt' = SetCalls(w, {c}, "done") /\ exec' = Completed(t, c, "ok")
  BY <1>2, BatchOwner DEF FinishCall
<1>4. \A p \in Pids \ {w} : rt'[p] = rt[p]
  BY <1>2, WorkerLocal
<1>5. /\ rt'[w].pc = rt[w].pc /\ rt'[w].task = rt[w].task
      /\ \A d \in Calls : rt'[w].call[d] = IF d \in {c} THEN "done" ELSE rt[w].call[d]
  <2>1. rt' = SetCalls(w, {c}, "done")
    BY <1>3
  <2> QED
    BY <1>1, <2>1, SetCallsAt
<1>6. /\ exec'[t][c].state = "completed" /\ exec'[t][c].result = "ok"
      /\ \A u \in Tasks, d \in Calls : (u = t /\ d = c) \/ exec'[u][d] = exec[u][d]
  <2>1. exec' = Completed(t, c, "ok")
    BY <1>3
  <2> QED
    BY <1>1, <2>1, CompletedAt
<1>7. OnlyCall(w, c)
  BY <1>2, <1>3, <1>5, <1>6 DEF OnlyCall, InBatch
<1>8. BatchCall(w, c)'
  BY <1>5 DEF BatchCall
<1> QED
  BY <1>2, <1>3, <1>4, <1>6, <1>7, <1>8, OnlyCallStep

\* The INSERT of claim_execution keeps CallInv: only an unclaimed call is claimed,
\* and an unclaimed call has had no effect.
LEMMA ClaimCallCall ==
    ASSUME IInv, NEW w \in Pids, ClaimCall(w)
    PROVE  CallInv'
<1>1. StoreTypeOK /\ RuntimeTypeOK /\ CallInv
  BY DEF IInv, TypeOK
<1>2. UNCHANGED <<alive, effects>> /\ WorkerStep(w) /\ InBatch(w)
  BY DEF ClaimCall, WorkerStep, process
<1>3. \A p \in Pids \ {w} : rt'[p] = rt[p]
  BY <1>2, WorkerLocal
<1>4. PICK t \in Tasks, c \in Calls :
        /\ t = rt[w].task
        /\ \/ exec[t][c] = NoExecution /\ exec' = Claimed(t, c) /\ Begun(w, c)
           \/ Fail(w) /\ UNCHANGED <<exec, inflight>>
  BY <1>2, BatchOwner DEF ClaimCall
<1>5. CASE Fail(w) /\ UNCHANGED <<exec, inflight>>
  <2>1. QuietCall
    BY <1>2, <1>5 DEF QuietCall
  <2>2. rt'[w].pc = "finally"
    BY <1>1, <1>5 DEF Fail, RuntimeTypeOK, Runtime
  <2>3. \A p \in Pids : QuietBatch(p)
    BY <1>2, <1>3, <2>2 DEF QuietBatch, InBatch
  <2> QED
    BY <2>1, <2>3, QuietStep
<1>6. CASE exec[t][c] = NoExecution /\ exec' = Claimed(t, c) /\ Begun(w, c)
  <2>1. Untouched(t, c)
    BY <1>1, <1>6 DEF CallInv, NoExecution
  <2>2. /\ exec'[t][c].state = "executing" /\ exec'[t][c].result = "null"
        /\ \A u \in Tasks, d \in Calls : (u = t /\ d = c) \/ exec'[u][d] = exec[u][d]
    BY <1>1, <1>6 DEF Claimed, StoreTypeOK
  <2>3. \/ rt' = SetCalls(w, {c}, "begun") /\ UNCHANGED inflight
        \/ rt' = SetCalls(w, {c}, "sent") /\ inflight' = inflight \union {<<w, t, c>>}
    BY <1>4, <1>6 DEF Begun
  <2>4. /\ rt'[w].pc = rt[w].pc /\ rt'[w].task = rt[w].task
        /\ \A d \in Calls \ {c} : rt'[w].call[d] = rt[w].call[d]
        /\ \/ rt'[w].call[c] = "begun" /\ UNCHANGED inflight
           \/ rt'[w].call[c] = "sent"
    <3>1. CASE rt' = SetCalls(w, {c}, "begun") /\ UNCHANGED inflight
      <4>1. /\ rt'[w].pc = rt[w].pc /\ rt'[w].task = rt[w].task
            /\ \A d \in Calls : rt'[w].call[d] = IF d \in {c} THEN "begun" ELSE rt[w].call[d]
        BY <1>1, <3>1, SetCallsAt
      <4> QED
        BY <3>1, <4>1
    <3>2. CASE rt' = SetCalls(w, {c}, "sent")
      <4>1. /\ rt'[w].pc = rt[w].pc /\ rt'[w].task = rt[w].task
            /\ \A d \in Calls : rt'[w].call[d] = IF d \in {c} THEN "sent" ELSE rt[w].call[d]
        BY <1>1, <3>2, SetCallsAt
      <4> QED
        BY <3>2, <4>1
    <3> QED
      BY <2>3, <3>1, <3>2
  <2>5. \A x \in inflight' : x \in inflight \/ x = <<w, t, c>>
    BY <2>3
  <2>6. OnlyCall(w, c)
    BY <1>2, <1>4, <2>2, <2>4, <2>5 DEF OnlyCall, InBatch
  <2>7. BatchCall(w, c)'
    BY <1>2, <1>4, <2>1, <2>2, <2>4 DEF BatchCall, Untouched
  <2> QED
    BY <1>3, <1>4, <2>1, <2>2, <2>6, <2>7, OnlyCallStep
<1> QED
  BY <1>4, <1>5, <1>6

\* The reads of claim_execution keep CallInv: the call was allowed, so it is
\* unclaimed, and begin_call does not begin it a second time.
LEMMA CheckCallCall ==
    ASSUME IInv, NEW w \in Pids, CheckCall(w)
    PROVE  CallInv'
<1>1. StoreTypeOK /\ RuntimeTypeOK /\ CallInv
  BY DEF IInv, TypeOK
<1>2. UNCHANGED <<alive, exec, effects>> /\ WorkerStep(w) /\ InBatch(w)
  BY DEF CheckCall, NextCall, WorkerStep, process, ledger, history
<1>3. \A p \in Pids \ {w} : rt'[p] = rt[p]
  BY <1>2, WorkerLocal
<1>4. PICK t \in Tasks, c \in Calls :
        /\ t = rt[w].task /\ rt[w].call[c] = "allow"
        /\ \/ exec[t][c] # NoExecution
           \/ UNCHANGED inflight /\ (rt' = SetCalls(w, {c}, "checked") \/ Fail(w))
  BY <1>2, BatchOwner DEF CheckCall
<1>5. exec[t][c] = NoExecution
  <2>1. exec[t][c].state = "none"
    BY <1>1, <1>2, <1>4 DEF CallInv, BatchInv, BatchCall
  <2>2. exec[t][c].result = "null"
    BY <1>1, <2>1 DEF CallInv
  <2> QED
    BY <1>1, <2>1, <2>2 DEF StoreTypeOK, ExecutionRow, NoExecution
<1>6. UNCHANGED inflight /\ (rt' = SetCalls(w, {c}, "checked") \/ Fail(w))
  BY <1>4, <1>5
<1>7. QuietCall
  BY <1>2, <1>6 DEF QuietCall
<1>8. \A p \in Pids \ {w} : QuietBatch(p)
  BY <1>2, <1>3 DEF QuietBatch, InBatch
<1>9. QuietBatch(w)
  <2>1. CASE rt' = SetCalls(w, {c}, "checked")
    <3>1. /\ rt'[w].task = rt[w].task
          /\ \A d \in Calls : rt'[w].call[d] = IF d \in {c} THEN "checked" ELSE rt[w].call[d]
      BY <1>1, <2>1, SetCallsAt
    <3> QED
      BY <1>2, <3>1 DEF QuietBatch
  <2>2. CASE Fail(w)
    <3>1. rt'[w].pc = "finally"
      BY <1>1, <2>2 DEF Fail, RuntimeTypeOK, Runtime
    <3> QED
      BY <3>1 DEF QuietBatch, InBatch
  <2> QED
    BY <1>6, <2>1, <2>2
<1> QED
  BY <1>7, <1>8, <1>9, QuietStep

\* Starting the MCP calls together keeps CallInv: each was only claimed.
LEMMA StartBatchCall ==
    ASSUME IInv, NEW w \in Pids, StartBatch(w)
    PROVE  CallInv'
<1>1. StoreTypeOK /\ RuntimeTypeOK /\ CallInv
  BY DEF IInv, TypeOK
<1>2. UNCHANGED <<alive, exec, effects>> /\ WorkerStep(w) /\ InBatch(w)
  BY DEF StartBatch, WorkerStep, process, ledger, history
<1>3. \A p \in Pids \ {w} : rt'[p] = rt[p]
  BY <1>2, WorkerLocal
<1>4. PICK t \in Tasks : t = rt[w].task /\ task[t].owner = w
  BY <1>2, BatchOwner
<1> DEFINE B == {c \in Calls : rt[w].call[c] = "begun"}
<1>5. rt' = SetCalls(w, B, "sent") /\ inflight' = inflight \union {<<w, t, c>> : c \in B}
  BY <1>4 DEF StartBatch, StatusOf
<1>6. \A c \in B : c \in Calls /\ exec[t][c].state = "executing" /\ Untouched(t, c)
  BY <1>1, <1>2, <1>4 DEF CallInv, BatchInv, BatchCall
<1>7. /\ rt'[w].task = rt[w].task
      /\ \A d \in Calls : rt'[w].call[d] = IF d \in B THEN "sent" ELSE rt[w].call[d]
  BY <1>1, <1>5, SetCallsAt
<1>8. \A d \in Calls : rt[w].call[d] = "begun" => d \in B
  OBVIOUS
<1> HIDE DEF B
<1>9. \A u \in Tasks, d \in Calls : Untouched(u, d) /\ ~(u = t /\ d \in B) => Untouched(u, d)'
  BY <1>2, <1>5 DEF Untouched
<1>10. BatchInv'
  <2> SUFFICES ASSUME NEW p \in Pids, InBatch(p)', NEW d \in Calls
               PROVE  BatchCall(p, d)'
    BY DEF BatchInv
  <2>1. InBatch(p) /\ rt'[p].task = rt[p].task
    BY <1>2, <1>3, <1>7 DEF InBatch
  <2>2. PICK u \in Tasks : u = rt[p].task /\ task[u].owner = p
    BY <2>1, BatchOwner
  <2>3. /\ rt[p].call[d] \in {"ask", "allow"} => exec[u][d].state = "none"
        /\ rt[p].call[d] = "begun" => exec[u][d].state = "executing" /\ Untouched(u, d)
    BY <1>1, <2>1, <2>2 DEF CallInv, BatchInv, BatchCall
  <2>4. CASE p = w
    <3>1. /\ rt'[w].call[d] # "begun"
          /\ rt'[w].call[d] \in {"ask", "allow"} => rt'[w].call[d] = rt[w].call[d]
      BY <1>7, <1>8
    <3> QED
      BY <1>2, <2>1, <2>2, <2>3, <2>4, <3>1 DEF BatchCall
  <2>5. CASE p # w
    <3>1. u # t /\ rt'[p] = rt[p]
      BY <1>3, <1>4, <2>2, <2>5
    <3>2. Untouched(u, d) => Untouched(u, d)'
      BY <1>9, <3>1
    <3> QED
      BY <1>2, <2>2, <2>3, <3>1, <3>2 DEF BatchCall
  <2> QED
    BY <2>4, <2>5
<1>11. ThreadInv'
  <2>1. \A x \in inflight' : x \in inflight \/ \E c \in B : x = <<w, t, c>>
    BY <1>5
  <2>2. \A x \in inflight : x = <<x[1], x[2], x[3]>> /\ x[1] \in Pids
    BY <1>1 DEF RuntimeTypeOK
  <2>3. \A x \in inflight : ~(x[2] = t /\ x[3] \in B)
    BY <1>6, <2>2 DEF Untouched
  <2>4. \A x \in inflight' : effects'[x[2]][x[3]] = 0
    BY <1>1, <1>2, <1>6, <2>1 DEF CallInv, ThreadInv, Untouched
  <2>5. \A x, y \in inflight' : x[2] = y[2] /\ x[3] = y[3] => x = y
    BY <1>1, <2>1, <2>3 DEF CallInv, ThreadInv
  <2> QED
    BY <2>4, <2>5 DEF ThreadInv
<1>12. AtMostOnce'
  BY <1>1, <1>2 DEF CallInv, AtMostOnce
<1>13. \A u \in Tasks, d \in Calls :
         /\ exec'[u][d].state # "completed" => exec'[u][d].result = "null"
         /\ exec'[u][d].state = "none" => Untouched(u, d)'
  BY <1>1, <1>2, <1>6, <1>9 DEF CallInv
<1>14. RefusedNeverRuns'
  <2> SUFFICES ASSUME NEW u \in Tasks, NEW d \in Calls,
                      exec'[u][d].result \in {"denied", "cancelled"}
               PROVE  Untouched(u, d)'
    BY DEF RefusedNeverRuns, Untouched
  <2>1. exec[u][d].result # "null"
    BY <1>2
  <2>2. ~(u = t /\ d \in B)
    BY <1>1, <1>6, <2>1 DEF CallInv
  <2>3. Untouched(u, d)
    BY <1>1, <1>2 DEF CallInv, RefusedNeverRuns, Untouched
  <2> QED
    BY <1>9, <2>2, <2>3
<1> QED
  BY <1>10, <1>11, <1>12, <1>13, <1>14 DEF CallInv

\* The effect of a tool keeps CallInv: it had none before, and no other thread
\* will cause it again.
LEMMA RunToolCall ==
    ASSUME IInv, NEW w \in Pids, RunTool(w)
    PROVE  CallInv'
<1>1. RuntimeTypeOK /\ CallInv /\ effects \in [Tasks -> [Calls -> Nat]]
  BY DEF IInv, TypeOK, HistoryTypeOK
<1>2. UNCHANGED <<alive, exec, rt>>
  BY DEF RunTool, process, ledger
<1>3. PICK t \in Tasks, c \in Calls :
        /\ <<w, t, c>> \in inflight
        /\ inflight' = inflight \ {<<w, t, c>>}
        /\ effects' = [effects EXCEPT ![t][c] = effects[t][c] + 1]
  BY DEF RunTool
<1>4. effects[t][c] = 0 /\ ~Untouched(t, c)
  BY <1>1, <1>3 DEF CallInv, ThreadInv, Untouched
<1>5. /\ effects'[t][c] = 1
      /\ \A u \in Tasks, d \in Calls : (u = t /\ d = c) \/ effects'[u][d] = effects[u][d]
  BY <1>1, <1>3, <1>4
<1>6. \A u \in Tasks, d \in Calls : Untouched(u, d) => Untouched(u, d)'
  BY <1>3, <1>4, <1>5 DEF Untouched
<1>7. BatchInv'
  <2> SUFFICES ASSUME NEW p \in Pids, InBatch(p), NEW d \in Calls
               PROVE  BatchCall(p, d)'
    BY <1>2 DEF BatchInv, InBatch
  <2>1. PICK u \in Tasks : u = rt[p].task
    BY BatchOwner
  <2> QED
    BY <1>1, <1>2, <1>6, <2>1 DEF CallInv, BatchInv, BatchCall
<1>8. ThreadInv'
  <2>1. \A x \in inflight' : x \in inflight /\ x # <<w, t, c>>
    BY <1>3
  <2>2. \A x \in inflight' : x[2] \in Tasks /\ x[3] \in Calls /\ ~(x[2] = t /\ x[3] = c)
    BY <1>1, <1>3, <2>1 DEF CallInv, ThreadInv, RuntimeTypeOK
  <2>3. ThreadInv
    BY <1>1 DEF CallInv
  <2>4. \A x \in inflight' : effects'[x[2]][x[3]] = 0
    BY <1>5, <2>1, <2>2, <2>3 DEF ThreadInv
  <2>5. \A x, y \in inflight' : x[2] = y[2] /\ x[3] = y[3] => x = y
    BY <2>1, <2>3 DEF ThreadInv
  <2> QED
    BY <2>4, <2>5 DEF ThreadInv
<1>9. AtMostOnce'
  BY <1>1, <1>5 DEF CallInv, AtMostOnce
<1>10. RefusedNeverRuns'
  BY <1>1, <1>2, <1>6 DEF CallInv, RefusedNeverRuns, Untouched
<1>11. \A u \in Tasks, d \in Calls :
         /\ exec'[u][d].state # "completed" => exec'[u][d].result = "null"
         /\ exec'[u][d].state = "none" => Untouched(u, d)'
  BY <1>1, <1>2, <1>6 DEF CallInv
<1> QED
  BY <1>7, <1>8, <1>9, <1>10, <1>11 DEF CallInv

\* authorize keeps CallInv: no outcome is unknown and recorded results are reused,
\* so the calls it asks for or allows are unclaimed.
LEMMA AuthorizeCall ==
    ASSUME IInv, NEW w \in Pids, Authorize(w)
    PROVE  CallInv'
<1>1. StoreTypeOK /\ RuntimeTypeOK /\ CallInv /\ rt[w] \in Runtime
  BY DEF IInv, TypeOK, RuntimeTypeOK
<1>2. UNCHANGED <<alive, exec, effects, inflight>> /\ WorkerStep(w)
  BY DEF Authorize, WorkerStep, process
<1>3. \A p \in Pids \ {w} : rt'[p] = rt[p]
  BY <1>2, WorkerLocal
<1>4. PICK t \in Tasks : t = rt[w].task
  BY DEF Authorize, Busy, IInv, OwnerInv, Exists
<1>5. CASE Unknown(t)
  <2>1. rt'[w].pc = "finally"
    BY <1>1, <1>4, <1>5 DEF Authorize, Fail, RuntimeTypeOK, Runtime
  <2>2. QuietCall /\ \A p \in Pids : QuietBatch(p)
    BY <1>2, <1>3, <2>1 DEF QuietCall, QuietBatch, InBatch
  <2> QED
    BY <2>2, QuietStep
<1>6. CASE ~Unknown(t)
  <2>1. rt'[w].task = t /\ \A c \in Calls : \/ exec[t][c].state = "completed"
                                           \/ rt'[w].call[c] \in {"ask", "allow"}
    BY <1>1, <1>4, <1>6 DEF Authorize, Recorded, RuntimeTypeOK, Runtime
  <2>2. \A c \in Calls : \/ rt'[w].call[c] = "done"
                         \/ rt'[w].call[c] # "begun" /\ exec[t][c].state # "completed"
    BY <1>1, <1>4, <1>6 DEF Authorize, Recorded, RuntimeTypeOK, Runtime
  <2>3. \A c \in Calls : exec[t][c].state \in {"none", "completed"}
    BY <1>1, <1>6 DEF Unknown, StoreTypeOK, ExecutionRow
  <2>4. \A u \in Tasks, d \in Calls : Untouched(u, d) => Untouched(u, d)'
    BY <1>2 DEF Untouched
  <2>5. BatchInv'
    <3> SUFFICES ASSUME NEW p \in Pids, InBatch(p)', NEW d \in Calls
                 PROVE  BatchCall(p, d)'
      BY DEF BatchInv
    <3>1. CASE p = w
      BY <1>2, <2>1, <2>2, <2>3, <3>1 DEF BatchCall
    <3>2. CASE p # w
      <4>1. InBatch(p) /\ rt'[p] = rt[p]
        BY <1>2, <1>3, <3>2 DEF InBatch
      <4>2. PICK u \in Tasks : u = rt[p].task
        BY <4>1, BatchOwner
      <4> QED
        BY <1>1, <1>2, <2>4, <4>1, <4>2 DEF CallInv, BatchInv, BatchCall
    <3> QED
      BY <3>1, <3>2
  <2>6. ThreadInv' /\ AtMostOnce' /\ RefusedNeverRuns'
    BY <1>1, <1>2 DEF CallInv, ThreadInv, AtMostOnce, RefusedNeverRuns
  <2> QED
    BY <1>1, <1>2, <2>4, <2>5, <2>6 DEF CallInv
<1> QED
  BY <1>5, <1>6

\* The other steps of a worker leave its batch as it is, or end it.
LEMMA OtherWorkerBatch ==
    ASSUME IInv, NEW w \in Pids, WorkerStep(w), ~Authorize(w), ~Settle(w), ~CheckCall(w),
           ~ClaimCall(w), ~StartBatch(w), ~RunTool(w), ~FinishCall(w)
    PROVE  rt'[w] = rt[w] \/ rt'[w].pc # "batch"
<1>1. rt[w] \in Runtime /\ rt \in [Pids -> Runtime]
  BY DEF IInv, TypeOK, RuntimeTypeOK
<1>2. CASE StartNew(w) \/ AdoptResume(w)
  BY <1>1, <1>2 DEF StartNew, AdoptResume, StartedAs, Idle
<1>3. CASE Bind(w) \/ Complete(w) \/ FailRound(w)
  BY <1>1, <1>3 DEF Bind, Complete, FailRound, Fail, Runtime
<1>4. CASE Unwind(w) \/ ReadState(w) \/ LeaveLoop(w)
  BY <1>1, <1>4 DEF Unwind, ReadState, LeaveLoop, Runtime
<1>5. CASE Abandon(w) \/ Close(w) \/ ExitWorker(w) \/ CrashWorker(w)
  BY <1>1, <1>5 DEF Abandon, Close, ExitWorker, CrashWorker, Dies, Idle
<1>6. CASE DropCommand(w) \/ AutoApprove(w)
  BY <1>6 DEF DropCommand, AutoApprove
<1>7. CASE Interrupt(w)
  <2>1. PICK why : Cancel(w, why)
    BY <1>7 DEF Interrupt
  <2> QED
    BY <1>1, <2>1 DEF Cancel, Runtime, Idle
<1> QED
  BY <1>2, <1>3, <1>4, <1>5, <1>6, <1>7 DEF WorkerStep

\* The other steps of a worker are quiet.
LEMMA OtherWorkerCall ==
    ASSUME IInv, NEW w \in Pids, WorkerStep(w), ~Authorize(w), ~Settle(w), ~CheckCall(w),
           ~ClaimCall(w), ~StartBatch(w), ~RunTool(w), ~FinishCall(w)
    PROVE  CallInv'
<1>1. StoreTypeOK /\ RuntimeTypeOK /\ rt[w] \in Runtime /\ rt \in [Pids -> Runtime]
  BY DEF IInv, TypeOK, RuntimeTypeOK
<1>2. /\ inflight' \subseteq inflight /\ UNCHANGED effects
      /\ alive' \subseteq alive
  BY DEF WorkerStep, StartNew, AdoptResume, DropCommand, Bind, Abandon, AutoApprove, Complete,
         FailRound, Interrupt, Unwind, ReadState, Close, LeaveLoop, ExitWorker, CrashWorker,
         Dies, process, history
<1>3. UNCHANGED exec \/ \E S, s : SetTaskState(S, s)
  BY DEF WorkerStep, StartNew, AdoptResume, DropCommand, Bind, Abandon, AutoApprove, Complete,
         FailRound, Interrupt, Unwind, ReadState, Close, LeaveLoop, SuspendSession, ExitWorker,
         CrashWorker, Dies, ledger
<1>4. \A t \in Tasks, c \in Calls :
        /\ exec'[t][c].state = exec[t][c].state
        /\ exec'[t][c].result \in {exec[t][c].result, "null"}
  <2>1. ASSUME NEW x \in ExecutionRow, NEW y, y = x \/ y = [x EXCEPT !.result = "null"]
        PROVE  y.state = x.state /\ y.result \in {x.result, "null"}
    BY <2>1 DEF ExecutionRow
  <2> TAKE t \in Tasks, c \in Calls
  <2>2. exec[t][c] \in ExecutionRow
    BY <1>1 DEF StoreTypeOK
  <2>3. exec'[t][c] = exec[t][c] \/ exec'[t][c] = [exec[t][c] EXCEPT !.result = "null"]
    BY <1>3 DEF SetTaskState
  <2> QED
    BY <2>1, <2>2, <2>3
<1>5. \A p \in Pids \ {w} : rt'[p] = rt[p]
  BY WorkerLocal
<1>6. rt'[w] = rt[w] \/ rt'[w].pc # "batch"
  BY OtherWorkerBatch
<1>7. QuietCall
  BY <1>2, <1>4 DEF QuietCall
<1>8. \A p \in Pids : QuietBatch(p)
  BY <1>2, <1>5, <1>6 DEF QuietBatch, InBatch
<1> QED
  BY <1>7, <1>8, QuietStep

\* Every step keeps CallInv.
LEMMA CallStep ==
    ASSUME IInv, Next
    PROVE  CallInv'
  BY BackendCall, AuthorizeCall, SettleCall, CheckCallCall, ClaimCallCall, StartBatchCall,
     RunToolCall, FinishCallCall, OtherWorkerCall
  DEF Next
=============================================================================
