----------------------------- MODULE TaskBudget -----------------------------
(***************************************************************************)
(* The budget of one chat task: memory/task_cost_store.py, the gates of    *)
(* agent_runtime/task_costs.py and the routes of task_cost_router.py.      *)
(*                                                                         *)
(* The agents of the task's worker and the titles the backend asks for     *)
(* pass one gate before each model call, the agents also before each batch *)
(* of tools.  At a limit the row is paused and the gates poll it until the *)
(* page raises the limits or stops the task.  The state of the task in the *)
(* permission ledger (PermissionStore) is a second row in another          *)
(* database, which the worker, the routes and new messages bring together. *)
(***************************************************************************)
EXTENDS Naturals, Sequences, FiniteSets

F == INSTANCE FiniteSetsExt

CONSTANTS
    Agents,      \* the main agent and its sub-agents, in the worker
    Main,        \* the main agent
    Titles,      \* title requests, in the backend
    Posts,       \* bound: requests to continue
    Polls,       \* requests for the usage (an open page repeats them)
    Stops,       \* bound: requests to stop
    Keys,        \* tool calls: agent and call id
    KeysOf,      \* those of an agent
    Configured,  \* the limits a task may start with
    Priced,      \* whether the model may have a price at the start
    Raised,      \* the limits a page may ask for
    MaxUsage,    \* bound: tokens of one call
    MaxElapsed,  \* bound: time units
    MaxCalls,    \* bound: model calls of a run
    MaxResumes,  \* bound: resumptions
    Events       \* what may happen to a run: deaths of the "worker" and the
                 \* "backend", "user" and "giveup" stop the task, "leave" and
                 \* "interrupt" come from a shutdown and a new "message",
                 \* "pricing" is another list of prices

Kinds == {"tokens", "cost", "model_calls", "tool_calls", "seconds"}

ASSUME BudgetAssumption ==
    /\ Main \in Agents
    /\ IsFiniteSet(Keys)
    /\ KeysOf \in [Agents -> SUBSET Keys]
    /\ Configured \subseteq [Kinds -> Nat] /\ Configured # {}
    /\ Raised \subseteq [Kinds -> Nat]
    /\ Priced \subseteq BOOLEAN /\ Priced # {}
    /\ MaxUsage \in Nat /\ MaxElapsed \in Nat
    /\ MaxCalls \in Nat /\ MaxResumes \in Nat
    /\ Agents \cap Titles = {}
    /\ (Agents \cup Titles) \cap (Posts \cup Polls \cup Stops) = {}
    /\ Posts \cap Polls = {} /\ Posts \cap Stops = {} /\ Polls \cap Stops = {}

VARIABLES
    control,   \* state of the task in the permission ledger
    worker,    \* the generation: gone, opening, working, finishing, closing
    final,     \* what its finally block has read and decided
    stopping,  \* its stop flag
    resumes,   \* resumptions so far
    retiring,  \* a new message has ended the task and not yet its row
    row,       \* the row of the table tasks
    calls,     \* the rows of the table calls, in the order of their insertion
    tools,     \* the rows of the table tools
    elapsed,   \* running time of the task
    priced,    \* the model has a price
    pc,        \* where each agent, title and request is
    batch,     \* the tool calls a caller takes to the gate; {} is a model call
    mine,      \* the row of an agent's or a title's model call
    seen,      \* the version of the pause a request to continue answers
    stale      \* the state of the ledger a request for the usage has read

ledger == <<control, worker, final, stopping, resumes, retiring>>
tables == <<row, calls, tools>>
local == <<pc, batch, mine, seen, stale>>
vars == <<ledger, tables, elapsed, priced, local>>

Callers == Agents \cup Titles
Requests == Posts \cup Polls \cup Stops
Terminal == {"cancelled", "failed", "completed"}
Open == {"running", "paused"}

NoRow == [state |-> "none", reason |-> "none", limits |-> [k \in Kinds |-> 0],
          version |-> 0, model_calls |-> 0, tool_calls |-> 0]

NoFinal == [did |-> "failed", saw |-> "running"]

Init ==
    /\ control = "running" /\ worker = "opening" /\ final = NoFinal
    /\ stopping = "no" /\ resumes = 0 /\ retiring = "no"
    /\ row = NoRow /\ calls = <<>> /\ tools = {}
    /\ elapsed = 0
    /\ priced \in Priced
    /\ pc = [x \in Callers \cup Requests |-> "idle"]
    /\ batch = [x \in Callers |-> {}]
    /\ mine = [x \in Callers |-> 0]
    /\ seen = [r \in Posts |-> 0]
    /\ stale = [u \in Polls |-> "none"]

-----------------------------------------------------------------------------
(* The transactions of the store.                                          *)

\* create_task: a new row takes a copy of the limits; a suspended one goes on,
\* paused if it was.
Opened(limits) ==
    CASE row.state = "none" ->
            [NoRow EXCEPT !.state = "running", !.limits = limits]
      [] row.state = "suspended" ->
            [row EXCEPT !.state = IF row.reason = "none" THEN "running" ELSE "paused"]
      [] OTHER -> row

Rows == DOMAIN calls

Tokens == F!MapThenSumSet(LAMBDA i : calls[i].usage, Rows)

Cost == F!MapThenSumSet(LAMBDA i : calls[i].usage, {i \in Rows : calls[i].priced})

\* A call whose cost is not known; once there is one, it stays.
Unpriced == \E i \in Rows : ~calls[i].priced

Used == [k \in Kinds |->
    CASE k = "tokens" -> Tokens
      [] k = "cost" -> Cost
      [] k = "model_calls" -> row.model_calls
      [] k = "tool_calls" -> row.tool_calls
      [] k = "seconds" -> elapsed]

\* Mutant: the limit itself is passed.
PastLimit == \E k \in Kinds : row.limits[k] > 0 /\ Used[k] > row.limits[k]

AtLimit == \E k \in Kinds : row.limits[k] > 0 /\ Used[k] >= row.limits[k]

\* Mutant: the price of the call itself is not asked for.
PriceForgotten(isCall) == row.limits["cost"] > 0 /\ Unpriced

PriceMissing(isCall) == row.limits["cost"] > 0 /\ (Unpriced \/ (isCall /\ ~priced))

Paused(reason) ==
    [row EXCEPT !.state = "paused", !.reason = reason, !.version = @ + 1]

\* A title that is asked for after the end still belongs to the task.
LateTitle(x) == x \in Titles /\ row.state = "completed"

\* settle
Settled(x, state, usage) ==
    IF mine[x] \in Rows
    THEN [calls EXCEPT ![mine[x]].state = state, ![mine[x]].usage = usage]
    ELSE calls

\* Mutant: the calls of a suspended task stay on their way.
FinishedCallsOpen(state) ==
    IF state \in {"cancelled", "failed"}
    THEN [i \in Rows |-> IF calls[i].state = "running"
                         THEN [calls[i] EXCEPT !.state = "unknown"] ELSE calls[i]]
    ELSE calls

\* finish, without a look at the state the row has; calls on their way get the
\* state unknown, unless the task is completed.
FinishedRow(state) ==
    IF row.state = "none" THEN row
    ELSE [row EXCEPT !.state = state, !.version = @ + 1]

FinishedCalls(state) ==
    IF row.state # "none" /\ state \in {"cancelled", "failed", "suspended"}
    THEN [i \in Rows |-> IF calls[i].state = "running"
                         THEN [calls[i] EXCEPT !.state = "unknown"] ELSE calls[i]]
    ELSE calls

Finish(state) ==
    /\ row' = FinishedRow(state)
    /\ calls' = FinishedCalls(state)
    /\ UNCHANGED <<tools, elapsed, priced>>

NoStore == UNCHANGED <<tables, elapsed, priced>>

-----------------------------------------------------------------------------
(* The agents and the titles: BudgetTracker and ModelMeter.                *)

Move(x, to) == pc' = [pc EXCEPT ![x] = to]

Empty(x) == batch' = [batch EXCEPT ![x] = {}]

AtGate(x) == pc[x] = "gate" /\ (x \in Agents => stopping = "no")

IsCall(x) == batch[x] = {}

\* Counted tool calls pass again, whatever the limits say.
Replayed(x) == ~IsCall(x) /\ batch[x] \subseteq tools

Admitted(x) ==
    \/ row.state = "running" /\ Replayed(x)
    \/ /\ row.state = "running" \/ LateTitle(x)
       /\ ~AtLimit /\ ~PriceMissing(IsCall(x))

Atop == {x \in Callers : pc[x] = "gate" /\ IsCall(x)}

\* A title finds its task through the row.
AskModel(x) ==
    /\ pc[x] = "idle"
    /\ IF x \in Agents THEN worker = "working" ELSE row.state # "none"
    /\ Len(calls) + Cardinality(Atop) < MaxCalls
    /\ Move(x, "gate")
    /\ NoStore /\ UNCHANGED <<ledger, batch, mine, seen, stale>>

\* After a resumption an agent may bring calls it has brought before.
AskTools(a) ==
    /\ worker = "working" /\ pc[a] = "idle"
    /\ \E K \in SUBSET KeysOf[a] \ {{}} : batch' = [batch EXCEPT ![a] = K]
    /\ Move(a, "gate")
    /\ NoStore /\ UNCHANGED <<ledger, mine, seen, stale>>

\* reserve, allowed: the call or the tool calls not yet counted are recorded.
PassModel(x) ==
    /\ AtGate(x) /\ IsCall(x) /\ Admitted(x)
    /\ calls' = Append(calls, [agent |-> x, state |-> "running", usage |-> 1,
                               priced |-> priced])
    /\ row' = [row EXCEPT !.model_calls = @ + 1]
    /\ mine' = [mine EXCEPT ![x] = Len(calls) + 1]
    /\ Move(x, "granted")
    /\ UNCHANGED <<ledger, tools, elapsed, priced, batch, seen, stale>>

Added(K) == Cardinality(K \ tools)

PassTools(a) ==
    /\ AtGate(a) /\ ~IsCall(a) /\ Admitted(a)
    /\ tools' = tools \cup batch[a]
    /\ row' = [row EXCEPT !.tool_calls = @ + Added(batch[a])]
    /\ Move(a, "using") /\ Empty(a)
    /\ UNCHANGED <<ledger, calls, elapsed, priced, mine, seen, stale>>

\* reserve, refused: the first gate that finds a limit reached pauses the row.
Pause(x) ==
    /\ AtGate(x) /\ row.state = "running" /\ ~Admitted(x)
    /\ row' = Paused(IF AtLimit THEN "limit" ELSE "price")
    /\ UNCHANGED <<ledger, calls, tools, elapsed, priced, local>>

\* CancelledError, or RuntimeError for a title.
Refuse(x) ==
    /\ pc[x] = "gate"
    /\ \/ x \in Agents /\ stopping # "no"
       \/ row.state \notin Open /\ ~Admitted(x)
    /\ Move(x, "ended") /\ Empty(x)
    /\ NoStore /\ UNCHANGED <<ledger, mine, seen, stale>>

\* The slot is there and the request leaves.
Send(x) ==
    /\ pc[x] = "granted"
    /\ Move(x, "sending")
    /\ NoStore /\ UNCHANGED <<ledger, batch, mine, seen, stale>>

Settle(x, state, usage, to) ==
    /\ calls' = Settled(x, state, usage)
    /\ mine' = [mine EXCEPT ![x] = 0]
    /\ Move(x, to)
    /\ UNCHANGED <<ledger, row, tools, elapsed, priced, batch, seen, stale>>

\* cancel_start: a cancellation while the call waits for its slot.
NotSent(x) == pc[x] = "granted" /\ Settle(x, "cancelled", 0, "ended")

Answered(x) ==
    /\ pc[x] = "sending"
    /\ \E n \in 0..MaxUsage : Settle(x, "completed", n, "idle")

\* network_attempt sends again: another call, for another reservation.
Retry(x) ==
    /\ pc[x] = "sending"
    /\ Len(calls) + Cardinality(Atop) < MaxCalls
    /\ \E n \in 0..MaxUsage : Settle(x, "unknown", n, "gate")

\* An error, a stop, a cancellation of this agent alone.
Broken(x) ==
    /\ pc[x] = "sending"
    /\ \E n \in 0..MaxUsage : Settle(x, "unknown", n, "ended")

ToolsDone(a) ==
    /\ pc[a] = "using"
    /\ Move(a, "idle")
    /\ NoStore /\ UNCHANGED <<ledger, batch, mine, seen, stale>>

Cancelled(a) ==
    /\ pc[a] \in {"idle", "gate", "using"} /\ worker = "working"
    /\ Move(a, "ended") /\ Empty(a)
    /\ NoStore /\ UNCHANGED <<ledger, mine, seen, stale>>

-----------------------------------------------------------------------------
(* The generation.                                                         *)

OpenTask ==
    /\ worker = "opening"
    /\ \E limits \in Configured : row' = Opened(limits)
    /\ worker' = "working"
    /\ UNCHANGED <<control, final, stopping, resumes, retiring, calls, tools,
                   elapsed, priced, local>>

\* An error before the budget exists: finally closes the task alone.
FailOpening ==
    /\ worker = "opening"
    /\ worker' = "closing" /\ final' = [did |-> "failed", saw |-> control]
    /\ UNCHANGED <<control, stopping, resumes, retiring, local>> /\ NoStore

\* The generation comes to its finally block, which reads the ledger; the
\* handler of the cancellation has written the suspension of a worker that
\* leaves.
Leave(did) ==
    /\ worker = "working"
    /\ \A a \in Agents : pc[a] \in {"idle", "ended"}
    /\ did = "completed" => pc[Main] = "idle"
    /\ control' \in {control} \cup
           (IF did = "failed" /\ stopping = "leave" THEN {"suspended"} ELSE {})
    /\ final' = [did |-> did, saw |-> control']
    /\ worker' = "finishing"
    /\ UNCHANGED <<stopping, resumes, retiring, local>> /\ NoStore

FinishTask ==
    /\ worker = "finishing"
    /\ Finish(IF final.saw = "suspended" THEN "suspended"
              ELSE IF stopping # "no" /\ final.did # "completed" THEN "cancelled"
              ELSE final.did)
    /\ worker' = "closing"
    /\ UNCHANGED <<control, final, stopping, resumes, retiring, local>>

\* What the agents hold in memory goes with the generation.
Gone ==
    /\ worker' = "gone" /\ stopping' = "no" /\ final' = NoFinal
    /\ pc' = [x \in DOMAIN pc |-> IF x \in Agents THEN "idle" ELSE pc[x]]
    /\ batch' = [x \in Callers |-> {}]
    /\ mine' = [x \in Callers |-> IF x \in Agents THEN 0 ELSE mine[x]]
    /\ UNCHANGED <<resumes, retiring, seen, stale>>

CloseTask ==
    /\ worker = "closing"
    /\ control' = IF final.saw = "suspended" THEN "suspended"
                  ELSE IF stopping = "user" \/ final.saw = "cancelled" THEN "cancelled"
                  ELSE final.did
    /\ Gone /\ NoStore

CrashWorker ==
    /\ "worker" \in Events /\ worker # "gone"
    /\ Gone /\ NoStore
    /\ UNCHANGED control

\* A stop, a shutdown, the interruption by a new message.
Signal(reason) == stopping' = IF worker # "gone" /\ stopping = "no"
                              THEN reason ELSE stopping

StopWorker ==
    /\ worker \in {"opening", "working"} /\ stopping = "no"
    /\ \E reason \in {"user", "leave", "interrupt"} \cap Events : stopping' = reason
    /\ UNCHANGED <<control, worker, final, resumes, retiring, local>> /\ NoStore

\* suspend_session
Suspend ==
    /\ "leave" \in Events
    /\ control = "running" /\ worker # "gone"
    /\ control' = "suspended"
    /\ UNCHANGED <<worker, final, stopping, resumes, retiring, local>> /\ NoStore

-----------------------------------------------------------------------------
(* The backend: resumption, giving up, a new message.                      *)

\* pending: the owner of a running task has died.
Swept == IF control = "running" /\ worker = "gone" /\ retiring # "claimed"
         THEN "suspended" ELSE control

Resume ==
    /\ resumes < MaxResumes
    /\ control = "suspended" /\ worker = "gone"
    /\ control' = "running" /\ worker' = "opening" /\ resumes' = resumes + 1
    /\ UNCHANGED <<final, stopping, retiring, local>> /\ NoStore

\* cancel_task, _stop_saved_permission_tasks: the row of the budget is left.
GiveUp ==
    /\ "giveup" \in Events
    /\ worker = "gone" /\ control \in {"running", "suspended"}
    /\ control' = "cancelled"
    /\ UNCHANGED <<worker, final, stopping, resumes, retiring, local>> /\ NoStore

\* _retire_interrupted_tasks: claim, cancel, finish; or release after an error.
Claim ==
    /\ "message" \in Events
    /\ retiring = "no" /\ worker = "gone" /\ Swept = "suspended"
    /\ control' = "running" /\ retiring' = "claimed"
    /\ UNCHANGED <<worker, final, stopping, resumes, local>> /\ NoStore

Unclaim ==
    /\ retiring = "claimed"
    /\ control' = IF control = "running" THEN "suspended" ELSE control
    /\ retiring' = "no"
    /\ UNCHANGED <<worker, final, stopping, resumes, local>> /\ NoStore

RetireTask ==
    /\ retiring = "claimed"
    /\ control' = "cancelled" /\ retiring' = "cancelled"
    /\ UNCHANGED <<worker, final, stopping, resumes, local>> /\ NoStore

RetireBudget ==
    /\ retiring = "cancelled"
    /\ Finish("cancelled")
    /\ retiring' = "no"
    /\ UNCHANGED <<control, worker, final, stopping, resumes, local>>

\* The backend ends with its titles and requests; another one is started.
\* (Bound: not while there is only a poll to lose.)
RestartBackend ==
    /\ "backend" \in Events
    /\ \/ retiring # "no"
       \/ \E x \in Titles \cup Posts \cup Stops : pc[x] \notin {"idle", "ended"}
    /\ retiring' = "no"
    /\ pc' = [x \in DOMAIN pc |->
                IF x \in Agents \/ pc[x] = "idle" THEN pc[x]
                ELSE IF x \in Polls THEN "idle" ELSE "ended"]
    /\ mine' = [x \in Callers |-> IF x \in Agents THEN mine[x] ELSE 0]
    /\ UNCHANGED <<control, worker, final, stopping, resumes, batch, seen, stale>> /\ NoStore

-----------------------------------------------------------------------------
(* The routes of task_cost_router.                                         *)

\* The page has been told of the pause and its version.
Show(r) ==
    /\ pc[r] = "idle" /\ row.state = "paused"
    /\ seen' = [seen EXCEPT ![r] = row.version]
    /\ Move(r, "shown")
    /\ NoStore /\ UNCHANGED <<ledger, batch, mine, stale>>

\* continue_task of the router, and get_usage, begin with pending.
Sweep(r, from, to) ==
    /\ pc[r] = from
    /\ control' = Swept
    /\ Move(r, to)
    /\ NoStore /\ UNCHANGED <<worker, final, stopping, resumes, retiring, batch, mine, seen, stale>>

Post(r) == Sweep(r, "shown", "posted")

Check(r) ==
    /\ pc[r] = "posted"
    /\ Move(r, IF control = "running" THEN "checked" ELSE "ended")
    /\ NoStore /\ UNCHANGED <<ledger, batch, mine, seen, stale>>

\* Mutant: the version is not compared.
AnswersAnyPause(r) == row.state = "paused"

AnswersPause(r) == row.state = "paused" /\ row.version = seen[r]

\* continue_task: each limit above what has been used, and none on the cost
\* when a cost is unknown.
Enough(limits) ==
    /\ \A k \in Kinds : limits[k] > 0 => limits[k] > Used[k]
    /\ limits["cost"] > 0 => ~Unpriced

Continue(r) ==
    /\ pc[r] = "checked" /\ AnswersPause(r)
    /\ \E limits \in Raised :
        /\ Enough(limits)
        /\ row' = [row EXCEPT !.state = "running", !.reason = "none",
                             !.limits = limits, !.version = @ + 1]
    /\ Move(r, "accepted")
    /\ UNCHANGED <<ledger, calls, tools, elapsed, priced, batch, mine, seen, stale>>

RefusePost(r) ==
    /\ pc[r] = "checked"
    /\ ~AnswersPause(r) \/ \E limits \in Raised : ~Enough(limits)
    /\ Move(r, "ended")
    /\ NoStore /\ UNCHANGED <<ledger, batch, mine, seen, stale>>

\* get_usage: sweep, list the tasks, read the ledger's state of an open one
\* and give it to the row.
Poll(u) == Sweep(u, "idle", "polling")

\* Mutant: a paused task is passed over.
ListRunning(u) ==
    /\ pc[u] = "polling"
    /\ Move(u, IF row.state = "running" THEN "listed" ELSE "idle")
    /\ NoStore /\ UNCHANGED <<ledger, batch, mine, seen, stale>>

List(u) ==
    /\ pc[u] = "polling"
    /\ Move(u, IF row.state \in Open THEN "listed" ELSE "idle")
    /\ NoStore /\ UNCHANGED <<ledger, batch, mine, seen, stale>>

ReadControl(u) ==
    /\ pc[u] = "listed"
    /\ stale' = [stale EXCEPT ![u] = IF control = "running" THEN "none" ELSE control]
    /\ Move(u, IF control = "running" THEN "idle" ELSE "read")
    /\ NoStore /\ UNCHANGED <<ledger, batch, mine, seen>>

FinishStale(u) ==
    /\ pc[u] = "read"
    /\ Finish(stale[u])
    /\ stale' = [stale EXCEPT ![u] = "none"]
    /\ Move(u, "idle")
    /\ UNCHANGED <<ledger, batch, mine, seen>>

\* stop_task: stop_chat waits for the worker, terminates it in the end and
\* cancels what has a snapshot; then the row is finished.
StopTask(s) ==
    /\ pc[s] = "idle" /\ row.state \in Open
    /\ Signal("user")
    /\ Move(s, "waiting")
    /\ NoStore
    /\ UNCHANGED <<control, worker, final, resumes, retiring, batch, mine, seen, stale>>

Terminate(s) ==
    /\ pc[s] = "waiting" /\ worker # "gone"
    /\ Gone /\ NoStore
    /\ UNCHANGED control

StopSaved(s) ==
    /\ pc[s] = "waiting" /\ worker = "gone"
    /\ control' \in {Swept} \cup (IF control \in {"running", "suspended"}
                                  THEN {"cancelled"} ELSE {})
    /\ Move(s, "stopped")
    /\ NoStore /\ UNCHANGED <<worker, final, stopping, resumes, retiring, batch, mine, seen, stale>>

StopRow(s) ==
    /\ pc[s] = "stopped"
    /\ Finish("cancelled")
    /\ Move(s, "ended")
    /\ UNCHANGED <<ledger, batch, mine, seen, stale>>

-----------------------------------------------------------------------------
\* Time passes for a task that is not paused.
Tick ==
    /\ row.state = "running" /\ elapsed < MaxElapsed
    /\ elapsed' = elapsed + 1
    /\ UNCHANGED <<ledger, tables, priced, local>>

\* save_pricing puts a price in or takes it out.
SavePricing ==
    /\ "pricing" \in Events
    /\ priced' = ~priced
    /\ UNCHANGED <<ledger, tables, elapsed, local>>

CallerStep(x) ==
    \/ AskModel(x) \/ PassModel(x) \/ Pause(x) \/ Refuse(x) \/ Send(x)
    \/ NotSent(x) \/ Answered(x) \/ Retry(x) \/ Broken(x)

AgentStep(a) == AskTools(a) \/ PassTools(a) \/ ToolsDone(a) \/ Cancelled(a)

WorkerStep ==
    \/ OpenTask \/ FailOpening \/ FinishTask \/ CloseTask \/ CrashWorker
    \/ StopWorker \/ Suspend
    \/ \E did \in {"completed", "failed"} : Leave(did)

BackendStep ==
    \/ Resume \/ GiveUp \/ Claim \/ Unclaim \/ RetireTask \/ RetireBudget
    \/ RestartBackend \/ SavePricing

RouteStep ==
    \/ \E r \in Posts : Show(r) \/ Post(r) \/ Check(r) \/ Continue(r) \/ RefusePost(r)
    \/ \E u \in Polls : Poll(u) \/ List(u) \/ ReadControl(u) \/ FinishStale(u)
    \/ \E s \in Stops : StopTask(s) \/ Terminate(s) \/ StopSaved(s) \/ StopRow(s)

Next ==
    \/ \E x \in Callers : CallerStep(x)
    \/ \E a \in Agents : AgentStep(a)
    \/ WorkerStep \/ BackendStep \/ RouteStep \/ Tick

Spec == Init /\ [][Next]_vars

\* The finally block runs through, a retirement goes on or is given up, and an
\* open page asks for the usage again and again.
Fairness ==
    /\ WF_vars(FinishTask) /\ WF_vars(CloseTask)
    /\ WF_vars(RetireBudget)
    /\ \A u \in Polls : WF_vars(Poll(u) \/ List(u) \/ ReadControl(u) \/ FinishStale(u))

FairSpec == Spec /\ Fairness

-----------------------------------------------------------------------------
CallRow == [agent : Callers, state : {"running", "completed", "cancelled", "unknown"},
            usage : Nat, priced : BOOLEAN]

LedgerStates == {"running", "suspended"} \cup Terminal

TaskRow == [state : LedgerStates \cup {"none", "paused"},
            reason : {"none", "limit", "price"}, limits : [Kinds -> Nat],
            version : Nat, model_calls : Nat, tool_calls : Nat]

\* Every variable keeps its type.
TypeOK ==
    /\ control \in LedgerStates
    /\ worker \in {"gone", "opening", "working", "finishing", "closing"}
    /\ final \in [did : {"failed", "completed"}, saw : LedgerStates]
    /\ stopping \in {"no", "user", "leave", "interrupt"}
    /\ resumes \in Nat
    /\ retiring \in {"no", "claimed", "cancelled"}
    /\ row \in TaskRow
    /\ calls \in Seq(CallRow)
    /\ tools \subseteq Keys
    /\ elapsed \in Nat
    /\ priced \in BOOLEAN
    /\ pc \in [Callers \cup Requests ->
             {"idle", "gate", "granted", "sending", "using", "ended", "shown", "posted",
              "checked", "accepted", "polling", "listed", "read", "waiting", "stopped"}]
    /\ batch \in [Callers -> SUBSET Keys]
    /\ mine \in [Callers -> Nat]
    /\ seen \in [Posts -> Nat]
    /\ stale \in [Polls -> {"none"} \cup LedgerStates]

\* docs/task_budgets.md:13: main and sub-agents share one number of calls, and
\* no reservation takes it past its limit, retries and late titles included,
\* although each page, agent and process comes to the row on its own.
WithinLimit ==
    row.limits["model_calls"] > 0 => row.model_calls <= row.limits["model_calls"]

\* docs/task_budgets.md:14: a tool call counts once, however often it is brought
\* again after a resumption (reserve, INSERT OR IGNORE).
CountedOnce == row.tool_calls = Cardinality(tools) /\ row.model_calls = Len(calls)

\* docs/task_budgets.md:33: an unknown cost is not taken for none.  So a limit
\* on the cost never stands over a call whose cost is unknown, neither from
\* the start nor raised by a page nor through a price saved meanwhile.
CostIsKnown == row.limits["cost"] > 0 => ~Unpriced

\* A request is on its way only on a row of the table calls of its own, which
\* stays open or is marked unknown until it settles (gate, finish, settle).
SentIsReserved ==
    \A x \in Callers : pc[x] \in {"granted", "sending"} =>
        /\ mine[x] \in Rows
        /\ calls[mine[x]].agent = x
        /\ calls[mine[x]].state \in {"running", "unknown"}

\* A task that has been stopped, has failed or is suspended has no call pending:
\* none is left by finish and none comes after it.
EndedIsSettled ==
    row.state \in {"cancelled", "failed", "suspended"} =>
        \A i \in Rows : calls[i].state # "running"

\* docs/task_budgets.md:29: an old page cannot continue a wait that is over or
\* has been replaced.  So a pause is answered at most once.
OneAnswer ==
    \A r, q \in Posts :
        r # q /\ pc[r] = "accepted" /\ pc[q] = "accepted" => seen[r] # seen[q]

\* There is nothing in the tables before the task has its row.
EmptyAtFirst == row.state = "none" => row = NoRow /\ calls = <<>> /\ tools = {}

\* A request that was accepted has changed the version it had seen.
AcceptedIsPast == \A r \in Posts : pc[r] = "accepted" => seen[r] < row.version

\* A request for the usage finishes the row only with an end or a suspension.
ReadIsOver == \A u \in Polls : pc[u] = "read" => stale[u] \in LedgerStates \ {"running"}

\* What every step preserves, whatever the numbers of agents, calls and pages.
BudgetInv ==
    /\ TypeOK /\ EmptyAtFirst
    /\ WithinLimit /\ CountedOnce /\ CostIsKnown
    /\ SentIsReserved /\ EndedIsSettled
    /\ AcceptedIsPast /\ OneAnswer /\ ReadIsOver

\* The ledger and the budget end together: when the task has ended, its row does
\* not go on running, or waiting for higher limits, although the routes that
\* end a task leave the row (get_usage).
EndsTogether == control \in Terminal ~> row.state \notin Open
=============================================================================
