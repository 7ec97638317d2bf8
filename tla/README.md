# Ytools: a TLA+ model of the service

Ytools is a local AI assistant service: a FastAPI backend process, one worker
process per session that runs the model's tool loop, and state on disk that
both share (SQLite ledgers, JSON stores with file locks). This directory holds
TLA+ models of the parts whose correctness depends on the order in which
processes, coroutines and threads act, the TLC configurations that check them,
and proofs of their main invariants.

The first part, modelled here, is **tool execution under permission**: the
ledger of tasks, approvals and executions, the worker that claims and executes
tool calls, and the backend that starts, stops, resumes and retires tasks. It
is the core of the service: a tool call may write files or run commands, so
the code promises that a call is executed at most once, that a refused call is
not executed, and that nothing is lost when a process dies. The second part is
**admission of model calls**: the daily quota of an account and the lease on one
of the instance's model slots, which all processes take through one database.
The third is the **budget of a task**: limits on its tokens, cost, calls and time,
which agents and titles reserve against, pages raise, and every way a task ends
has to close. Three more parts are stores of files that several processes write:
the **input of a running command** (request and acknowledgement files), the
**version chains of the session's files**, and the **rounds of the chat history**
with the checkpoint a dead worker leaves behind. The last is the **stream of a
generation**, which pages read while it is written, from memory and from a journal.

## Inventory

| Component | State it keeps | Operations | Hard behaviour | What makes it correct |
|---|---|---|---|---|
| Permission ledger, `memory/permission_store.py` | SQLite tables: policies, tasks, checkpoints, approvals, executions | create, checkpoint, request, decide, resume, adopt, release, retire, claim, complete, suspend, sweep | two processes on the same rows; reads outside of the transaction that writes | one owner per task, one execution per call, one decision per request |
| Permission runtime, `factory/agent_runtime/permission_runtime.py`, `tool_control.py`, `permission_policy.py`; routes in `routers/tool_approval_router.py` | the batch in memory, tool threads | authorize, wait, begin, finish, close; decide, resume, give up | waiting for the user over restarts, cancellation while a thread runs | recorded results are replayed, unknown ones hold the task |
| Session worker, `factory/session_worker.py`; generation start and end in `factory/chat_factory.py`; shutdown in `main.py` | pipes, reader threads, event log | generate, stop, shutdown, terminate, idle exit | stop against start, orphaned workers, lost commands | no task is stranded, a stop ends |
| Task budget, `memory/task_cost_store.py`, `agent_runtime/task_costs.py` | SQLite: limits, versions, usage, reservations | reserve, settle, pause, continue, finish | concurrent agents of one task, a page that raises limits | no overspending, a pause is noticed, no reservation leaks |
| Model slots, `security/resource_limits.py`, `security/quotas.py` | queue and leases across processes | acquire, release, reap | fairness, cancelled waiters, dead holders | no more holders than slots, nobody starves |
| Command jobs, `agent_runtime/command_*.py` | job records, request and acknowledgement files, leases | start, read, write input, stop | retries, a writer thread without the lock, a runner killed between two files | input is written once and in order, a receipt is true, no body outlives the terminal |
| Responses chain, `chat/protocols/responses_store.py` | slots: planned, running, completed, unknown | plan, run, record, rewind | resumption with half-run slots | the chain agrees with the ledger |
| File versions, `memory/file_history.py`, `file_snapshots.py` | per file a chain (`meta.json`) and its snapshots, per session an index | record, undo and keep hunks, roll back, save, sync, keep and revert all, delete, clean up | tools and other programs write the file meanwhile; meta, snapshots, index and file are four writes | a history only grows, what it lists can be read back, nothing unknown is overwritten, the index is current |
| Round store, `memory/chat_round_store.py`, `chat_memory.py` | the history, the checkpoint `.pending`, the copy in the ledger | begin, event, complete, stop, recover, resume, replace, insert, delete | five places may finish a dead worker's round; rounds are named by number | a round enters the history once and is not lost |
| Stream replay, `_SessionStream` in `factory/chat_factory.py`, `agent_runtime/stream_replay.py` | the last frames in a deque, all of them in a journal, a count of readers | emit, start of the round, attach, read, wait, notify, finish, release | a thread writes while pages read, wait and leave; two ways to name a place in the stream | no frame is lost or seen twice without a warning, nobody sleeps over the end, the journal is closed |
| File locks, `util/file_lock.py`, `atomic_json.py` | lock files | lock, replace | crashed holders | mutual exclusion |

The rest (sub-agents, migration and backup, accounts, file memory and built-in
tools, model clients and document parsing, the frontend, scripts) is listed in
`PROJECT.json` with the reason why it is not modelled.

How they interact: the backend starts a worker and talks to it over a pipe
(commands one way, events the other). Both open the same ledger. The worker
reserves budget and a model slot for each model call, runs tools through the
permission runtime, and writes the round store; the page reads the events from
the stream replay and answers requests through the routes, which write the
ledger the worker polls. A worker that loses the pipe suspends its task and
exits; the next backend finds the task in the ledger.

## Plan

1. *(done)* `PermissionStore`, `ToolPermission`, `ToolOnce`, their proofs, and the proof
   that the one implements the other.
2. *(done, for chat tasks)* `TaskBudget`, its invariants proved.
3. *(done)* `ModelSlots`: the limits proved, absence of starvation by TLC.
4. *(done)* `CommandInput`: its safety properties proved, the order of delivery too.
5. *(done)* `FileHistory`: all its properties proved.
6. *(done)* `RoundHistory`: that no round is written twice, proved for behaviours without the
   known weaknesses; that none is lost, proved as long as the history can be written and no
   worker outlives its backend.
7. *(done)* `StreamReplay`: its safety properties proved.
8. *(done)* `OneRecoverable`, proved for instances without stops (with them the code does
   not keep it). *(done)* `ToolPermission` with late adoptions: everything proved up to the
   first one, and for ever where no backend dies before its worker; a run shows what breaks
   behind it. *(open)* What still holds of the calls behind it.
9. *(open)* The second cancellation in the `finally` block and several batches per
   task in `ToolPermission`; `ModelSlots` composed with `TaskBudget`; a stream that is
   replaced by the next one.

## Modules

| Module | What it is |
|---|---|
| `PermissionStore` | the tables of the ledger and one operator per transaction on them |
| `ToolPermission` | the processes around the ledger: worker, backend, user, faults; the properties |
| `ToolOnce` | abstract specification: what the ledger promises for each call |
| `MCToolPermission` | the module TLC runs, with what the documents say and the code does not keep |
| `ToolPermissionInv` | the three inductive invariants |
| `ToolPermissionSteps` | lemmas: every step keeps the types, the ownership, the state of the calls |
| `ToolPermissionProofs` | claims and the tasks they hold, the refinement, requests and grants, the snapshots, and the theorems |
| `ModelSlots` | reservations, the queue and the leases of model calls, and the coroutines and threads around them; the properties |
| `MCModelSlots` | the module TLC runs, with a promise the code does not keep |
| `ModelSlotsInv` | the inductive invariants |
| `ModelSlotsProofs` | their proofs, and the theorems |
| `TaskBudget` | the row of a task with its calls and tools, the agents and titles at the gate, the generation, the routes; the properties and the inductive invariant |
| `MCTaskBudget` | the module TLC runs, with a promise the code does not keep |
| `TaskBudgetProofs` | the proof of the invariant, and the theorems |
| `CommandInput` | the request and acknowledgement files of a command, senders, writer thread, runner and stop; the properties and the inductive invariant |
| `MCCommandInput` | the instance: three calls of `send`, and a promise the code does not keep |
| `CommandInputProofs` | the proof of the invariant, and the theorems |
| `FileHistory` | chains, snapshots, index and files; every operation step by step, tools and other programs, deaths; the properties and the inductive invariant |
| `MCFileHistory` | the instance: what tools and other programs write |
| `FileHistoryProofs` | the proof of the invariant, and the theorems |
| `RoundHistory` | the history and the checkpoint file, workers and backend, the requests for places; the properties and the inductive invariant |
| `MCRoundHistory` | the instance, and a promise the code does not keep |
| `RoundHistoryProofs` | the proof of the invariant, and the theorems |
| `StreamReplay` | the stream of a generation with its deque and journal, the request that starts it, the pages; the properties and the inductive invariant |
| `MCStreamReplay` | the instance |
| `StreamReplayProofs` | the proof of the invariant, and the theorems |

### Correspondence

*Ledger.* `task[t]` is a row of `tasks` (state, `owner_pid`, `epoch`), `ckpt`
the rows of `checkpoints`: pairs of a task and an agent key, `config:main` for
the configuration the task was started with and `main` for the snapshot it can
be resumed from (`Saved`). `appr` are the rows of `approvals`, `exec[t][c]` the
row of `executions`, `policy` the mode of the session. The code
draws a fresh uuid for each epoch and compares epochs for equality only; the
model counts them. `alive` is what `pid_alive` reports.

*Worker.* `rt[p]` is what process p executes: `pc` is where
`_run_chat_generation` is (`starting` before the `try` whose `finally` closes the
task, `ready` before authorize, `batch`, `cancelling` in
the CancelledError handler, `finally`, `closing`, `leaving` after the command
loop), `task` and `epoch` are those of its `PermissionRuntime`, `call[c]` where
a call of the batch is. `inflight` are the tool threads, which a cancelled
generation leaves running. `cmd[p]` is the command in the pipe of worker p, which may
outlive the backend that sent it, and `sig[p]` the stop or the end of the pipe.

*Backend.* Each coroutine that awaits has a variable for what it holds over the
await: `res` (a resumption between its claim and its dispatch), `watch`
(`wait_worker`), `poll` (`resume_approval` waiting for the fresh request), `chat`
and `todo` (a new message), `stop`. `dec` is a decision between the SELECT and the
UPDATE of `decide`: the event loop runs nothing else there (`LoopFree`), but a
worker does, and so do the routes that run in threads.

| Action | Code |
|---|---|
| `StartNew`, `AdoptResume` | `PermissionRuntime.__init__` (create_task, adopt) |
| `Bind`, `Abandon` | from there to `bind_config`, or an end before the `try` that closes the task |
| `Authorize`, `AutoApprove`, `Settle` | `authorize` with `wait` |
| `CheckCall`, `ClaimCall` | `begin_call`: the reads, then the INSERT of `claim_execution` |
| `StartBatch`, `RunTool`, `FinishCall` | the loop over the batch, the thread pool, `finish_call` |
| `Complete`, `FailRound`, `Interrupt`, `Unwind`, `ReadState`, `Close` | the end of a generation, handler by handler |
| `LeaveLoop`, `ExitWorker`, `CrashWorker` | the end of the worker process |
| `StartBackend`, `CrashBackend`, `BeginShutdown`, `SendShutdown`, `FinishShutdown` | the backend process and its shutdown handler |
| `Sweep` | `pending()`, as polled by a page |
| `ResumeTask`, `ResumeByDecision`, `DispatchResume`, `FailDispatch`, `ReleaseUnadopted` | `resume_permission_task`, `resume_approval`, `_start_session_generation`, `wait_worker` |
| `DecideLive`, `PollDecide`, `DecideWrite`, `PollTimeout`, `SetPolicy` | the decision routes (the reads, then the UPDATE of `decide`) and the mode |
| `MsgBegin`, `MsgTimeout`, `MsgRetire`, `RetireOne`, `RetireFail`, `DispatchNew` | `_prepare_chat_stream` and `_retire_interrupted_tasks` |
| `StopBegin`, `StopTimeout`, `StopCollect`, `StopOne`, `StopFinish` | the stop button and `cancel_task` |

*Model calls.* `quota[c]` is the row of `account_usage`; `waiting`, `running` are the
rows of `model_slots` by state, `ahead` the order of their `created` times, `sooner`
that of the `admitted` times of `model_fairness`. `pc[c]` is where `ModelMeter.start`,
`acquire` and `settle` are; `thr` are the transactions that `asyncio.to_thread` has
handed to a thread, which a cancellation of the coroutine does not stop. A
`cancel_start` is two transactions of one thread (`cancel`, then `free`). `sent` is
`network_started`.

| Action | Code |
|---|---|
| `Start`, `ReserveThread` | `ModelMeter.start` up to the quota; `quotas.reserve` in its thread |
| `PassGate`, `Stop` | `BudgetTracker.gate` lets the call pass; the gate or `acquire` finds the task stopped |
| `Poll`, `AttemptThread` | one turn of the loop of `acquire`; `attempt` in its thread |
| `Cancel` | a cancellation at any await of `start`, `acquire` and their clean-up |
| `ReleaseThread`, `CancelThread`, `FreeThread` | the clean-up: `release` of `acquire`, then `cancel_start` |
| `Send`, `Settle`, `Release` | `network_attempt`; `ModelMeter.settle`: the quota, then the row |
| `Renew` | the next round or retry, under a new identifier |
| `Crash`, `Disable` | a process dies; an administrator disables an account |

*Budget.* `row` is the row of the table `tasks` of `task_costs.sqlite3`, `calls` and
`tools` the rows of the other tables that belong to it. `control` is the state of the
same task in the permission ledger, another database: `worker`, `final`, `stopping`
and `retiring` are what is needed of `ToolPermission` to tell the order in which the
two are written. `pc[x]` is where an agent, a title or a request of a page is:
`gate` in the loop of `gate`, `granted` once `reserve` has let a call pass,
`sending` on the network, `using` in a batch of tools; a request to continue goes
`shown`, `posted`, `checked`, `accepted`, one for the usage `polling`, `listed`,
`read`, one to stop `waiting`, `stopped`. `mine[x]` is `ModelMeter.id`, `seen[r]` the
version a page answers, `stale[u]` the state `get_usage` has read from the ledger.

| Action | Code |
|---|---|
| `AskModel`, `AskTools` | `ModelMeter.start` before the gate; the gate of `authorize` |
| `PassModel`, `PassTools`, `Pause`, `Refuse` | the outcomes of one turn of `gate`: `reserve` allows, pauses, or the gate raises |
| `Send`, `NotSent` | the slot is there; `cancel_start` |
| `Answered`, `Retry`, `Broken` | `ModelMeter.settle` at the end of a call, in `network_attempt`, after an error |
| `OpenTask`, `FailOpening` | `create_task` in `_run_chat_generation`, or an error before it |
| `Leave`, `FinishTask`, `CloseTask` | the `finally` block: it reads the ledger, finishes the row, closes the task |
| `Suspend`, `Resume`, `GiveUp` | `suspend_session`, `resume`, `cancel_task` |
| `Claim`, `RetireTask`, `RetireBudget`, `Unclaim` | `_retire_interrupted_tasks`, ledger and row |
| `Show`, `Post`, `Check`, `Continue`, `RefusePost` | a page and the route `continue` |
| `Poll`, `List`, `ReadControl`, `FinishStale` | `get_usage`, statement by statement |
| `StopTask`, `Terminate`, `StopSaved`, `StopRow` | the route `stop` |

*Input of a command.* `files` are the files of `requests/`, oldest first, `ack` those
of `acks/` (a status and a fingerprint), `outcome` says whether the runner's outcome
file exists, `lock` who holds `cross_process_lock` of the terminal. `call[s]` is where
a call of `send` is and `told[s]` the `input_status` it has seen; a retry is another
call with the same id. `wpc`, `queue`, `taken` are the writer thread (`serve`), `rpc`
the runner (`run`), `spc` a `stop_command` from outside, `sweep` what
`finish_pending` has listed. `born` and `delivered` are there for the properties.

| Action | Code |
|---|---|
| `Call`, `SeeAck`, `SeeRequest`, `ReadRequest`, `SeeLive`, `WriteRequest` | `send` under the lock, one look at the files per step |
| `Poll`, `WaitEnds` | the second it waits for the acknowledgement |
| `List`, `Take`, `Mark`, `Unlink`, `Deliver`, `Accept`, `DeliverFails` | `serve`: list, read, acknowledge `writing`, unlink, write to the child, acknowledge the end |
| `Cancel`, `Terminate`, `SeeExit`, `Join`, `WriteOutcome`, `RunnerPending`, `RunnerErases`, `RunnerGone` | `run` of the runner from the command's end to its own |
| `StopKills`, `StopPending`, `StopErases`, `StopEnds` | `stop_command` |
| `SenderDies`, `LockTimeout`, `RunnerLockTimeout`, `Killed` | deaths and timeouts |

*File versions.* `chain[k]` is `meta.json` of file k (versions, generation, locked
generations), `snap[k]` its snapshot files by name, `index` the entries of `index.json`
and `indexed` whether it exists, `disk[k]` the file itself. `op` is the operation that
holds `_session_lock`: where it is, the chain it is going to save (`chain`), the
version it stores next (`at`), what it writes to the file (`goal`) and whether
somebody has written the file since its identity was taken or last compared (`stale`).
`pending` are tool changes that are made and not yet recorded.

| Action | Code |
|---|---|
| `HunkUndo`, `HunkKeep`, `Rollback`, `UserSave`, `SyncFromDisk`, `Keep` | the functions of those names, up to their first write |
| `Batch`, `NextItem`, `ThenClean` | `keep_all`, `revert_all`, `cleanup_file_histories`, file by file |
| `RecordChange` | `record_change` |
| `ReadDisk`, `AppendVersion`, `RecomputeTotal`, `CheckVersion`, `Replace`, `SaveMeta`, `RefreshIndex` | `_disk_state`, `_append_version` with `write` of the snapshots, `_recompute_total`, `_assert_file_version`, `_replace`, `_save_meta`, `_refresh_index` |
| `DeleteFileHistory`, `RemoveSome`, `RemoveRest`, `DropEntry` | `delete_file_history` and the removal of a directory |
| `ToolWrite`, `OtherProgram` | writes without the lock |
| `BackendDies`, `WorkerDies` | a death between two steps; `torn` remembers the histories a removal has left without snapshots |

*Rounds.* `history` are the rounds of the JSONL file (`id`: which round, `at`: the start
time it bears), `pend` the checkpoint file `.pending` (round, `writer_pid`, place),
`task[r]` the ledger's row of the task that generates round r with the copy of the
round it has saved (`round`). `worker[p]` is a worker process with the manager of its
generation: round and place in memory. `main` is the backend's manager, `op` what the
backend does for the session, one request at a time. A place is the end of the history,
that of a round to replace, or one to insert after.

| Action | Code |
|---|---|
| `Begin`, `BeginResumed` | the start of a generation: a new manager recovers, `set_target_round`, `set_insert_round`, or the resumption of a saved round |
| `Open`, `Event`, `SaveTask` | `_write_pending_checkpoint` at the first and at later events; the ledger's checkpoint |
| `Complete`, `Halt`, `Quit`, `Suspend`, `Close`, `Clean` | `add_chat_history` with the last event, `stop_current_round`, and the `finally` block |
| `Look`, `Launch` | a manager of the backend is made, or looks again, and recovers the round of a dead writer |
| `Send`, `FinishSaved`, `Cancel` | a message: `_retire_interrupted_tasks` with `finish_saved_permission_round` |
| `Stop`, `StopRound` | the stop button |
| `Resume`, `Delete`, `Cut` | `resume_permission_task`; the deletion of rounds with its rehearsal |
| `Crash`, `Restart`, `Leave` | deaths of worker and backend, the end of an idle worker |

*The stream of a generation.* `deque` holds the last frames, each with the offset in the
journal behind it, `seq` counts all, `journal` is `StreamReplayJournal` (a frame is a
record; an offset is a number of records, where the code counts bytes), `complete` is
`_replay_complete`, `readers` `_replay_readers`. `round` is where the first round began,
which is where a page that attaches later starts. `phase` is how far the request has
come that starts the generation, `creator` its page. `page[c]` is a call of
`tool_chat_server` or its attaching twin: where it is, the next frame and offset
(`seen`, `offset`), what it was told of the replay (`told`), and what it got (`got`,
`gap`). `called` are the calls of `notify` on their way to the event loop. `final` and
`failed` are there for the properties.

| Action | Code |
|---|---|
| `StartWarning`, `Bind`, `StartFails`, `StartFailed`, `Create` | the start under the session's guard, with its warning or its error, up to the page of the request |
| `Frame`, `Round` | the thread that reads the worker's events: `emit` with `notify_threadsafe`, `set_round_start` |
| `Notify`, `Finish` | the event loop: `notify`, `finish` |
| `Attach` | a page without a message, under `acquire_replay` |
| `Read`, `EndReplay`, `GoLive`, `Wait`, `Heartbeat` | the loop of a page: `read_replay`, `replay_end`, the wait with its timeout |
| `EndPage`, `Leave` | the end of the page, or its cancellation: `release_replay` |

A step is the code between two points where another process, or another
coroutine of the same process, can act: an `await`, or the gap between the reads
of `claim_execution` and its INSERT, and between those of `decide` and its UPDATE.
What a backend coroutine does without an
`await` in between is one step, because nothing else of the event loop runs and
each statement on the ledger is a transaction; a worker that acts in between is
covered only where the two touch the same rows, and there the steps are split.

### Abstractions

- A task executes one batch of calls. The calls are numbers, in the order of
  the batch; `Risky` are those whose plan needs approval in mode `ask`,
  `External` the MCP calls, which are claimed in order and run together.
- One session. One stop or give-up request and one waiting decision at a time,
  at most one message on its way; a pipe holds one generate command.
- A worker without a backend makes no forward progress: the model lets it only
  take up the command that is still in its pipe, write a claim it has checked,
  finish its tool threads, and wind down. In the code the loss of the pipe cancels
  the generation at its next await, and commands come before the end of the pipe.
- `adopt` changes the owner of a running task whatever its owner and its epoch are
  (`memory/permission_store.py:483`), and so does `AdoptResume`. `contested` remembers the
  tasks of which a worker has taken the ownership from another process that has adopted
  or resumed them (`Contested`, a late adoption); it guards nothing. The run `doc_rerun`
  shows what the code does then, the theorems say what holds before (`Uncontested`).
- `Bind`, `Authorize` and the claims are guarded by `Attached`: a worker that finds the end
  of its pipe cancels its generation at the next await (`factory/session_worker.py:386`).
  It may come a little further in the code, if the pipe ends between two awaits of
  the start; the claim it has checked already is the step of that kind the model has.
- A pid is not reused (`Pids` are used up); see the hazards.
- `MsgTimeout` and `StopTimeout` may happen at any time while the generation
  runs, sooner than the timeouts of the code: more behaviours, not fewer.
- Left out: preview tasks, the `delegating` state of sub-agents, the inline mode
  without a worker process, the budget of a task (an await of the round), the caches of provider results, message injection,
  deletion and import of sessions, and a second cancellation inside the finally
  block.

For the model calls:

- A call is one unit of the day's quota; tokens are counted by the same code and
  are not modelled, nor is the change of day. The limits do not change in a run.
- Two rows never have the same `created` time and two accounts never the same
  `admitted` time (the code then falls back on the identifiers); an account that
  was never admitted has none, and precedes the others.
- The task's budget is a step that may or may not let the call pass.
- The synchronous variants (`start_sync`, `acquire_sync`) are the behaviours in
  which a thread ends before anything else happens to the call and no
  cancellation comes.
- A dead process is known to be dead at once, and pids are told apart by the birth
  of their process, as `process_identity` does.
- Left out: errors of the database and the storage quota.

For the budget:

- One task. A call has one number of tokens, which are also its cost if the model
  has a price; before it settles it counts one (the estimate of its input). Kinds
  of tokens, roles, sources and earlier totals of the session are left out.
- Time is `Tick`: the seconds a task runs and is not paused. The time spent waiting
  for approvals, which `reserve` takes off, is time that does not pass.
- `batch` and its tool calls: a resumed task may bring any of the calls it has
  brought before.
- The slot and the quota are those of `ModelSlots`; here `Send` may come at any time.
- The state of a generation is reduced to its order with the row: `Leave` stands for
  the round and its exception handlers. That a stop without a snapshot leaves the
  ledger alone is the choice in `StopSaved`.
- The price of a call is read just before the transaction of `reserve`; the model
  reads it in the same step, since nothing else depends on when the price changes.
- Left out: the configuration routes (a task copies its limits once), tasks of manual
  compaction, `update_round`, and deleting a session.

For the input of a command:

- The limit on requests per terminal has the effect of a refusal before the file is
  written, which `SenderDies` has too; the instance does not reach it.
- No two request files have the same time (`serve` then orders them by name).
- The owner's death, the deadline, the cancel file and a signal are one action, `Cancel`.

For the file versions:

- A file is a text per region and whether it exists; encodings, line ends and the diff
  are left out. A hunk is a region in which baseline and latest version differ.
- Rounds are left out: `to_round` of a roll-back is one of the versions.
- A "\n" that `hunk_undo` may leave in a file it makes (`memory/file_history.py:336`) is part of
  the texts and left out with them.
- Building an index that is missing is one step. The directory of a history is removed
  in two steps, the meta file in the first or in the second, or not at all (`"rmtree"` in
  `Faults`: `shutil.rmtree` is told to ignore errors); its entry in the index is dropped
  in every case.
- A snapshot no version names is left out as soon as the operation that wrote it has ended
  (`Named`): nothing reads it, and its name is written anew before a version has it.

For the rounds:

- A write under the lock of the session is one step; a death between its two files is a
  failed write or removal of the second one.
- A round that repeats the message of the one it replaces keeps that one's start time;
  the model leaves open whether it does. A place is taken from the history as the
  files show it when the message is sent.
- Left out: more than 128 sessions in memory, `truncate_rounds_for_reanswer`, and the
  contents of rounds.

For the stream of a generation:

- One stream. A frame is its number; a page that is loaded again is another page.
- The state of the generation is reduced to its frames: any number up to `MaxFrames`, the
  end at any moment, and frames after it, as a worker may still send some.
- A journal that cannot be written or read fails at any frame, as often as it likes.
- Left out: the stream of the next generation and what comes late for it (a `task_done` or
  `no_task` of the old one, see `factory/session_worker.py:580`; the end of an old reader
  thread); an error frame after a crash; a creation that is cancelled once the stream
  exists, which then is never done; the resumption of a task, which takes no start
  guard; messages put into a running generation; the inline mode.

Some variables are there for the properties: `saved` (rounds whose checkpoint has been
written), `gone` (rounds that have left the history), and marks of what has happened.

`failed` is set when the history cannot be written as a round is finished, by whichever of the
steps that do so, and when a backend dies over a living worker. `NotLost` is stated of
the behaviours before that, whatever else goes wrong: checkpoints that cannot be written
or removed, deaths of workers, deaths of the backend without a living worker, places
that have moved, and the weaknesses below.

`stale` and `weak` mark the behaviours in which the code is known not to keep
`NoDuplicates`, which is stated of all others (`Sure`). `stale` is set when the place of a
replacement that somebody still holds, or the number of a round to delete, has got another round
(`Displaced`), or when a round leaves the history while a checkpoint of it stays
(`Forgotten`). `weak` is set

- in `BeginResumed`, when `.pending` holds another round than the ledger's, the ledger's
  is in the history already, or another living worker has it (both were dispatched, and
  `adopt` lets both go on);
- in `Open`, `Event`, `Complete`, `Halt`, `Clean`, `FinishSaved`, when they overwrite or
  remove a checkpoint of another round that is not recorded;
- in `Complete`, when the history cannot be written after the checkpoint is gone;
- in `Look`, `Launch` and `Begin`, when a new manager may recover a round that a living
  process has under the name of an old writer (`Foreign`);
- in `FinishSaved` and `StopRound`, when a stop finishes the round of a living orphan.

## Runs

`Faults` and `Requests` say what may happen in a run: the faults of the
environment and what the user may do beside sending messages. Each run takes
those that its question needs. Exploring all of them together is out of reach,
and the proofs cover them together.

| Run | Instance | What it shows |
|---|---|---|
| `executions` | 1 task, 3 calls (one risky, two MCP), 3 pids, 3 epochs; worker and backend crash, shutdown, failed dispatch, late decisions, mode switches | `AtMostOnce`, `UnknownHoldsTask`, `ClaimsAreGranted`, `ClaimsAreCurrent`, `DenialsStand`, the inductive invariant `IInv`, and that the ledger implements `ToolOnce` (`ImplementsOnce`) |
| `session` | 2 tasks, 1 risky call, 4 pids, 2 epochs; backend crash, errors | `OneRecoverable`: at most one task of the session to come back to |
| `progress` | 1 task, 1 risky call, 3 pids, 2 epochs; every kind of process fault, late decisions, shutdown, stop requests; fairness | `StopEnds`, `NoStrandedRunning`, `SuspendedIsFreed` |
| `served` | 2 accounts, 1 slot, 3 calls of which one renews without end, 1 call a day for the other account, 2 processes of which 1 may die, 1 account that may be disabled, 1 cancellation of each call; fairness | `InstanceLimit`, `LeaseIsReleased`, `SentIsCharged`, `DailyLimit`, `Served` |
| `budget` | 1 agent with 1 tool call, 1 title, 2 requests to continue; any one kind of limit; prices that come and go; a worker that dies, 1 resumption, 2 model calls | `WithinLimit`, `CostIsKnown`, `OneAnswer` |
| `budget_end` | 1 agent, 1 request to continue, 1 page that asks for the usage, 1 request to stop; deaths of both processes, stops, shutdowns, giving up, a new message, 1 resumption, 1 model call; fairness | `EndedIsSettled`, `EndsTogether` |
| `inputs` | 3 calls of `send` (a request, its retry, a second request), a terminal or pipes, every fault; fairness; 984,550 states | `DeliveredOnce`, `InOrder`, `AcceptedIsDelivered`, `NothingIsLeft`, `ServedOrErased` |
| `files` | 1 file of 2 regions, chains of up to 4 versions (3 for tools), 1 tool change on its way, both deaths, a full quota and removals that leave files; 3.1 million states | `SnapshotsAreTrue`, `DiskIsKnown`, `HistoryGrows` |
| `rounds` | 1 round in the history and 2 to come, 2 workers, every request and fault; 2.1 million states | the inductive invariant `RoundInv`, `NoDuplicates`, `NotLost` |
| `streams` | the page of the request and one that attaches, 4 frames, a deque of 2; a start that fails, a journal that cannot be written or read; fairness | `InOrder`, `GapsAreFaults`, `JournalIsReleased`, `KeepsUp`, the inductive invariant `StreamInv` |
| `doc_rerun`, `doc_lost` | see below | refuted |

Where a run checks an inductive invariant, its parts are checked with it: the types, and
`RefusedNeverRuns` in `IInv`. The other inductive invariants (`SlotInv`, `BudgetInv`,
`InputInv`, `FileInv`), and the properties that follow from them alone (`AccountLimit`,
`CountedOnce`, `SentIsReserved`, the types), are proved and no run repeats them.

Why the bounds are enough to be of use: two epochs are what it takes for an old
and a new execution of a task to meet. Four pids are a backend, its worker, the next
backend and its worker: the smallest number with an orphan beside a working process. Three
calls, two of them MCP, give a call that is waited for, one claimed and not yet started,
and one started. Deadlock is not checked, since the bounds on pids, tasks and
epochs let every run come to an end.

In `served` two accounts compete for the one slot of the instance, and the two calls of
one account for the one call of its day. One call renews without end, since a call can
only starve if others keep coming. `MaxCancels` bounds the cancellations of one starting
call, `Crashing` and `Disabling` the processes and accounts that may fail, `Renewable`
the calls that are made again.

In `budget` each kind of limit is reached by one or two calls: the limits are one, a
page raises them to two or takes them away, and a call that settles at zero or one
token lands on both sides. An agent and a title are two processes at one gate; two
requests to continue are what it takes for one to answer another's pause. `MaxCalls`,
`MaxElapsed` and `MaxUsage` bound the calls of a run, its time and the tokens of a
call; `Events` says what may happen. In `budget_end` the amounts do not matter, so
there is one call and a limit on calls; the interest is in the order of the two
databases, with every event but a change of prices. Both come to an end, so deadlock
is not checked.

`Tasks`, `Calls`, `Pids`, `Risky`, `External` are the size of the instance;
`MaxEpoch` bounds resumptions and retirements, `Spare` the number of processes.
No symmetry is used there: `Fresh` and `NewTask` choose their value. `budget` uses the
symmetry of the two requests to continue, which nothing tells apart and which has only
invariants to check.

In `inputs` a retry meets every step of the writer with the request it repeats, and the
third call gives a second request to be overtaken. In `files` two regions with two
values each are what tells a hunk from its file; `MaxChain` and `MaxVersions` bound the
operations of the pages and of tools (512 in the code), and four versions are enough
for a kept generation, a change in the next one, its undo and a text that
returns. In `rounds` three rounds give one to replace, one that replaces it and one that
comes between; `Inserts = {0}` lets rounds be inserted before the first only, where
every other number moves. The constraint `InsertsAreSure` lets a behaviour go on behind a known
weakness as long as nothing has failed, and behind a failed write as long as no weakness
is met, in both cases without insertions: `NoDuplicates` says nothing behind the first
and `NotLost` nothing behind the second. The symmetry is that of the two workers, which
only invariants are checked of. All three come to an end, so deadlock is not checked.

In `streams` four frames over a deque of two (`Buffer`, 20,000 in the code) let a page fall
behind the deque, read the journal, come back to the deque and fall behind again.
The page of the request reads all frames, the other attaches at any moment, before or
after the first round has begun. A stream comes to its end, so deadlock is not checked.

### Fairness

`FairSpec` adds weak fairness, action group by action group, for what the
code's scheduling guarantees while a process lives: the event loop runs a ready
coroutine and its threads finish, the reader thread notices a closed pipe or a
queued stop, an idle worker leaves in the end, and the timeouts of the waiting
handlers (15 s for a fresh request, 8 s for a shutdown, the wait for the worker)
expire. Two assumptions are about the outside: a backend that has died is started
again (`StartBackend`), and an open page polls the pending requests (`Sweep`).
Nothing is assumed of the user's decisions or of the faults: they may happen
or not. A group is weakly fair as a whole where one coroutine runs it, so
that the fairness does not choose between its alternatives.

For the model calls `FairSpec` assumes that a transaction in a thread ends, that the
0.15 s between two attempts pass, and that a request ends (the clients read with
a timeout) and is settled. Nothing makes a call start, pass the gate, be stopped or
be cancelled.

For the budget `FairSpec` assumes that a generation that has come to its finally block
gets through it (both writes are synchronous) unless its process dies, that a
retirement that has ended the task finishes its row unless the backend dies, and that
an open page asks for the usage again while the task is running or paused, as it does
every three seconds (`H5/js/app/task_costs.js:214`). The last is what closes the budget
of a task that a stop, `cancel_task` or a death has ended in the ledger alone. Nothing
is assumed of the agents, of users or of faults.

For the input of a command `FairSpec` assumes that senders, the writer thread, the runner
and a stop take their next step as long as their process lives. It does not assume that
`Deliver` happens: a child need not read its input. Then the deadline of the command, or
the lease of its owner, ends it, which is why `Cancel` is one of the runner's fair steps.

For the stream `FairSpec` assumes that the event loop runs a scheduled `notify` and that a
page that stays takes its next step. Nothing is assumed of the worker's frames, of the
end, of pages that leave, or of the heartbeat: `KeepsUp` does not need it.

### Where the code does not do what a document says

Each of these two runs is refuted by TLC, with the shortest behaviour it finds.

- `doc_rerun`: a backend resumes a task, hands it to its worker p3 and dies before the worker
  has read the command. The next backend finds the owner dead and resumes the task again for
  its worker p5, which adopts it; then p3 reads its command and adopts it as well, since
  `adopt` (`memory/permission_store.py:483`) asks only whether the task runs. p3 is the
  owner now, and dies, while p5 goes on and has just passed the checks of
  `claim_execution` when its backend dies too. A third resumption finds the owner dead and
  no claim, and p7 adopts the task under a new epoch; p5 inserts its claim and runs the
  tool, and p7, which finds a record of the call, skips the claim
  (`agent_runtime/permission_runtime.py:423`) and runs it again. The message at
  `memory/permission_store.py:332` and `docs/tool_permissions.md:66` say that such a call is
  not run again. A comparison of the epoch in `adopt` would close it. Shorter ways are
  conceivable where an orphan gets further than the model lets it (`Attached`).
- `doc_lost`: `add_chat_history` removes the checkpoint of a round with its last event
  before it writes the history (`memory/chat_memory.py:1596`); when the write is refused
  after its retries, the round is neither in the history nor in the checkpoint nor in
  memory, although `_recover_pending_round_checkpoint` promises that nothing of an unfinished
  round is lost. `_finish_current_round` has the other order.

More were met while modelling. The properties of the following are in the MC modules
and are refuted in the same way, but have no run of their own. To see a
counterexample put the property into a configuration of the module in place of its own:
those of `MCToolPermission` into `DocRerun.cfg` with four `Pids`, `Risky = {1}`, `MaxEpoch = 3`,
`Faults = {"worker", "backend", "idle", "dispatch"}` and `Requests = {"decide", "resume"}`
(with `"mode"` for `DeniedIsNotClaimed`, `{"resume", "stop"}` for `StopClearsSession` and
`EndedHasNoSnapshot`, `{"shutdown"}` for `UnansweredStaysOpen`), `LeaseIsReleased` and `UnsentIsReleased` into `MCServed.cfg` with
`MaxCancels = 2`, `ResumedMaySpend` into `MCBudgetEnd.cfg` with `SPECIFICATION Spec`, no
`Posts`, no `Stops` and `Events = {"leave"}`, and `OneTextPerId` into `MCInputs.cfg` with
`TextOf <- MCOtherTexts`.

- `DeniedIsNotClaimed`: `decide` reads a pending request and then writes its denial
  without a condition (`memory/permission_store.py:374`); full control's automatic
  approval can come in between, and the call is executed while the ledger and the page
  say denied, against `docs/tool_permissions.md:114`. The opposite order, an approval
  over a denial, cannot happen, since the automatic approval is conditional
  (`DenialsStand`).
- `LeaseIsReleased` with two cancellations: the clean-up of `acquire` first waits for the
  attempt on its way (`security/resource_limits.py:151`). A second cancellation ends that
  wait and skips the release, and the attempt then inserts its row after
  `cancel_start` has deleted it. The row stays until the process dies, against
  `docs/account_storage.md:58`; if it is the first of its account, nobody else is
  admitted. With one cancellation a call leaves nothing behind (run `served`, theorem
  `LeaseReleased`).
- `OneTextPerId`: a sender that looks for the acknowledgement of its id before it is
  written, and for the request file after it is unlinked, finds neither and writes its own
  text under the id; the writer discards it as acknowledged, and the sender is told
  `accepted` for a text the command never got. `docs/terminal_management.md:25` says that a
  repeated id with another content is refused. `AcceptedIsDelivered` is proved for
  callers that give one id one text.
- `FailedIsReleased`: `resume_task` releases its claim after a failed dispatch only if
  the task still runs; a worker that left meanwhile has suspended it, and the
  living backend stays its owner, against `docs/tool_permissions.md:110`. For this
  reason the run `progress` resumes tasks by decisions (`resume_approval`, which
  releases always) and not by the resume button: with it, `SuspendedIsFreed` is
  false.
- `NewTaskWaits`: a new message cancels a suspended task and its snapshot
  (`_retire_interrupted_tasks`), while `docs/tool_permissions.md:64` says that a
  suspended task keeps new tasks of the session out until it is dealt with.
- `EndedHasNoSnapshot`: a resumed worker saves the snapshot of a task that a
  concurrent stop has cancelled, and dies: the snapshot of an ended task stays,
  against `docs/tool_permissions.md:74`.
- `StopClearsSession`: a stop passes over a task that died before its first snapshot;
  the session then still has a suspended task, and the import refuses with
  "stop or give up the task first" (`memory/permission_store.py:256`).
- `UnsentIsReleased`: a cancellation while `quotas.reserve` runs in its thread leaves
  the day's reservation of a call that was never sent, against
  `docs/security_implementation.md:32`.
- `ResumedMaySpend`: `get_usage` reads that the ledger has suspended a task; the worker
  leaves and the task is resumed, and then `get_usage` gives the row the state it has
  read. The resumed generation is refused at its next gate, although a task with a
  snapshot is to be resumed first and its budget dealt with after that
  (`docs/task_budgets.md:35`). A worker that dies between `finish` and `close` has
  the same effect, since `create_task` leaves a finished row as it is.
- `UnansweredStaysOpen`: a shutdown suspends the task in the ledger (`main.py:69`) before the
  worker knows of it; the waiting worker takes that for a refusal and records
  it (`agent_runtime/permission_runtime.py:311`, 403), so the request that
  `docs/tool_permissions.md:54` promises to ask again is never asked again.
- `ReplayIsWhole`: frames that come while a page is sent `replay_end`, and the end of the
  stream right after them: the loop then looks at `done` alone and leaves without them
  (`factory/chat_factory.py:3392`), although the page was told that the replay is whole.
  It is in `StreamReplay` and is refuted in place of the properties of `MCStreams.cfg`.

`EndedHasNoSnapshot` comes from `memory/permission_store.py:295`, where the snapshot is saved
without a look at the task's state, and `FailedIsReleased` from
`routers/tool_approval_router.py:95`, which releases the claim only of a task it reads as
running.

The three stores have more of them, which the models contain or exclude as said above.

*Input of a command.* `finish_pending` writes `failed` over an `accepted` acknowledgement if
the file is still there. A receipt that is asked for between the unlinking of the
request and its acknowledgement is told that the request does not exist. On POSIX a
cancelled command on pipes takes its runner with it, so the bodies of its requests
stay until a stop (`NothingIsLeft` is about runners that end and about stops). A
failure of the metadata after the text was written is acknowledged as `failed`.

*File versions.* A death between the meta file and the index leaves an index that
says clean of a file with undecided changes: the clean-up of clean files then deletes its
history, and keep and revert all pass over it. So does a removal that leaves the meta file
behind (`shutil.rmtree(..., ignore_errors=True)`) without anybody's death, since the entry is
dropped whatever is left. That the index names every file with undecided changes is
therefore not among the properties. A removal cut short (`torn`) leaves a
history that cannot be read and whose operations are refused. `hunk_keep` opens a
generation without locking the earlier ones, which can still be rolled back to, and
keeping a hunk of a deleted file writes an empty file. `sync_from_disk` compares texts only, so a deletion and a
file emptied on purpose look alike, and a file deleted by another program leaves a chain no
operation can go on with. Two tools that write one file at the same time may record their
changes in the other order. Between the last `_assert_file_version` and `os.replace` a
write by another program is lost; `DiskIsKnown` is about writes up to that comparison, and is
false if it is left out (its mutant).

*Rounds.* What `stale` and `weak` mark, as the code does it: a place that was chosen before
another round was finished replaces an innocent round; a deletion shows a suspended
round at the end, and then removes the one that has its number; a place out of range stays
in a manager that is kept and is used by the next round; a round that repeats the text of
the one it replaces bears that one's start time, and `_round_already_recorded` takes it for
another; a resumed round keeps the name of its old writer and takes whatever `.pending`
holds; `record_message` drops the checkpoint of a dead worker's round it has not finished;
`finish_saved_permission_round` returns without removing the checkpoint of a round
that is recorded, which comes back after the round's deletion; a stop finishes the
round of an orphan that goes on; two writers share one `.pending`; two workers that were
both told to resume a round both adopt its task, and each may finish the round; a
manager that recovers the rounds of the dead takes one that a living orphan still
writes, because the checkpoint names the orphan's predecessor. The last two came out of
the proof; the first of them needs three workers, and the run has two. So that a round leaves
the history only by a deletion that named it, or for the round that was asked to take
its place, is not among the properties. What `failed` marks: the order of
`add_chat_history` (`doc_lost`); a stop whose write fails leaves the checkpoint under the
name of the living worker, whose next round overwrites it; and an orphan writes its
checkpoint over that of its successor.

`WithinLimit` says less than it may seem: it is about the number of model calls, which
`reserve` counts before they are sent. Tokens, cost and seconds are known afterwards,
and a batch of tools passes as a whole, so these limits stop the next call and not the
one that reaches them, as `docs/task_budgets.md:31` says. A call that a dead worker had
on its way stays pending in a task that is resumed and completed, which is why
`EndedIsSettled` is not about completed tasks.

## Proofs

`ToolPermissionProofs` proves, for every value of the constants (any number of
tasks, calls and pids, any faults and requests, no bound on the epochs beyond
`MaxEpoch \in Nat`):

| Theorem | Statement |
|---|---|
| `Inductive` | `Spec => [](Uncontested => IInv)` |
| `TypeCorrect` | `Spec => [](Uncontested => TypeOK)` |
| `OnceOnly` | `Spec => [](Uncontested => AtMostOnce)`: the effect of a call takes place at most once |
| `RefusedStays` | `Spec => [](Uncontested => RefusedNeverRuns)` |
| `UnknownHolds` | `Spec => [](Uncontested => UnknownHoldsTask)` |
| `CurrentClaims` | a step from an uncontested state claims for the owner and epoch of the task (`ClaimIsCurrent`) |
| `Implements` | the first state and every step from an uncontested state are those of `ToolOnce` |
| `AnswersInductive` | `Spec => [](Uncontested => AnswerInv)` |
| `GrantedClaims` | `Spec => [](Uncontested => ClaimsAreGranted)`: a risky call is claimed with a grant of its epoch |
| `DenialStands` | a step from an uncontested state leaves a denied request denied (`DenialStays`) |
| `SnapshotInductive` | with `NoStops`: `Spec => [](Uncontested => SnapshotInv)` |
| `RecoverableOnce` | with `NoStops`: `Spec => [](Uncontested => OneRecoverable)`: at most one task to come back to |
| `OnceWithoutOrphans` | with `NoBackendDeath`: `Spec => []AtMostOnce` |
| `ImplementsWithoutOrphans` | with `NoBackendDeath`: `Spec => ImplementsOnce`: the refinement of `ToolOnce` |

The assumptions are `PidAssumption` and `CallAssumption`: `NoPid` is no pid,
`NoTask` no task, calls are numbers, the other constants are of their type.
`Uncontested` says that no task has been adopted late so far. It is a state of the
specification and no assumption about it: `AdoptResume` does what `adopt` does, and behind
a late adoption nothing of the table is claimed (`doc_rerun` shows that
`AtMostOnce` is false there). So the theorems say that every way to a second run of a
call goes through that one statement. It takes a worker that has a command and no backend,
and for that a backend must have died before its worker: where that does not happen
(`NoBackendDeath`, `"backend"` not in `Faults`; crashes of workers, lost dispatches, idle
exits, stops and orderly shutdowns do), `NeverContested` proves that no task is ever
contested, and the properties hold without a condition.

*The argument.* `AtMostOnce` is not inductive: a step that runs a tool must know
that no other thread holds the same call, which holds because the INSERT of the
claim was made once, by a process that had the call in its batch; and two
processes do not have the same task in their batches because the ledger names one
owner, who keeps the task until a late adoption. So the invariant has five parts:

- `TypeOK`: the types;
- `ProcessInv`: the dead execute nothing and have no command, the backend executes
  nothing, the worker behind the proxy is not the backend;
- `OwnerInv`: who executes a task is the owner in the ledger and of its epoch, and
  a task that a resumption has claimed is executed by nobody until a worker
  adopts it;
- `CallInv`: an unclaimed call has had no effect; a call that the batch may
  still claim is unclaimed; one claimed and not started has had no effect; a
  tool thread is the only one of its call, which has had no effect yet;
- `HoldInv`: a claim without a result belongs to the epoch of its task as long as
  the task runs.

The step that matters is the change of hands. Of the statements that change an
owner `resume`, `release_resume` and `claim_interrupted_task` are guarded so
that the old owner is dead, or is the backend, which executes nothing; `adopt` is not, and
unless it is late it takes the task from the backend that has handed it over
(`BackendTask`, `WorkerTask`, `HandedStays`). The gap inside
`claim_execution` is harmless for that reason (`CurrentClaims`): while the
claimer lives, no resumption can slip in between.

The refinement and the answers of the user need a second invariant, `AnswerInv`,
inductive beside `IInv`:

- `ClaimInv`: a task that runs has an epoch, so a claim has one, and an open call has
  none. The mapping of `ToolOnce` tells an open call from a refused one by that;
- `SentInv`: a call that was sent has its thread or has had its effect, and a thread
  belongs to a claim without a result. So a result is recorded after the effect, and
  the effect takes place before the result;
- `RowInv`: a request has one row, an approved row was granted, and the approval
  that `decide` is about to write is of a row that nobody has denied meanwhile: only
  `decide` denies, the event loop makes one decision at a time (`LoopFree`), and whatever
  writes over the row in between approves, completes, cancels or invalidates it;
- `GrantInv`: a risky call the batch may claim has a grant of its epoch, which is the
  epoch of the claim (`OwnerInv`).

`Implements` then goes by the kinds of steps: those that touch no call (`StillStep`),
and one that moves one call as `ToolOnce` allows (`MoveStep`). `DenialStands` follows
from `RowInv`: the only statement that writes an approval over a row without looking
at it is `decide`'s, and the row it has read is not denied.

`OneRecoverable` needs a third invariant, `SnapshotInv`, inductive beside `IInv` when
`"stop"` is not in `Requests` (`NoStops`). Nothing in the ledger counts snapshots:
`authorize` saves one for whatever task it works on. What keeps them to one is the order
of three actors, and each has its part:

- `WorkInv`: a task that is worked on, or has a snapshot, has not ended. `Executing`
  includes the end of the generation for that: only the process that executes a task ends it
  (`WorkerStays`), and its snapshot goes with it;
- `HandInv`: a task on its way to the worker has a snapshot, so that adopting it leaves
  no first one. Before the command is sent it is the backend's, under an epoch that no
  earlier resumption had; so the `release_resume` of an earlier one, which compares owner
  and epoch, cannot suspend it under the new one's hands. Likewise for a `running` task
  in the worker's pipe;
- `RetireInv`: once a message has claimed the interrupted tasks, `todo` holds every
  task with a snapshot, nobody executes one, and the worker has nothing to do until the last
  is cancelled and the command for the new task goes out;
- `NewInv`: while the worker may leave a first snapshot (`MaySave`) there is no other;
- `OneSaved`, which is `OneRecoverable` of `Saved`.

A first snapshot is left only by the backend's worker (`SavedGrows`), since an orphan makes
no forward progress, and by `NewInv` there is no other then. That is `OneStep`.

`NoStops` is necessary. TLC finds `OneRecoverable` violated in 27 states with two tasks, five
`Pids`, `Requests = {"resume", "stop"}` and `Faults = {"worker", "backend"}`: a stop has collected
a suspended task; it is resumed and adopted before `cancel_task` ends it; the worker, which
does not look at the state, saves a snapshot of the ended task (`memory/permission_store.py:295`)
and its backend dies; the next backend starts a new task, and the orphan, winding down,
writes `suspended` over the ended one, so that both have a snapshot and can be come back to.
`SnapshotInv` was checked with TLC in four instances without stops before it was proved
(two or three tasks, three to five pids; messages, resumptions, decisions, a shutdown, every
fault of a process; up to 2.7 million states).

`ModelSlotsProofs` proves, for any number of accounts, processes, calls,
cancellations and deaths, from `SlotAssumption` (finitely many calls, each of one
account and process; the limits are numbers, the capacity not zero):

| Theorem | Statement |
|---|---|
| `SlotInductive`, `SlotTypes` | `Spec => []SlotInv`, `Spec => []TypeOK` |
| `InstanceLimited`, `AccountLimited` | never more requests in use than the instance's capacity, and than the account's limit |
| `SentCharged`, `DailyLimited` | what was sent stays counted; no account sends more than its daily calls |
| `LeaseReleased` | with `MaxCancels <= 1`: `Spec => []LeaseIsReleased` |

*The argument.* The code counts rows and promises something of requests. The link
is `HolderHasRow`: a call that may send has a running row. It is inductive only
with `ThreadsKnown` (a coroutine that goes on has left no thread behind that
could delete the row) and `DeadAreDead` (the rows of dead processes, which every
attempt deletes, have no coroutine). An attempt admits one call where there is room,
so the rows stay below the limits (`RunningFits`, `AccountFits`), and the
requests with them. For the quota, `ReservedFirst` says that a call on its way to
the network has its reservation, which only its own clean-up gives back.
`LeaseReleased` rests on `LeaseInv`: the release waits for the attempt, so only a
cancellation of that wait, which would be the second one, can put them out of order.

`TaskBudgetProofs` proves, for any number of agents, titles, pages and tool calls,
any limits and any events, from `BudgetAssumption` (the tool calls are finitely many,
the limits are numbers, the names of agents, titles and requests are apart):

| Theorem | Statement |
|---|---|
| `BudgetAlways` | `Spec => []BudgetInv` |
| `LimitHolds` | `Spec => []WithinLimit`: the number of model calls never passes its limit |
| `CountsOnce` | `Spec => []CountedOnce`: the counters are the sizes of the tables |
| `CostKnown` | `Spec => []CostIsKnown` |
| `SentReserved` | `Spec => []SentIsReserved`: a request on its way has an open row of its own |
| `EndSettles` | `Spec => []EndedIsSettled` |
| `AnsweredOnce` | `Spec => []OneAnswer`: one page answers a pause |

*The argument.* Most steps touch no table, and move a caller to a place where nothing is
known of it (`LocalsKept`, `QuietStep`). A settlement changes one row, and that row has
its caller's name, so nobody else's request loses its own (`SettleStep`). A
reservation is one transaction, so the limit it has read is the one it leaves
(`PassModelStep`). For `OneAnswer` the strengthening is `AcceptedIsPast`: whoever was
accepted has seen a version that is over, and versions only grow. `EmptyAtFirst` keeps
`create_task` from resetting the counters of a row that exists, and `ReadIsOver`
keeps `get_usage` from finishing a row with anything but an end or a suspension.

`CommandInputProofs` proves, for any number of calls, requests and texts and any faults,
from `InputAssumption` (each call has an id and a text, `NoText` is no text):

| Theorem | Statement |
|---|---|
| `InputInductive` | `Spec => []InputInv` |
| `OnceDelivered` | `Spec => []DeliveredOnce`: the child gets the text of a request at most once |
| `NothingLeft` | `Spec => []NothingIsLeft`: no request body outlives the terminal |
| `RequestsInOrder` | `Spec => []RequestInv`: open requests stand in the order of their first files |
| `DeliveredInOrder` | `Spec => []InOrder`: the child gets the texts in that order |
| `AcceptedDelivered` | if one id has one text: `Spec => []AcceptedIsDelivered`: what was accepted was delivered |

*The argument.* A text is delivered between two acknowledgements of its request, and the writer
takes no request that has one. So what was delivered is acknowledged (`DeliveryInv`), and the
request in the writer's hands is acknowledged and not delivered from `Mark` on
(`WriterInv`), although its file may be there again: a sender that looked before the
acknowledgement writes it once more, and the next turn of the writer finds it
acknowledged. `FilesInv` says that a file has one entry per request. For `NothingIsLeft`
the lock is what counts (`LockInv`): a sender that has seen the terminal alive holds the lock until
its file is written, so the runner, which needs the lock for its outcome and for
`finish_pending`, lists the file; after that no sender passes `SeeLive`. A sweeper's list
covers what is left (`Inside`). The assumption `OneText` of `AcceptedDelivered` is the
convention of the callers, without which it is false (`OneTextPerId`).

The order of delivery (`DeliveredInOrder`) is about requests that are still to be delivered
(`Open`): a retry may leave the file of a delivered request again, at the end of the
directory, but that one has an acknowledgement. `BornInv` says why no other request is
left twice: its file disappears without an acknowledgement only where the end
erases it, after which nobody writes. So open requests stand in the directory and
in the writer's list in the order of their first files, each list is older than what it
does not hold, and all of them come after what was delivered (`OrderInv`).

`FileHistoryProofs` proves, for any number of files, regions and lines, any bounds and faults,
from `FileAssumption` (regions are numbers, there is a file, what is written is a file):

| Theorem | Statement |
|---|---|
| `FileInductive` | `Spec => []FileInv` |
| `SnapshotsTrue` | `Spec => []SnapshotsAreTrue`: every version can be read back |
| `DiskKnown` | `Spec => []DiskIsKnown`: no operation overwrites what was written before its last comparison |
| `HistoryOnlyGrows` | `Spec => HistoryGrows`, an action property |

*The argument.* A snapshot is written before the version that names it, and may be written over
one a refused operation has left: that is harmless if no version names it. `ChainOK` says
why: versions of one text share one name, a text that is new at place i has the number
i - 1, and older names have smaller numbers. So writing the snapshot of the next version leaves
those before it alone (`AppendStep`). `OpInv` says that the chain in an operation's
hands extends the one on the disk (`Extends`), which nobody else changes while it holds the
lock, that the snapshots it has passed can be read, and that it writes its chain's latest
text; then `SaveMeta` keeps all of it. It also carries what `DiskIsKnown` needs: from
`ReadDisk` on the file is the latest version's or somebody has written it since its identity was
taken, and `CheckVersion` goes on only in the first case. No version joins a locked generation because
locked generations lie below the current one (`ChainOK`, `SealedContinues`).

`RoundHistoryProofs` proves, for any number of workers and rounds, any places, requests and
faults, from `RoundAssumption` (the bounds are numbers, no worker is called backend):

| Theorem | Statement |
|---|---|
| `RoundsHeld`, `RoundsTyped` | `Spec => []RoundInv`, `Spec => []TypeOK` |
| `RoundsOnce` | `Spec => []NoDuplicates`: no round is in the history twice |
| `RoundsKept` | `Spec => []NotLost`: a round that has had a checkpoint is in its file until the history has it |

*The argument.* The invariant has three kinds of parts. Some hold
always: the types, where each process is (`StepInv`), and that a round is nowhere before
its first event (`FreshInv`), which is why nobody else can have written it.

`NoDuplicates` holds as long as `Sure`, that is, up to the first step of a
known weakness, and so do the parts that it needs: one has to know who may
finish a round. `OwnInv` says that a process, a checkpoint and a row of the ledger have
the round of their own request, with the place it was asked for; `HeldInv` that a round in
somebody's memory is in nobody else's and not in the history, and that its checkpoint has
the name its holder writes under, so that whoever recovers rounds of the dead finds
the writer alive. What remains is to place the round: `PlaceInv` says that where a round
is to replace another, there stands that one or the round itself, and that a round bears
another start time than its own only if it has replaced one. That keeps
`_round_already_recorded`, which compares start times, right.

`NotLost` holds as long as nothing has `failed`, over the weaknesses too. It says that a
saved round is in the history, or has left it, or is the one in `.pending` (`InFiles`); it
does not count on a worker's memory or on the ledger, since a death may take the first
and a cancellation the second. What could lose a round is an event or a new round that
writes `.pending` over another one, so one has to know that nobody does: `AloneInv` says that the
only living worker is the one the backend talks to, and that no manager is left over
from a failed end; `LiveInv` that at most one task is running or suspended, and where its
worker and the backend's message then stand; `FileInv` that the checkpoint in the file
is spent (empty, or of a round the history has or has had) when a new round may begin,
and otherwise is that of the one task that has not ended (`Covers`). Each of them is
carried by the same steps: `AloneStep`, `LiveStep`, `FileStep`, `InFilesStep`. A place that has
moved does no harm there, since `Put` writes a round whose place is gone at the end.

`StreamReplayProofs` proves, for any number of pages and frames, any size of the deque above
one and any faults, from `StreamAssumption` (the pages are finitely many):

| Theorem | Statement |
|---|---|
| `StreamIsInductive` | `Spec => []StreamInv` |
| `FramesComeInOrder` | `Spec => []InOrder`: every frame once and in order, unless a gap was announced |
| `OnlyFaultsLoseFrames` | `Spec => []GapsAreFaults` |
| `LastReaderCloses` | `Spec => []JournalIsReleased` |

*The argument.* A page has two positions, a number for the deque and an offset for the
journal. `JournalInv` and `PageInv` say that they are the same as long as the journal
is complete, which is what lets a page go from one to the other. `FaultInv` says when it
is not complete: after a fault, or once the stream is done and the last reader has
left, when later frames find the journal closed; so a reader that falls behind the deque
always finds its frame in the journal, unless something failed. The count of readers and
the pages that read agree (`JournalIsReleased`), so `finish` and `release_replay` cannot both
leave the journal to the other. The case of a start that failed needs `StartInv`:
its stream is done and its journal closed before its page reads, and its warning and
its error fit into the deque.

*Only model-checked*: liveness (`NoStrandedRunning`, `SuspendedIsFreed`, `StopEnds`, `Served`,
`EndsTogether`, `ServedOrErased`, `KeepsUp`), which is out of the prover's reach, and
`OneRecoverable` in the instances with stops, where it does not hold. Every other property of
the passing runs is a theorem, those of `ToolPermission` up to a late adoption.

## Not modelled

`PROJECT.json` lists every component with its status. No part is complete; what is left out of
each modelled one is said under *Abstractions* and in its note. Left aside altogether:

- the chain of remote responses (`responses_store.py`), whose slots repeat what
  `ToolPermission` says of the ledger's calls;
- sub-agents and context compaction, mostly prompt and token bookkeeping;
- storage migration, backup and archives, which one process runs while the service is stopped
  or the session is blocked;
- accounts, authorization and network middleware, which decide on single requests;
- file memory and built-in tools, model clients and document parsing, the browser frontend,
  scripts and examples: I/O, formatting and presentation.

These hold most of the repository's lines, and their difficulty is in formats and texts
rather than in the order of steps, which is why a large part of the code has no model.

## Running

    tlc -config MCExecutions.cfg MCToolPermission
    tlc -config MCServed.cfg MCModelSlots
    tlc -config MCBudget.cfg MCTaskBudget
    tlc -config MCInputs.cfg MCCommandInput
    tlc -config MCFiles.cfg MCFileHistory
    tlc -config MCRounds.cfg MCRoundHistory
    tlc -config MCStreams.cfg MCStreamReplay
    tlapm FileHistoryProofs.tla

The `.cfg` files starting with `MC` pass; those starting with `Doc` end in the
counterexample described above. A run takes at most three minutes, a proof module
from half a minute to eight minutes (`RoundHistoryProofs`).
