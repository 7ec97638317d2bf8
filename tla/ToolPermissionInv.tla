-------------------------- MODULE ToolPermissionInv --------------------------
(***************************************************************************)
(* The inductive invariant behind the safety properties of ToolPermission. *)
(* A call is executed once because only one process at a time executes its *)
(* task, and only one does because a task changes hands only while the     *)
(* process that owns it is dead, or is a backend that executes nothing.    *)
(***************************************************************************)
EXTENDS ToolPermission

\* Who may be alive, and that the dead, and the backend, execute nothing.
ProcessInv ==
    /\ backend # NoPid => backend \in alive
    /\ worker # NoPid => worker \in born
    /\ backend = worker => backend = NoPid
    /\ \A p \in Pids : cmd[p] # NoCmd => p \in alive /\ p # backend
    /\ \A p \in Pids : p \notin alive \/ p = backend => rt[p].pc = "idle"
    /\ \A x \in inflight : x[1] \in alive

\* Nobody has adopted a task from under another process: an orphan that comes late to
\* the command in its pipe would (adopt looks at neither owner nor epoch).
Uncontested == contested = {}

\* The case in which none can: a backend takes its worker with it.
NoBackendDeath == "backend" \notin Faults

Busy(p) == rt[p].pc \notin {"idle", "leaving"}

Exists(t) == t \in Tasks /\ task[t].state # "absent"

\* A task that is on its way to a worker: nobody executes it yet.
Handed(t) == Exists(t) /\ \A p \in Pids : ~Executes(p, t)

\* The process that executes a task is its owner and of its epoch, and a task
\* handed over by a resumption is executed by nobody before it is adopted.
OwnerInv ==
    /\ \A p \in Pids : Busy(p) => Exists(rt[p].task)
    /\ \A p \in Pids, t \in Tasks :
        Executes(p, t) => task[t].owner = p /\ task[t].epoch = rt[p].epoch
    /\ res # NoRes => Handed(res.task)
    /\ worker \in alive /\ cmd[worker].kind = "resume" =>
        Handed(cmd[worker].task) /\ res = NoRes

\* A call that has had no effect, and has no thread that would cause one.
Untouched(t, c) ==
    effects[t][c] = 0 /\ \A p \in Pids : <<p, t, c>> \notin inflight

\* What a batch knows of its calls is still so: the ones it may claim are
\* unclaimed, and the ones claimed and not yet sent have had no effect.
BatchCall(p, c) ==
    LET t == rt[p].task
    IN /\ rt[p].call[c] \in {"ask", "allow"} => exec[t][c].state = "none"
       /\ rt[p].call[c] = "begun" => exec[t][c].state = "executing" /\ Untouched(t, c)

BatchInv == \A p \in Pids : InBatch(p) => \A c \in Calls : BatchCall(p, c)

\* A tool thread is the only one of its call, which has had no effect yet.
ThreadInv ==
    \A x \in inflight :
        /\ effects[x[2]][x[3]] = 0
        /\ \A y \in inflight : x[2] = y[2] /\ x[3] = y[3] => x = y

CallInv ==
    /\ \A t \in Tasks, c \in Calls :
        /\ exec[t][c].state # "completed" => exec[t][c].result = "null"
        /\ exec[t][c].state = "none" => Untouched(t, c)
    /\ BatchInv /\ ThreadInv
    /\ AtMostOnce /\ RefusedNeverRuns

\* A claim without a result belongs to the epoch of its task as long as the
\* task runs, and a task that was never created has no claims.
HoldInv ==
    /\ UnknownHoldsTask
    /\ \A t \in Tasks, c \in Calls : ~Exists(t) => exec[t][c].state = "none"

\* The parts of the invariant together, with the type invariant.
IInv == TypeOK /\ ProcessInv /\ OwnerInv /\ CallInv /\ HoldInv
-----------------------------------------------------------------------------
(* On top of that: what the refinement of ToolOnce and the answers of the  *)
(* user rest on.                                                           *)

\* A task that runs, and a process that works on one, has an epoch; a call has a
\* claim from its INSERT on, and one that is open has none.
ClaimInv ==
    /\ \A t \in Tasks : task[t].state = "running" => task[t].epoch # 0
    /\ \A p \in Pids : Busy(p) => rt[p].epoch # 0
    /\ \A t \in Tasks, c \in Calls :
        /\ exec[t][c].state = "none" => claimedAt[t][c] = 0
        /\ exec[t][c].state = "executing" => claimedAt[t][c] # 0

\* A call that was sent has its thread or has had its effect.
SentCall(p, c) ==
    LET t == rt[p].task
    IN rt[p].call[c] = "sent" =>
        /\ exec[t][c].state = "executing"
        /\ effects[t][c] = 1 \/ <<p, t, c>> \in inflight

\* So it is in every batch, and a tool thread belongs to a claim without a result.
SentInv ==
    /\ \A p \in Pids : InBatch(p) => \A c \in Calls : SentCall(p, c)
    /\ \A x \in inflight : exec[x[2]][x[3]].state = "executing"

Key(r) == [task |-> r.task, call |-> r.call, epoch |-> r.epoch]

\* A request has one row; an approved one was granted; and the decision that
\* decide is about to write does not approve what is denied by now.
RowInv ==
    /\ \A r, s \in appr : Key(r) = Key(s) => r = s
    /\ \A r \in appr : r.state = "approved" => Key(r) \in granted
    /\ dec.decision = "approved" =>
        \A r \in appr : Key(r) = Key(dec) => r.state # "denied"

\* A batch may claim a risky call only with a grant of its epoch.
GrantInv ==
    /\ \A p \in Pids : InBatch(p) =>
        \A c \in Risky : rt[p].call[c] \in {"allow", "checked"} =>
            [task |-> rt[p].task, call |-> c, epoch |-> rt[p].epoch] \in granted
    /\ ClaimsAreGranted

\* The second invariant: inductive beside IInv.
AnswerInv == ClaimInv /\ SentInv /\ RowInv /\ GrantInv
-----------------------------------------------------------------------------
(* What OneRecoverable rests on.  A snapshot is left only by the worker of *)
(* the backend, and it leaves one of a new task only after the message     *)
(* that brought the task has retired every other one.                      *)

\* The case without the stop button, whose cancel_task ends a task that a worker
\* may have taken up since.
NoStops == "stop" \notin Requests

\* A task that is worked on, or has a snapshot, has not ended.
WorkInv ==
    /\ \A p \in Pids, t \in Tasks : Executes(p, t) => task[t].state \in Live
    /\ \A t \in Tasks : Saved(t) => task[t].state \in Live

\* A task on its way to the worker has a snapshot; before the command is sent
\* it is the backend's, under an epoch no earlier resumption had.
HandInv ==
    /\ res # NoRes =>
        /\ BackendUp /\ Saved(res.task)
        /\ task[res.task].owner = backend /\ task[res.task].epoch = res.epoch
        /\ \A e \in watch : e.task = res.task => e.epoch < res.epoch
    /\ \A e \in watch : Exists(e.task) /\ e.epoch <= task[e.task].epoch
    /\ worker \in alive /\ cmd[worker].kind = "resume" =>
        (task[cmd[worker].task].state = "running" => Saved(cmd[worker].task))

\* Worker w may come to leave a snapshot of a task that has none.
MaySave(w) ==
    w \in alive /\ (cmd[w].kind = "new" \/ (rt[w].pc \in Executing /\ ~Saved(rt[w].task)))

\* From its claims on, a message holds every task that has a snapshot, suspended
\* and in nobody's hands, and the worker, if there is one, has nothing to do.
RetireInv ==
    /\ chat # "retire" => todo = {}
    /\ chat = "retire" =>
        /\ res = NoRes
        /\ \A t \in Tasks : Saved(t) => t \in todo
        /\ \A t \in todo : task[t].state = "suspended" /\ \A p \in Pids : ~Executes(p, t)
        /\ worker \in alive =>
            /\ rt[worker].pc \notin Executing /\ cmd[worker].kind # "new"
            /\ cmd[worker].kind = "resume" => task[cmd[worker].task].state # "running"

\* While the worker may leave a first snapshot there is no other one; and it has
\* at most one task in hand then.
NewInv ==
    /\ MaySave(worker) => \A t \in Tasks : ~Saved(t)
    /\ worker \in alive /\ cmd[worker].kind = "new" => rt[worker].pc \notin Executing
    /\ chat = "over" => ~MaySave(worker)

OneSaved == \A t, u \in Tasks : Saved(t) /\ Saved(u) => t = u

\* The third invariant: inductive beside IInv as long as nobody stops a task.
SnapshotInv ==
    /\ stop = NoStop
    /\ WorkInv /\ HandInv /\ RetireInv /\ NewInv /\ OneSaved
=============================================================================
