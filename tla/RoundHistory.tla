---------------------------- MODULE RoundHistory ----------------------------
(***************************************************************************)
(* The rounds of a session.  A worker keeps the round it generates in      *)
(* memory and, event by event, in the checkpoint file .pending; the round  *)
(* enters the history when it ends.  A request may ask for the place of an *)
(* earlier round, or for a new place between two rounds.                   *)
(*                                                                         *)
(* A round whose worker has died is finished by somebody else: whoever     *)
(* makes a new manager of the history, the next message, or a stop; a task *)
(* of the ledger with a checkpoint of its own may be resumed instead.      *)
(*                                                                         *)
(* A write of the history holds the session's lock and reads everything    *)
(* before it writes, so it is one step here; a death between its two files *)
(* leaves what a failed write or removal of the second file leaves.        *)
(***************************************************************************)
EXTENDS Naturals, Sequences, FiniteSets

S == INSTANCE SequencesExt

CONSTANTS
    Pids,       \* worker processes
    Old,        \* rounds in the history at first
    MaxRounds,  \* bound: rounds in all
    Inserts,    \* bound: the places after which a round may be inserted
    Requests,   \* subset of {"replace", "insert", "stop", "resume", "delete"}
    Faults      \* subset of {"worker", "backend", "disk"}

Rounds == 1..MaxRounds

ASSUME RoundAssumption ==
    /\ Old \in Nat /\ MaxRounds \in Nat /\ Old <= MaxRounds
    /\ Inserts \subseteq 0..MaxRounds
    /\ Pids \intersect {"backend", "nobody"} = {}
    /\ Requests \subseteq {"replace", "insert", "stop", "resume", "delete"}
    /\ Faults \subseteq {"worker", "backend", "disk"}

VARIABLES
    history,  \* the rounds of the JSONL file
    pend,     \* the file .pending
    task,     \* the ledger's row of the task of each round
    ask,      \* the requests: text and place
    worker,   \* the worker processes
    proxy,    \* the worker the backend talks to
    main,     \* the backend's manager of the history
    op,       \* what the backend does for the session
    saved,    \* rounds whose checkpoint has been written
    gone,     \* rounds that have left the history
    stale,    \* a place or a checkpoint was to be used after the history changed
    weak,     \* a known weakness has been met
    failed    \* the history could not be written when a round was to be
              \* finished, or a worker has outlived its backend

files == <<history, pend>>
ghosts == <<saved, gone, stale, weak, failed>>
vars == <<files, task, ask, worker, proxy, main, op, ghosts>>

-----------------------------------------------------------------------------
(* Rounds and places.                                                      *)

End == [how |-> "end", at |-> 0]

Places ==
    {End} \union [how : {"insert"}, at : 0..MaxRounds]
          \union [how : {"replace"}, at : 1..MaxRounds]

\* A round is known by the time it was started.
Entry == [id : Rounds, at : Rounds]

\* A file of the session cannot be written or removed, whatever is retried.
Fails == "disk" \in Faults

Ids(h) == {h[i].id : i \in 1..Len(h)}

NoPend == [id |-> 0, pid |-> "nobody", place |-> End]

Pends == {NoPend} \union [id : Rounds, pid : Pids, place : Places]

NoAsk == [place |-> End, aim |-> 0, asked |-> FALSE]

TaskStates == {"none", "running", "suspended", "ended"}

NoTask == [state |-> "none", owner |-> "nobody", round |-> 0]

Steps == {"idle", "begin", "begun", "open", "closing", "closed"}

Blank(life) ==
    [life |-> life, step |-> "idle", run |-> 0, resumed |-> FALSE, round |-> 0,
     pid |-> "nobody", place |-> End, kept |-> FALSE]

NoCut == [at |-> 0, all |-> FALSE, named |-> 0]

NoOp == [kind |-> "none", run |-> 0, done |-> 0, cut |-> NoCut]

NoManager == [made |-> FALSE, place |-> End]

TaskRow ==
    [state : TaskStates, owner : Pids \union {"backend", "nobody"}, round : 0..MaxRounds]

Generation ==
    [life : {"new", "alive", "dead"}, step : Steps, run : 0..MaxRounds, resumed : BOOLEAN,
     round : 0..MaxRounds, pid : Pids \union {"nobody"}, place : Places, kept : BOOLEAN]

Cuts == {NoCut} \union [at : 1..MaxRounds, all : BOOLEAN, named : Rounds]

TypeOK ==
    /\ history \in Seq(Entry)
    /\ pend \in Pends
    /\ task \in [Rounds -> TaskRow]
    /\ ask \in [Rounds -> [place : Places, aim : 0..MaxRounds, asked : BOOLEAN]]
    /\ worker \in [Pids -> Generation]
    /\ proxy \in Pids \union {"nobody"}
    /\ main \in [made : BOOLEAN, place : Places]
    /\ op \in [kind : {"none", "send", "stop", "cut"}, run : 0..MaxRounds,
               done : 0..MaxRounds, cut : Cuts]
    /\ saved \subseteq Rounds /\ gone \subseteq Rounds
    /\ stale \in BOOLEAN /\ weak \in BOOLEAN /\ failed \in BOOLEAN

Init ==
    /\ history = [i \in 1..Old |-> [id |-> i, at |-> i]]
    /\ pend = NoPend
    /\ task = [r \in Rounds |-> NoTask]
    /\ ask = [r \in Rounds |-> [NoAsk EXCEPT !.asked = (r <= Old)]]
    /\ worker = [p \in Pids |-> Blank("new")]
    /\ proxy = "nobody" /\ main = NoManager /\ op = NoOp
    /\ saved = {} /\ gone = {} /\ stale = FALSE /\ weak = FALSE /\ failed = FALSE

-----------------------------------------------------------------------------
(* The history file.                                                       *)

Alive(o) == o = "backend" \/ (o \in Pids /\ worker[o].life = "alive")

\* Mutant: only the last round of the history is looked at.
RecordedLast(r) ==
    history # <<>> /\ history[Len(history)] = [id |-> r, at |-> r]

\* _round_already_recorded: the time of the start and the user's message agree.
Recorded(r) == \E i \in 1..Len(history) : history[i] = [id |-> r, at |-> r]

Fits(h, place) == place.how # "end" /\ place.at <= Len(h)

\* Mutant: a round whose place is gone is left out.
PutWhereItFits(h, r, place) ==
    IF place.how = "replace" /\ Fits(h, place)
    THEN {[h EXCEPT ![place.at] = [id |-> r, at |-> at]] : at \in {r, h[place.at].at}}
    ELSE IF place.how = "insert" /\ Fits(h, place)
    THEN {S!InsertAt(h, place.at + 1, [id |-> r, at |-> r])}
    ELSE IF place = End THEN {Append(h, [id |-> r, at |-> r])} ELSE {h}

\* The histories with round r in its place.  A round that repeats the message of
\* the one it replaces also takes its time; whether it does is left open.
Put(h, r, place) ==
    CASE Fits(h, place) /\ place.how = "replace" ->
             {[h EXCEPT ![place.at] = [id |-> r, at |-> at]] : at \in {r, h[place.at].at}}
      [] Fits(h, place) /\ place.how = "insert" ->
             {S!InsertAt(h, place.at + 1, [id |-> r, at |-> r])}
      [] OTHER -> {Append(h, [id |-> r, at |-> r])}

\* The manager forgets the place it has used; one it could not use stays.
Rest(h, place) == IF place.how = "replace" /\ ~Fits(h, place) THEN place ELSE End

\* How a write that finishes round r may end: in _finish_current_round the
\* history comes first, then the checkpoint is removed.
Finishes(r, place) ==
    {[history |-> h, pend |-> c, ok |-> TRUE] :
        h \in Put(history, r, place), c \in {NoPend} \union (IF Fails THEN {pend} ELSE {})}
    \union
    (IF Fails THEN {[history |-> history, pend |-> pend, ok |-> FALSE]} ELSE {})

\* add_chat_history removes the checkpoint before it writes the history.
Completions(r, place) ==
    {f \in Finishes(r, place) : f.ok}
    \union
    (IF Fails THEN {[history |-> history, pend |-> NoPend, ok |-> FALSE]} ELSE {})

\* The place a checkpoint is finished at, by a manager with a place of its own.
Aim(place, own) ==
    CASE place.how = "replace" -> place
      [] own.how = "replace"   -> own
      [] place.how = "insert"  -> place
      [] OTHER                 -> own

\* has_restorable_round
Restorable ==
    \E r \in Rounds : task[r].state \in {"running", "suspended"} /\ task[r].round # 0

\* _finish_current_round for the checkpoint: what becomes of the files.
Recoveries(own, deadOnly) ==
    IF pend = NoPend \/ (deadOnly /\ Alive(pend.pid))
    THEN {[history |-> history, pend |-> pend, ok |-> TRUE, place |-> own]}
    ELSE IF Recorded(pend.id)
    THEN {[history |-> history, pend |-> NoPend, ok |-> TRUE, place |-> own]}
         \union
         (IF Fails THEN {[history |-> history, pend |-> pend, ok |-> TRUE, place |-> own]}
          ELSE {})
    ELSE {[history |-> f.history, pend |-> f.pend, ok |-> f.ok,
           place |-> Rest(history, Aim(pend.place, own))] :
             f \in Finishes(pend.id, Aim(pend.place, own))}

\* _recover_pending_round_checkpoint
Recover(own) ==
    IF Restorable
    THEN {[history |-> history, pend |-> pend, ok |-> TRUE, place |-> own]}
    ELSE Recoveries(own, TRUE)

Files(f) == history' = f.history /\ pend' = f.pend

\* A living process has the round in its memory.
Held(p, r) == worker[p].life = "alive" /\ worker[p].round = r

At(p, step) == worker[p].life = "alive" /\ worker[p].step = step

\* Its backend is gone, or talks to another worker.
Orphan(p) == worker[p].life = "alive" /\ p # proxy

\* What is known to go wrong; the README names each place.
Weak(met) == weak' = (weak \/ met)

\* The checkpoint that a living process writes under the name of a dead one.
Foreign == \E p \in Pids : pend # NoPend /\ Held(p, pend.id) /\ worker[p].pid # p

\* The checkpoint of a round that is not in the history, and not r.
Other(r) == pend # NoPend /\ pend.id # r /\ ~Recorded(pend.id)

-----------------------------------------------------------------------------
(* Whether a place that a request still waits for has got another round.   *)

\* The rounds in the ledger of tasks that have not ended.
Unfinished ==
    {task[q].round : q \in {t \in Rounds :
        task[t].state \in {"running", "suspended"} /\ task[t].round # 0}}

\* The places in use, and the rounds that may come to stand there.
Waiting ==
    {[at |-> worker[p].place.at, may |-> {worker[p].run}] :
       p \in {q \in Pids : worker[q].step # "idle" /\ worker[q].place.how = "replace"}}
    \union {[at |-> ask[r].place.at, may |-> {r}] :
       r \in {q \in Rounds : ask[q].place.how = "replace" /\
                \/ op.run = q
                \/ \E p \in Pids : At(p, "begin") /\ worker[p].run = q
                \/ task[q].state \in {"running", "suspended"} /\ task[q].round # 0}}
    \union {[at |-> pend.place.at, may |-> {pend.id}] :
       x \in {y \in {pend} : y.place.how = "replace"}}
    \union {[at |-> op.cut.at, may |-> {op.cut.named}] : x \in {y \in {op} : y.cut # NoCut}}

Occupant(h, n) == IF n \in 1..Len(h) THEN {h[n].id} ELSE {}

\* Another round has moved to such a place, or the place is gone.
Displaced ==
    \E w \in Waiting' :
        LET before == Occupant(history, w.at)  after == Occupant(history', w.at)
        IN  ~ after \subseteq w.may \union before \/ (after = {} /\ before # {})

\* A round leaves the history and a checkpoint of it stays.
Forgotten == (Ids(history) \ Ids(history')) \intersect ({pend'.id} \union Unfinished') # {}

Note(failure) ==
    /\ gone' = gone \union (Ids(history) \ Ids(history'))
    /\ stale' = (stale \/ Displaced \/ Forgotten)
    /\ failed' = (failed \/ failure)

Watch == Note(FALSE)

-----------------------------------------------------------------------------
(* The worker.                                                             *)

Generates(p, record) == worker' = [worker EXCEPT ![p] = record]

Idle(p) == Generates(p, Blank("alive"))

\* The manager of the generation: the one a failed end has left, or a new one,
\* which looks for a checkpoint of the dead first.
BeginManagers(p) ==
    IF worker[p].kept
    THEN {[history |-> history, pend |-> pend, ok |-> TRUE, place |-> worker[p].place]}
    ELSE Recover(End)

\* The task's row is made and the place of the request set.
Begin(p) ==
    /\ At(p, "begin") /\ ~worker[p].resumed
    /\ \E f \in BeginManagers(p) :
         /\ Files(f)
         /\ LET r == worker[p].run
                place == IF ask[r].place = End THEN f.place ELSE ask[r].place
            IN  IF f.ok
                THEN /\ Generates(p, [worker[p] EXCEPT !.step = "begun", !.place = place])
                     /\ task' = [task EXCEPT ![r] = [state |-> "running", owner |-> p,
                                                     round |-> 0]]
                ELSE Idle(p) /\ UNCHANGED task
         /\ Weak(~worker[p].kept /\ Foreign)
         /\ UNCHANGED <<ask, proxy, main, op, saved>>
         /\ Note(~f.ok)

\* A resumed task takes the round of the checkpoint file, whatever round it is,
\* with the name of its old writer; without the file, that of the ledger.
BeginResumed(p) ==
    /\ At(p, "begin") /\ worker[p].resumed
    /\ LET r == worker[p].run
           place == IF ask[r].place = End THEN worker[p].place ELSE ask[r].place
       IN  IF task[r].state = "running"
           THEN /\ Generates(p, [worker[p] EXCEPT
                        !.step = "open", !.place = place,
                        !.round = IF pend # NoPend THEN pend.id ELSE task[r].round,
                        !.pid = IF pend # NoPend THEN pend.pid ELSE p])
                /\ task' = [task EXCEPT ![r].owner = p]
                /\ Weak(\/ pend.id \notin {0, task[r].round} \/ task[r].round \in Ids(history)
                        \/ \E q \in Pids : Held(q, task[r].round))
           ELSE Idle(p) /\ UNCHANGED <<task, weak>>
    /\ UNCHANGED <<files, ask, proxy, main, op, saved>>
    /\ Watch

\* Mutant: the writer is the one its record names already.
CheckpointOfRecord(p, r, pid) ==
    [id |-> r, pid |-> worker[p].pid, place |-> worker[p].place]

\* What is written into .pending.
Checkpoint(p, r, pid) == [id |-> r, pid |-> pid, place |-> worker[p].place]

\* The first event of a round starts its checkpoint, over the one that is there.
Open(p) ==
    /\ At(p, "begun")
    /\ LET r == worker[p].run
       IN  /\ Generates(p, [worker[p] EXCEPT !.step = "open", !.round = r, !.pid = p])
           /\ \/ /\ pend' = Checkpoint(p, r, p)
                 /\ saved' = saved \union {r}
                 /\ Weak(Other(0))
              \/ Fails /\ UNCHANGED <<pend, saved, weak>>
    /\ UNCHANGED <<history, task, ask, proxy, main, op>>
    /\ Watch

\* Each later event writes the checkpoint again.
Event(p) ==
    /\ At(p, "open") /\ worker[p].round # 0
    /\ pend' = Checkpoint(p, worker[p].round, worker[p].pid)
    /\ saved' = saved \union {worker[p].round}
    /\ Weak(Other(worker[p].round))
    /\ UNCHANGED <<history, task, ask, worker, proxy, main, op>>
    /\ Watch

\* The ledger's checkpoint before a tool call holds a copy of the round.
SaveTask(p) ==
    /\ At(p, "open") /\ worker[p].round # 0
    /\ task[worker[p].run].state \in {"running", "suspended"}
    /\ task' = [task EXCEPT ![worker[p].run].round = worker[p].round]
    /\ UNCHANGED <<files, ask, worker, proxy, main, op, saved, weak>>
    /\ Watch

Ending(p, round, place) ==
    Generates(p, [worker[p] EXCEPT !.step = "closing", !.round = round, !.place = place])

\* The last event, done or error, through add_chat_history.
Complete(p) ==
    /\ At(p, "open")
    /\ LET r == worker[p].round
       IN  \E f \in Completions(r, worker[p].place) :
             /\ Files(f)
             /\ Ending(p, 0, Rest(history, worker[p].place))
             /\ Weak(~f.ok \/ Other(r))
             /\ UNCHANGED <<task, ask, proxy, main, op, saved>>
             /\ Note(~f.ok)

\* The user's stop, through stop_current_round.
Halt(p) ==
    /\ At(p, "open")
    /\ LET r == worker[p].round
       IN  \E f \in Finishes(r, worker[p].place) :
             /\ Files(f)
             /\ Ending(p, 0, Rest(history, worker[p].place))
             /\ Weak(Other(r))
             /\ UNCHANGED <<task, ask, proxy, main, op, saved>>
             /\ Note(~f.ok)

\* An early return, or an exception before the round is finished.
Quit(p) ==
    /\ worker[p].life = "alive" /\ worker[p].step \in {"begun", "open"}
    /\ Ending(p, worker[p].round, worker[p].place)
    /\ UNCHANGED <<files, task, ask, proxy, main, op, saved, weak>>
    /\ Watch

\* The pipe of the backend has ended: the task is left for a resumption.
Suspend(p) ==
    /\ Orphan(p) /\ worker[p].step \in {"begun", "open"}
    /\ task' = [task EXCEPT ![worker[p].run].state = "suspended"]
    /\ Ending(p, worker[p].round, worker[p].place)
    /\ UNCHANGED <<files, ask, proxy, main, op, saved, weak>>
    /\ Watch

\* The row of the task is closed before a round that is still there is finished.
Close(p) ==
    /\ At(p, "closing")
    /\ LET r == worker[p].run
           suspended == task[r].state = "suspended"
       IN  /\ IF suspended \/ worker[p].round = 0 THEN Idle(p)
              ELSE Generates(p, [worker[p] EXCEPT !.step = "closed"])
           /\ task' = [task EXCEPT ![r].state = IF suspended THEN @ ELSE "ended"]
    /\ UNCHANGED <<files, ask, proxy, main, op, saved, weak>>
    /\ Watch

\* The round that is still there is finished, and the manager dropped; a failed
\* write leaves the manager.
Clean(p) ==
    /\ At(p, "closed")
    /\ LET r == worker[p].round
       IN  \E f \in Finishes(r, worker[p].place) :
             /\ Files(f)
             /\ IF f.ok THEN Idle(p)
                ELSE Generates(p, [Blank("alive") EXCEPT
                         !.kept = TRUE, !.place = Rest(history, worker[p].place)])
             /\ Weak(Other(r))
             /\ UNCHANGED <<task, ask, proxy, main, op, saved>>
             /\ Note(~f.ok)

\* A worker without a backend leaves when nothing runs in it.
Leave(p) ==
    /\ Orphan(p) /\ At(p, "idle")
    /\ Generates(p, Blank("dead"))
    /\ UNCHANGED <<files, task, ask, proxy, main, op, saved, weak>>
    /\ Watch

\* The process dies, or is killed when a stop has waited too long.
Crash(p) ==
    /\ "worker" \in Faults
    /\ worker[p].life = "alive"
    /\ Generates(p, Blank("dead"))
    /\ UNCHANGED <<files, task, ask, proxy, main, op, saved, weak>>
    /\ Watch

-----------------------------------------------------------------------------
(* The backend.                                                            *)

\* _session_generation_busy, and one request at a time.
Busy == op # NoOp \/ (proxy # "nobody" /\ Alive(proxy) /\ worker[proxy].step # "idle")

\* A reader that finds no manager makes one; the scan after a start does the
\* same and drops it.
Look ==
    /\ ~main.made
    /\ \E f \in Recover(End) :
         /\ Files(f)
         /\ main' = IF f.ok THEN [made |-> TRUE, place |-> f.place] ELSE main
         /\ Weak(Foreign)
         /\ UNCHANGED <<task, ask, worker, proxy, op, saved>>
         /\ Note(~f.ok)

\* permission_store.pending suspends the tasks of the dead.
Sweeped ==
    [r \in Rounds |-> IF task[r].state = "running" /\ ~Alive(task[r].owner)
                      THEN [task[r] EXCEPT !.state = "suspended"] ELSE task[r]]

Aims(place) == IF place.how = "replace" THEN history[place.at].id ELSE 0

\* A message comes with a place in the history as the files show it.  Tasks left
\* behind are claimed, unless one of them is running or has a living writer.
Send(r, place) ==
    /\ ~Busy /\ main.made
    /\ r > Old /\ ~ask[r].asked /\ \A q \in Rounds : q < r => ask[q].asked
    /\ place.how \in Requests \union {"end"}
    /\ place.how = "replace" => place.at \in 1..Len(history)
    /\ place.how = "insert" => place.at \in Inserts /\ place.at <= Len(history)
    /\ ~\E q \in Rounds : Sweeped[q].state = "running" /\ Sweeped[q].round # 0
    /\ ~\E q \in Rounds : Sweeped[q].state = "suspended" /\ Alive(task[q].owner)
    /\ ask' = [ask EXCEPT ![r] = [place |-> place, aim |-> Aims(place), asked |-> TRUE]]
    /\ task' = [q \in Rounds |-> IF Sweeped[q].state = "suspended"
                                 THEN [Sweeped[q] EXCEPT !.owner = "backend"]
                                 ELSE Sweeped[q]]
    /\ op' = [NoOp EXCEPT !.kind = "send", !.run = r]
    /\ UNCHANGED <<files, worker, proxy, main, saved, weak>>
    /\ Watch

\* The tasks a send retires, or a stop ends, one after the other.
Left ==
    IF op.kind = "send"
    THEN {q \in Rounds : task[q].state = "suspended" /\ task[q].owner = "backend"}
    ELSE {q \in Rounds : task[q].state \in {"running", "suspended"} /\ task[q].round # 0}

\* The place of a saved round: that of its file, or of its task's request.
SavedPlace(t) ==
    LET r == task[t].round
        place == IF pend.id = r /\ pend.place # End THEN pend.place ELSE ask[t].place
    IN  IF place = End THEN main.place ELSE place

\* The claims that a failed send gives back.
Released == [q \in Rounds |-> IF task[q].owner = "backend" /\ task[q].state \in {"running", "suspended"}
                              THEN [task[q] EXCEPT !.state = "suspended", !.owner = "nobody"]
                              ELSE task[q]]

\* finish_saved_permission_round for one of them.
FinishSaved(t) ==
    /\ op.kind \in {"send", "stop"} /\ op.done = 0
    /\ t \in Left /\ \A q \in Left : t <= q
    /\ UNCHANGED <<ask, worker, proxy, saved>>
    /\ IF task[t].round = 0 \/ Recorded(task[t].round)
       THEN /\ op' = [op EXCEPT !.done = t]
            /\ UNCHANGED <<files, task, main, weak>>
            /\ Watch
       ELSE \E f \in Finishes(task[t].round, SavedPlace(t)) :
              /\ Files(f)
              /\ main' = [main EXCEPT !.place = Rest(history, SavedPlace(t))]
              /\ Weak(Other(task[t].round) \/ (op.kind = "stop" /\ Alive(task[t].owner)))
              /\ IF f.ok THEN op' = [op EXCEPT !.done = t] /\ UNCHANGED task
                 ELSE op' = NoOp /\ task' = (IF op.kind = "send" THEN Released ELSE task)
              /\ Note(~f.ok)

\* Then the task is cancelled.
Cancel ==
    /\ op.done # 0
    /\ task' = [task EXCEPT ![op.done].state = "ended"]
    /\ op' = [op EXCEPT !.done = 0]
    /\ UNCHANGED <<files, ask, worker, proxy, main, saved, weak>>
    /\ Watch

Dispatch(p, r, resumed) ==
    /\ IF proxy # "nobody" /\ Alive(proxy) THEN p = proxy ELSE worker[p].life = "new"
    /\ proxy' = p
    /\ worker' = [worker EXCEPT ![p] = [@ EXCEPT !.life = "alive", !.step = "begin",
                                            !.run = r, !.resumed = resumed]]

\* The manager looks for a checkpoint of the dead; it goes on without it.
Launch(p) ==
    /\ op.kind = "send" /\ op.done = 0 /\ Left = {}
    /\ Dispatch(p, op.run, FALSE)
    /\ \E f \in Recover(main.place) :
         /\ Files(f)
         /\ main' = [main EXCEPT !.place = f.place]
         /\ op' = NoOp
         /\ Weak(Foreign)
         /\ UNCHANGED <<task, ask, saved>>
         /\ Note(~f.ok)

Resume(t, p) ==
    /\ "resume" \in Requests
    /\ ~Busy /\ Sweeped[t].state = "suspended" /\ task[t].round # 0 /\ ~Alive(task[t].owner)
    /\ task' = [Sweeped EXCEPT ![t].state = "running", ![t].owner = "backend"]
    /\ Dispatch(p, t, TRUE)
    /\ UNCHANGED <<files, ask, main, op, saved, weak>>
    /\ Watch

\* A stop, when the worker of the session has ended its generation or was killed.
Stop ==
    /\ "stop" \in Requests
    /\ ~Busy /\ main.made
    /\ task' = Sweeped
    /\ op' = [NoOp EXCEPT !.kind = "stop"]
    /\ UNCHANGED <<files, ask, worker, proxy, main, saved, weak>>
    /\ Watch

\* What is left of a checkpoint, whoever has written it.
StopRound ==
    /\ op.kind = "stop" /\ op.done = 0 /\ Left = {}
    /\ \E f \in Recoveries(main.place, FALSE) :
         /\ Files(f)
         /\ main' = [main EXCEPT !.place = f.place]
         /\ op' = IF f.ok /\ op.cut # NoCut THEN [op EXCEPT !.kind = "cut"] ELSE NoOp
         /\ Weak(\E p \in Pids : pend # NoPend /\ ((pend.pid = p /\ Alive(p)) \/ Held(p, pend.id)))
         /\ UNCHANGED <<task, ask, worker, proxy, saved>>
         /\ Note(~f.ok)

\* The rounds that the rehearsal of a deletion shows.
Shown ==
    LET extra == {r \in Unfinished : ~Recorded(r)}
    IN  IF extra = {} THEN history
        ELSE Append(history, [id |-> CHOOSE r \in extra : \A q \in extra : r >= q, at |-> 1])

\* A round, or with all also the rounds after it, is to be deleted.  Tasks that
\* could be resumed are stopped first.
Delete(n, all) ==
    /\ "delete" \in Requests
    /\ ~Busy /\ main.made
    /\ n \in 1..Len(Shown)
    /\ op' = [NoOp EXCEPT
                 !.kind = IF Restorable THEN "stop" ELSE "cut",
                 !.cut = [at |-> n, all |-> all, named |-> Shown[n].id]]
    /\ task' = IF Restorable THEN Sweeped ELSE task
    /\ UNCHANGED <<files, ask, worker, proxy, main, saved, weak>>
    /\ Watch

Cut ==
    /\ op.kind = "cut" /\ op' = NoOp
    /\ LET n == op.cut.at
           left == IF op.cut.all THEN SubSeq(history, 1, n - 1) ELSE S!RemoveAt(history, n)
       IN  \/ n <= Len(history) /\ history' = left
           \/ (n > Len(history) \/ Fails) /\ UNCHANGED history
    /\ UNCHANGED <<pend, task, ask, worker, proxy, main, saved, weak>>
    /\ Watch

\* The backend dies and starts again.
Restart ==
    /\ "backend" \in Faults
    /\ proxy' = "nobody" /\ main' = NoManager /\ op' = NoOp
    /\ task' = [q \in Rounds |-> IF task[q].owner = "backend"
                                 THEN [task[q] EXCEPT !.owner = "nobody"] ELSE task[q]]
    /\ UNCHANGED <<files, ask, worker, saved, weak>>
    /\ Note(\E p \in Pids : worker[p].life = "alive")

-----------------------------------------------------------------------------

BackendStep ==
    \/ Look \/ Cancel \/ Stop \/ StopRound \/ Cut \/ Restart
    \/ \E r \in Rounds, place \in Places : Send(r, place)
    \/ \E t \in Rounds : FinishSaved(t)
    \/ \E p \in Pids : Launch(p)
    \/ \E t \in Rounds, p \in Pids : Resume(t, p)
    \/ \E n \in 1..MaxRounds, all \in BOOLEAN : Delete(n, all)

WorkerStep(p) ==
    \/ Begin(p) \/ BeginResumed(p) \/ Open(p) \/ Event(p) \/ SaveTask(p)
    \/ Complete(p) \/ Halt(p) \/ Quit(p) \/ Suspend(p) \/ Close(p) \/ Clean(p)
    \/ Leave(p) \/ Crash(p)

Next == BackendStep \/ \E p \in Pids : WorkerStep(p)

Spec == Init /\ [][Next]_vars

-----------------------------------------------------------------------------
(* Properties.                                                             *)

\* Stated of the behaviours in which no place and no checkpoint is used after
\* the history has changed under it, and none of the known weaknesses is met.
Sure == ~stale /\ ~weak

\* No round is written twice, although its worker, the next message, a stop,
\* a new manager and a resumption may each finish it from memory, from the
\* checkpoint file or from the ledger (_round_already_recorded).
NoDuplicates ==
    Sure => \A i, j \in 1..Len(history) : history[i].id = history[j].id => i = j

\* The rounds that are, or have been, in the history.
Done == gone \union Ids(history)

InFiles == saved \subseteq Done \union {pend.id}

\* A round whose checkpoint has been written stays in the checkpoint file until
\* it is in the history (_recover_pending_round_checkpoint): whoever dies, is
\* stopped or resumed, whatever places move, whether or not the file can be
\* written or removed, and even where a round is written twice.  Only a history
\* that could not be written, and a worker without its backend (failed), may
\* cost a round.
NotLost == ~failed => InFiles

-----------------------------------------------------------------------------
(* The inductive invariant.                                                *)

\* A worker has a request for each of its steps, and a round where it writes one;
\* the backend has what it does.
StepInv ==
    /\ op.kind = "send" => op.run # 0
    /\ op.kind = "cut" => op.cut # NoCut
    /\ op # NoOp /\ proxy # "nobody" => worker[proxy].step = "idle"
    /\ \A p \in Pids :
           /\ worker[p].step # "idle" => worker[p].life = "alive" /\ worker[p].run # 0
           /\ worker[p].step = "idle" => worker[p].run = 0 /\ worker[p].round = 0
           /\ worker[p].step \in {"open", "closed"} => worker[p].round # 0
           /\ worker[p].step = "open" => worker[p].pid \in Pids
           /\ worker[p].step \in {"begin", "begun"} => worker[p].round = 0
           /\ worker[p].step = "begun" => ~worker[p].resumed
           /\ worker[p].step = "begin" /\ worker[p].resumed => task[worker[p].run].round # 0

\* The request of p has not got its first event yet.
New(p) == worker[p].step \in {"begin", "begun"} /\ ~worker[p].resumed

\* The rounds before their first event.
Fresh ==
    ({op.run} \union {r \in Rounds : ~ask[r].asked}
              \union {worker[p].run : p \in {q \in Pids : New(q)}}) \ {0}

\* A request goes one way, and its round is nowhere before its first event.
FreshInv ==
    /\ op.run # 0 => ask[op.run].asked /\ task[op.run] = NoTask /\
                     \A p \in Pids : worker[p].run # op.run
    /\ op.done # 0 => task[op.done].state # "none"
    /\ \A r \in Rounds : ~ask[r].asked => task[r] = NoTask /\ \A p \in Pids : worker[p].run # r
    /\ \A p \in Pids : New(p) =>
           /\ \A q \in Pids \ {p} : worker[q].run # worker[p].run
           /\ worker[p].step = "begin" => task[worker[p].run] = NoTask
           /\ worker[p].step = "begun" => task[worker[p].run].owner = p
    /\ \A r \in Fresh :
           /\ r \notin Ids(history) /\ pend.id # r
           /\ \A t \in Rounds : task[t].round # r
           /\ \A p \in Pids : worker[p].round # r
           /\ task[r].round = 0

\* What was written into the checkpoint file is there still, or in the history.
SavedInv == Sure => InFiles

\* A request has the round it began, and its round the place it was asked for.
OwnInv ==
    /\ \A p \in Pids :
           /\ worker[p].round \in {0, worker[p].run}
           /\ worker[p].step \in {"idle", "begin"} => worker[p].place = End
           /\ worker[p].step \in {"begun", "open"} => worker[p].place = ask[worker[p].run].place
           /\ worker[p].step \in {"closing", "closed"} =>
                  \/ worker[p].place = ask[worker[p].run].place
                  \/ worker[p].place = End /\ worker[p].round = 0
    /\ \A t \in Rounds : task[t].round \in {0, t}
    /\ pend # NoPend => pend.place = ask[pend.id].place
    /\ main.place = End

\* Who has a round in memory is the only one, and its task's owner; the history has
\* not got the round.
HeldInv ==
    \A p \in Pids, r \in Rounds : Held(p, r) =>
        /\ r \notin Ids(history)
        /\ \A q \in Pids \ {p} : ~Held(q, r)
        /\ task[r].owner = p
        /\ pend.id = r => pend.pid = worker[p].pid

\* A round that may still be written.
Active(r) ==
    \/ op.run = r \/ pend.id = r
    \/ task[r].state \in {"running", "suspended"} /\ task[r].round # 0
    \/ \E p \in Pids : /\ worker[p].run = r
                       /\ worker[p].step = "begin" \/ worker[p].place.how = "replace"

\* The place of a round that replaces another has that one or the round itself.
PlaceInv ==
    /\ \A r \in Rounds : Active(r) /\ ask[r].place.how = "replace" =>
           /\ ask[r].place.at \in 1..Len(history)
           /\ \/ history[ask[r].place.at].id = r
              \/ history[ask[r].place.at].id = ask[r].aim /\ r \notin Ids(history)
    /\ \A i \in 1..Len(history) :
           history[i].at = history[i].id \/ ask[history[i].id].place.how = "replace"
    /\ op.cut # NoCut /\ op.cut.at \in 1..Len(history) => history[op.cut.at].id = op.cut.named

\* The file has nothing that is not in the history, or nothing but round r.
Spent == pend.id \in {0} \union Done

Covers(r) == pend.id \in {0, r} \union Done

Live(t) == task[t].state \in {"running", "suspended"}

Working == {"begun", "open", "closing"}

\* There is one worker, that of the backend, and its names are no later one's.
AloneInv ==
    /\ \A p \in Pids :
           /\ worker[p].life = "alive" => p = proxy
           /\ ~worker[p].kept
           /\ worker[p].pid \in Pids => worker[worker[p].pid].life # "new"
    /\ pend.pid \in Pids => worker[pend.pid].life # "new"

\* One task at a time is not ended, and none when a new one begins.
LiveInv ==
    /\ \A t, u \in Rounds : Live(t) /\ Live(u) => t = u
    /\ \A t \in Rounds : Live(t) =>
           /\ \A p \in Pids :
                  /\ task[t].owner = p /\ worker[p].life = "alive" => worker[p].step \in Working
                  /\ ~(New(p) /\ worker[p].step = "begin")
           /\ task[t].state = "running" /\ task[t].owner = "backend" => task[t].round # 0
           /\ op.kind = "send" => task[t].state = "suspended" /\ task[t].owner = "backend"
    /\ \A p \in Pids : worker[p].step \in Working => task[worker[p].run].state = "running"

\* The file is not written over while it has a round the history has not got.
FileInv ==
    /\ \A t \in Rounds : Live(t) /\ task[t].round # 0 => Covers(task[t].round)
    /\ \A p \in Pids :
           /\ worker[p].round # 0 => Covers(worker[p].round)
           /\ worker[p].step \in {"begun", "closing"} /\ worker[p].round = 0 => Spent
           /\ (At(p, "idle") \/ At(p, "begin")) /\ pend.pid = p => Spent
           /\ worker[p].step = "open" =>
                  \/ task[worker[p].run].round \in {0, worker[p].round}
                  \/ worker[p].round \in Done

RoundInv ==
    /\ TypeOK /\ StepInv /\ FreshInv /\ SavedInv
    /\ ~failed => AloneInv /\ LiveInv /\ FileInv /\ InFiles
    /\ Sure => OwnInv /\ HeldInv /\ PlaceInv /\ NoDuplicates
=============================================================================
