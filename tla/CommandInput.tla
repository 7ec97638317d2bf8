---------------------------- MODULE CommandInput ----------------------------
(***************************************************************************)
(* Input for an interactive command.  A sender leaves a request file and   *)
(* waits for its acknowledgement; the writer thread of the command's       *)
(* runner takes the files, writes the text to the child and acknowledges;  *)
(* the end of the runner, or a stop from outside, erases what is left.     *)
(*                                                                         *)
(* Senders, the runner's end and the stop exclude each other by the lock   *)
(* of the terminal.  The writer takes no lock.                             *)
(***************************************************************************)
EXTENDS Naturals, Sequences, FiniteSets

S == INSTANCE SequencesExt

CONSTANTS
    Senders,      \* calls of send that bring input
    IdOf,         \* the request id of a call; a retry has that of the first
    TextOf,       \* its text
    NoText,       \* the fingerprint of a request that could not be read
    MaxRequests,  \* MAX_REQUESTS
    Kinds,        \* subset of {"tty", "pipe"}: a terminal of its own (or Windows),
                  \* or pipes on POSIX
    Faults        \* subset of {"stop", "kill", "sender", "slow", "metadata"}

Ids == {IdOf[s] : s \in Senders}

Texts == {TextOf[s] : s \in Senders}

ASSUME InputAssumption ==
    /\ DOMAIN IdOf = Senders /\ DOMAIN TextOf = Senders
    /\ NoText \notin Texts
    /\ Senders \intersect {"free", "runner", "stop"} = {}
    /\ MaxRequests \in Nat
    /\ Kinds \subseteq {"tty", "pipe"}
    /\ Faults \subseteq {"stop", "kill", "sender", "slow", "metadata"}

VARIABLES
    files,      \* the request files, oldest first
    ack,        \* the acknowledgement files
    outcome,    \* the outcome file of the runner exists
    lock,       \* who holds the lock of the terminal
    call,       \* where a call of send is
    told,       \* the input_status it has seen last
    wpc,        \* where the writer thread is
    queue,      \* the requests the writer has listed
    taken,      \* the text it has read
    child,      \* the command runs
    rpc,        \* where the runner is
    spc,        \* where the stop from outside is
    sweep,      \* the requests finish_pending has listed
    born,       \* request ids in the order of their first file
    delivered   \* what the child has got: request id and text

box == <<files, ack>>
sends == <<call, told, born>>
writer == <<wpc, queue, taken, delivered>>
ends == <<outcome, child, rpc, spc, sweep>>
vars == <<box, lock, sends, writer, ends>>

Statuses == {"none", "queued", "writing", "accepted", "failed"}

CallPcs == {"idle", "ack", "request", "body", "live", "write", "wait", "done",
            "refused"}

WriterPcs == {"list", "take", "mark", "unlink", "deliver", "accept", "ended"}

RunnerPcs == {"run", "terminate", "join", "outcome", "pending", "sweep",
              "gone", "failed", "killed"}

StopPcs == {"idle", "pending", "sweep", "stopped"}

Inputs == [id : Ids, text : Texts]

Holders == {"free", "runner", "stop"} \union Senders

\* An acknowledgement holds a fingerprint of the text, never the text.
Acks == [status : Statuses \ {"queued"}, text : Texts \union {NoText}]

TypeOK ==
    /\ files \in Seq(Inputs)
    /\ ack \in [Ids -> Acks]
    /\ outcome \in BOOLEAN /\ child \in BOOLEAN
    /\ lock \in Holders
    /\ call \in [Senders -> CallPcs]
    /\ told \in [Senders -> Statuses]
    /\ wpc \in WriterPcs
    /\ queue \in Seq(Ids)
    /\ taken \in Texts \union {NoText}
    /\ rpc \in RunnerPcs /\ spc \in StopPcs
    /\ sweep \subseteq Ids
    /\ born \in Seq(Ids)
    /\ delivered \in Seq(Inputs)

Init ==
    /\ files = <<>>
    /\ ack = [r \in Ids |-> [status |-> "none", text |-> NoText]]
    /\ outcome = FALSE /\ child = TRUE
    /\ lock = "free"
    /\ call = [s \in Senders |-> "idle"]
    /\ told = [s \in Senders |-> "none"]
    /\ wpc = "list" /\ queue = <<>> /\ taken = NoText
    /\ rpc = "run" /\ spc = "idle" /\ sweep = {}
    /\ born = <<>> /\ delivered = <<>>

-----------------------------------------------------------------------------
(* The files of the terminal.                                              *)

Requested == {files[i].id : i \in 1..Len(files)}

FileOf(r) == CHOOSE i \in 1..Len(files) : files[i].id = r

TextIn(r) == files[FileOf(r)].text

Acked(r) == ack[r].status # "none"

Without(r) == IF r \in Requested THEN S!RemoveAt(files, FileOf(r)) ELSE files

Acknowledge(r, status, text) ==
    ack' = [ack EXCEPT ![r] = [status |-> status, text |-> text]]

\* The group of the supervisor lives: what send asks snapshot for.
Live == rpc \notin {"gone", "failed", "killed"}

-----------------------------------------------------------------------------
(* send.                                                                   *)

At(s, pc) == call[s] = pc
Goes(s, pc) == call' = [call EXCEPT ![s] = pc]
Told(s, status) == told' = [told EXCEPT ![s] = status]

Call(s) ==
    /\ At(s, "idle") /\ lock = "free"
    /\ lock' = s /\ Goes(s, "ack")
    /\ UNCHANGED <<box, told, born, writer, ends>>

\* The lock is not free within three seconds.
LockTimeout(s) ==
    /\ At(s, "idle") /\ lock # "free"
    /\ Goes(s, "refused")
    /\ UNCHANGED <<box, lock, told, born, writer, ends>>

\* A request id that was used for another text is refused.
Answered(s, status, text) ==
    /\ lock' = "free"
    /\ IF text = TextOf[s] THEN Goes(s, "wait") /\ Told(s, status)
       ELSE Goes(s, "refused") /\ UNCHANGED told

SeeAck(s) ==
    /\ At(s, "ack")
    /\ IF Acked(IdOf[s]) THEN Answered(s, ack[IdOf[s]].status, ack[IdOf[s]].text)
       ELSE Goes(s, "request") /\ UNCHANGED <<lock, told>>
    /\ UNCHANGED <<box, born, writer, ends>>

SeeRequest(s) ==
    /\ At(s, "request")
    /\ Goes(s, IF IdOf[s] \in Requested THEN "body" ELSE "live")
    /\ UNCHANGED <<box, lock, told, born, writer, ends>>

Refuse(s) == Goes(s, "refused") /\ lock' = "free"

\* The writer may have unlinked the file that was seen.
ReadRequest(s) ==
    /\ At(s, "body")
    /\ IF IdOf[s] \in Requested THEN Answered(s, "queued", TextIn(IdOf[s]))
       ELSE Refuse(s) /\ UNCHANGED told
    /\ UNCHANGED <<box, born, writer, ends>>

\* Mutant: the outcome file alone tells that the terminal has ended.
LiveUnchecked(s) ==
    /\ At(s, "live")
    /\ IF outcome THEN Refuse(s) ELSE Goes(s, "write") /\ UNCHANGED lock
    /\ UNCHANGED <<box, told, born, writer, ends>>

\* The terminal has not ended: it has no outcome, and its group lives.
SeeLive(s) ==
    /\ At(s, "live")
    /\ IF outcome \/ ~Live THEN Refuse(s) ELSE Goes(s, "write") /\ UNCHANGED lock
    /\ UNCHANGED <<box, told, born, writer, ends>>

\* Request and acknowledgement files both count.
FilesCounted ==
    Cardinality(Requested) + Cardinality({r \in Ids : Acked(r)})

BornWith(r) == IF \E i \in 1..Len(born) : born[i] = r THEN born ELSE Append(born, r)

WriteRequest(s) ==
    /\ At(s, "write")
    /\ IF FilesCounted >= MaxRequests
       THEN Refuse(s) /\ UNCHANGED <<files, told, born>>
       ELSE /\ files' = Append(files, [id |-> IdOf[s], text |-> TextOf[s]])
            /\ born' = BornWith(IdOf[s])
            /\ lock' = "free" /\ Goes(s, "wait") /\ Told(s, "queued")
    /\ UNCHANGED <<ack, writer, ends>>

\* The acknowledgement is polled for a second.
Poll(s) ==
    /\ At(s, "wait") /\ Acked(IdOf[s])
    /\ Told(s, ack[IdOf[s]].status)
    /\ IF ack[IdOf[s]].status = "writing" THEN UNCHANGED call ELSE Goes(s, "done")
    /\ UNCHANGED <<box, lock, born, writer, ends>>

WaitEnds(s) ==
    /\ At(s, "wait") /\ Goes(s, "done")
    /\ UNCHANGED <<box, lock, told, born, writer, ends>>

\* The worker of a sender dies, or its tool is cancelled; the lock is released.
SenderDies(s) ==
    /\ "sender" \in Faults /\ lock = s
    /\ Refuse(s)
    /\ UNCHANGED <<box, told, born, writer, ends>>

-----------------------------------------------------------------------------
(* serve, in a thread of the runner.                                       *)

WriterGoes(pc) == wpc' = pc

\* On to the next request of the list.
Done ==
    /\ WriterGoes(IF Len(queue) = 1 THEN "list" ELSE "take")
    /\ queue' = Tail(queue) /\ taken' = NoText

\* The thread is over, with its runner or by an error it does not catch.
WriterOver == WriterGoes("ended") /\ queue' = <<>> /\ taken' = NoText

\* Mutant: the requests are served in the order of their names.
ListAny ==
    /\ wpc = "list" /\ child /\ files # <<>>
    /\ \E q \in [1..Len(files) -> Requested] :
         /\ {q[i] : i \in 1..Len(files)} = Requested
         /\ queue' = q
    /\ WriterGoes("take")
    /\ UNCHANGED <<box, lock, sends, taken, delivered, ends>>

\* The files in the order of their times.
List ==
    /\ wpc = "list" /\ child /\ files # <<>>
    /\ queue' = [i \in 1..Len(files) |-> files[i].id]
    /\ WriterGoes("take")
    /\ UNCHANGED <<box, lock, sends, taken, delivered, ends>>

WriterEnds ==
    /\ wpc = "list" /\ ~child /\ WriterOver
    /\ UNCHANGED <<box, lock, sends, delivered, ends>>

\* The failure is acknowledged and the file unlinked; a failure to acknowledge
\* it ends the thread.
Failed ==
    \/ Acknowledge(Head(queue), "failed", taken)
       /\ files' = Without(Head(queue)) /\ Done
    \/ "metadata" \in Faults /\ UNCHANGED box /\ WriterOver

\* Mutant: an acknowledged request is written again.
TakeAgain ==
    /\ wpc = "take"
    /\ IF Head(queue) \in Requested
       THEN taken' = TextIn(Head(queue)) /\ WriterGoes("mark")
            /\ UNCHANGED <<box, queue>>
       ELSE Failed
    /\ UNCHANGED <<lock, sends, delivered, ends>>

\* A file that is gone fails, without a fingerprint; one that has an
\* acknowledgement was taken before.
Take ==
    /\ wpc = "take"
    /\ LET r == Head(queue)
       IN  \/ r \notin Requested /\ Failed
          \/ /\ r \in Requested /\ Acked(r)
             /\ files' = Without(r) /\ Done /\ UNCHANGED ack
          \/ /\ r \in Requested /\ ~Acked(r)
             /\ taken' = TextIn(r) /\ WriterGoes("mark") /\ UNCHANGED <<box, queue>>
    /\ UNCHANGED <<lock, sends, delivered, ends>>

Mark ==
    /\ wpc = "mark"
    /\ \/ Acknowledge(Head(queue), "writing", taken) /\ WriterGoes("unlink")
          /\ UNCHANGED <<files, queue, taken>>
       \/ "metadata" \in Faults /\ Failed
    /\ UNCHANGED <<lock, sends, delivered, ends>>

Unlink ==
    /\ wpc = "unlink"
    /\ files' = Without(Head(queue))
    /\ WriterGoes("deliver")
    /\ UNCHANGED <<ack, lock, sends, queue, taken, delivered, ends>>

Given == delivered' = Append(delivered, [id |-> Head(queue), text |-> taken])

\* Mutant: the receipt is written with the text still to be delivered.
AcceptEarly ==
    /\ wpc = "deliver"
    /\ Acknowledge(Head(queue), "accepted", taken) /\ Done
    /\ UNCHANGED <<files, lock, sends, delivered, ends>>

Deliver ==
    /\ wpc = "deliver" /\ child
    /\ Given /\ WriterGoes("accept")
    /\ UNCHANGED <<box, lock, sends, queue, taken, ends>>

\* The child is gone, which the writer has seen or its write fails; the child
\* may have read the text before it went.
DeliverFails ==
    /\ wpc = "deliver" /\ ~child
    /\ Failed
    /\ Given \/ UNCHANGED delivered
    /\ UNCHANGED <<lock, sends, ends>>

\* The commit of the receipt may fail although the text is written.
Accept ==
    /\ wpc = "accept"
    /\ \/ Acknowledge(Head(queue), "accepted", taken) /\ Done /\ UNCHANGED files
       \/ "metadata" \in Faults /\ Failed
    /\ UNCHANGED <<lock, sends, delivered, ends>>

Writer == List \/ WriterEnds \/ Take \/ Mark \/ Unlink \/ DeliverFails \/ Accept

-----------------------------------------------------------------------------
(* The runner.                                                             *)

RunnerGoes(pc) == rpc' = pc

ChildExits ==
    /\ child /\ child' = FALSE
    /\ UNCHANGED <<box, lock, sends, writer, outcome, rpc, spc, sweep>>

\* The deadline, the cancel file, the owner's death or a signal: the reason is
\* recorded first, without the lock.
Cancel ==
    /\ rpc = "run" /\ child
    /\ outcome' = TRUE /\ RunnerGoes("terminate")
    /\ UNCHANGED <<box, lock, sends, writer, child, spc, sweep>>

\* The group of the command is killed, its runner in it.
Dead ==
    /\ child' = FALSE /\ WriterOver /\ RunnerGoes("killed")
    /\ lock' = IF lock = "runner" THEN "free" ELSE lock

\* On POSIX a command with pipes shares the group of its runner, which kills
\* itself with it.
Terminate ==
    /\ rpc = "terminate"
    /\ \/ "tty" \in Kinds /\ child' = FALSE /\ RunnerGoes("join")
          /\ UNCHANGED <<lock, wpc, queue, taken>>
       \/ "pipe" \in Kinds /\ Dead
    /\ UNCHANGED <<box, sends, delivered, outcome, spc, sweep>>

SeeExit ==
    /\ rpc = "run" /\ ~child /\ RunnerGoes("join")
    /\ UNCHANGED <<box, lock, sends, writer, outcome, child, spc, sweep>>

\* The writer is waited for, but not for ever.
Join ==
    /\ rpc = "join" /\ (wpc = "ended" \/ "slow" \in Faults)
    /\ RunnerGoes("outcome")
    /\ UNCHANGED <<box, lock, sends, writer, outcome, child, spc, sweep>>

WriteOutcome ==
    /\ rpc = "outcome" /\ lock = "free"
    /\ outcome' = TRUE /\ RunnerGoes("pending")
    /\ UNCHANGED <<box, lock, sends, writer, child, spc, sweep>>

\* The lock is not free within three seconds: the runner ends with an error.
RunnerLockTimeout ==
    /\ "slow" \in Faults
    /\ rpc \in {"outcome", "pending"} /\ lock # "free"
    /\ RunnerGoes("failed") /\ WriterOver
    /\ UNCHANGED <<box, lock, sends, delivered, outcome, child, spc, sweep>>

-----------------------------------------------------------------------------
(* finish_pending, by the runner or by the stop.                           *)

ListPending(who) == lock = "free" /\ lock' = who /\ sweep' = Requested

\* Mutant: an acknowledged request is passed over.
EraseUnacked ==
    \E r \in sweep :
        /\ sweep' = sweep \ {r}
        /\ IF r \in Requested /\ ~Acked(r)
           THEN Acknowledge(r, "failed", TextIn(r)) /\ files' = Without(r)
           ELSE UNCHANGED box

\* A body that is still there is acknowledged as failed, whatever its
\* acknowledgement says, and unlinked even if that fails.
Erase ==
    \E r \in sweep :
        /\ sweep' = sweep \ {r}
        /\ files' = Without(r)
        /\ \/ r \in Requested /\ Acknowledge(r, "failed", TextIn(r))
           \/ (r \notin Requested \/ "metadata" \in Faults) /\ UNCHANGED ack

RunnerPending ==
    /\ rpc = "pending" /\ ListPending("runner") /\ RunnerGoes("sweep")
    /\ UNCHANGED <<box, sends, writer, outcome, child, spc>>

RunnerErases ==
    /\ rpc = "sweep" /\ Erase
    /\ UNCHANGED <<lock, sends, writer, outcome, child, rpc, spc>>

\* The end of the process ends the writer.
RunnerGone ==
    /\ rpc = "sweep" /\ sweep = {}
    /\ RunnerGoes("gone") /\ lock' = "free" /\ WriterOver
    /\ UNCHANGED <<box, sends, delivered, outcome, child, spc, sweep>>

\* stop_command ends the group, by a signal the runner may answer first and a
\* kill after two seconds, and marks the job as stopped.
StopKills ==
    /\ "stop" \in Faults /\ spc = "idle" /\ spc' = "pending"
    /\ IF Live THEN Dead ELSE UNCHANGED <<child, wpc, queue, taken, rpc, lock>>
    /\ UNCHANGED <<box, sends, delivered, outcome, sweep>>

StopPending ==
    /\ spc = "pending" /\ ListPending("stop") /\ spc' = "sweep"
    /\ UNCHANGED <<box, sends, writer, outcome, child, rpc>>

StopErases ==
    /\ spc = "sweep" /\ Erase
    /\ UNCHANGED <<lock, sends, writer, outcome, child, rpc, spc>>

StopEnds ==
    /\ spc = "sweep" /\ sweep = {}
    /\ spc' = "stopped" /\ lock' = "free"
    /\ UNCHANGED <<box, sends, writer, outcome, child, rpc, sweep>>

\* The group is killed by somebody else, or the machine goes down.
Killed ==
    /\ "kill" \in Faults /\ Live /\ Dead
    /\ UNCHANGED <<box, sends, delivered, outcome, spc, sweep>>

-----------------------------------------------------------------------------

Calling(s) ==
    \/ SeeAck(s) \/ SeeRequest(s) \/ ReadRequest(s) \/ SeeLive(s)
    \/ WriteRequest(s) \/ Poll(s) \/ WaitEnds(s)

Runner ==
    \/ Cancel \/ Terminate \/ SeeExit \/ Join \/ WriteOutcome
    \/ RunnerPending \/ RunnerErases \/ RunnerGone

Stopping == StopPending \/ StopErases \/ StopEnds

Next ==
    \/ \E s \in Senders : Call(s) \/ LockTimeout(s) \/ Calling(s) \/ SenderDies(s)
    \/ Writer \/ Deliver \/ ChildExits
    \/ Runner \/ RunnerLockTimeout
    \/ StopKills \/ Stopping \/ Killed

Spec == Init /\ [][Next]_vars

\* A call that has begun, the writer, the runner and the stop go on.  The child
\* need not read (Deliver is not fair): then the deadline of the command ends it.
FairSpec ==
    /\ Spec
    /\ \A s \in Senders : WF_vars(Calling(s))
    /\ WF_vars(Writer) /\ WF_vars(Runner) /\ WF_vars(Stopping)

-----------------------------------------------------------------------------
(* Properties.                                                             *)

\* However often a request is sent again, and whenever the writer, the runner
\* or a sender ends, the child gets the text of a request at most once.
DeliveredOnce ==
    \A i, j \in 1..Len(delivered) : delivered[i].id = delivered[j].id => i = j

Place(r) == CHOOSE i \in 1..Len(born) : born[i] = r

\* The child gets the texts in the order in which their requests were first
\* left, though requests are listed without the lock and left again by retries.
InOrder ==
    \A i, j \in 1..Len(delivered) :
        i < j => Place(delivered[i].id) < Place(delivered[j].id)

\* A sender that is told "accepted" is told so of the text it has sent, and the
\* child has got it.
AcceptedIsDelivered ==
    \A s \in Senders :
        told[s] = "accepted" =>
            \E i \in 1..Len(delivered) :
                delivered[i] = [id |-> IdOf[s], text |-> TextOf[s]]

\* No request body outlives a terminal that ended by itself or by a stop: not
\* even one whose sender was already past its checks.
NothingIsLeft == rpc = "gone" \/ spc = "stopped" => files = <<>>

\* A request file is served or erased in the end, unless the runner is killed
\* or fails: a child that does not read does not keep it for ever.
ServedOrErased ==
    \A r \in Ids : r \in Requested ~> r \notin Requested \/ rpc \in {"killed", "failed"}

-----------------------------------------------------------------------------
(* The inductive invariant.                                                *)

Asked == {[id |-> IdOf[s], text |-> TextOf[s]] : s \in Senders}

Received == {delivered[i].id : i \in 1..Len(delivered)}

\* One file for each request, with the text of one of its senders.
FilesInv ==
    /\ \A i, j \in 1..Len(files) : files[i].id = files[j].id => i = j
    /\ \A i \in 1..Len(files) : files[i] \in Asked

\* What the writer has in its hands was not delivered before, and from the mark
\* on the request has its acknowledgement.
WriterInv ==
    /\ wpc \in {"take", "mark", "unlink", "deliver", "accept"} => queue # <<>>
    /\ wpc \in {"mark", "unlink", "deliver", "accept"} =>
           [id |-> Head(queue), text |-> taken] \in Asked
    /\ wpc \in {"unlink", "deliver", "accept"} => Acked(Head(queue))
    /\ wpc \in {"mark", "unlink", "deliver"} => Head(queue) \notin Received
    /\ wpc = "accept" => Head(queue) \in Received

\* A text that was delivered has an acknowledgement; "accepted" comes after it.
DeliveryInv ==
    /\ \A i \in 1..Len(delivered) : delivered[i] \in Asked
    /\ \A r \in Received : Acked(r)
    /\ \A r \in Ids : ack[r].status = "accepted" => r \in Received
    /\ \A s \in Senders : told[s] = "accepted" => IdOf[s] \in Received

Inside == {"ack", "request", "body", "live", "write"}

\* A sender between its first look and its file has the lock, and so has who
\* erases what it has listed; nobody leaves a file once the terminal has ended.
LockInv ==
    /\ \A s \in Senders : call[s] \in Inside <=> lock = s
    /\ \A s \in Senders : call[s] \in {"live", "write"} => IdOf[s] \notin Requested
    /\ rpc = "sweep" => lock = "runner" /\ Requested \subseteq sweep
    /\ spc # "idle" => ~Live
    /\ spc = "sweep" => lock = "stop" /\ Requested \subseteq sweep
    /\ rpc = "gone" \/ spc = "stopped" =>
           /\ files = <<>>
           /\ \A s \in Senders : call[s] # "write"

Born == {born[i] : i \in 1..Len(born)}

Queued == {queue[i] : i \in 1..Len(queue)}

Before(q, r) == Place(q) < Place(r)

\* The requests that may still be delivered: a file that was left again by a retry
\* has an acknowledgement.
Open == {r \in Requested \union Queued : ~Acked(r)}

\* A file is gone without an acknowledgement only where the end erases it, so nobody
\* who may still leave a file brings such a request again.
BornInv ==
    /\ \A i, j \in 1..Len(born) : born[i] = born[j] => i = j
    /\ Requested \union Queued \union Received \subseteq Born
    /\ \A r \in Born \ Requested : Acked(r) \/ rpc = "sweep" \/ ~Live
    /\ \A s \in Senders : call[s] = "write" => Acked(IdOf[s]) \/ IdOf[s] \notin Born

\* Open requests stand in the order of their first files, in the directory and in the
\* list of the writer, and come after what was delivered and what is in its hands.
OrderInv ==
    /\ \A i, j \in 1..Len(files) :
           i < j /\ {files[i].id, files[j].id} \subseteq Open => Before(files[i].id, files[j].id)
    /\ \A i, j \in 1..Len(queue) :
           i < j /\ {queue[i], queue[j]} \subseteq Open => Before(queue[i], queue[j])
    /\ \A q \in Queued \intersect Open, r \in Open \ Queued : Before(q, r)
    /\ \A q \in Received, r \in Open : Before(q, r)
    /\ wpc \in {"mark", "unlink", "deliver"} =>
           /\ \A q \in Received : Before(q, Head(queue))
           /\ \A r \in Open \ {Head(queue)} : Before(Head(queue), r)

InputInv == TypeOK /\ FilesInv /\ WriterInv /\ DeliveryInv /\ LockInv /\ DeliveredOnce

RequestInv == InputInv /\ BornInv /\ OrderInv /\ InOrder
=============================================================================
