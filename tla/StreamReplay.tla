----------------------------- MODULE StreamReplay -----------------------------
(***************************************************************************)
(* The stream of one generation and the pages that read it: the last       *)
(* frames in a bounded deque, all of them in a journal as long as that can *)
(* be written, a page for the request that started the generation and any  *)
(* number that attach to it later (factory/chat_factory,                   *)
(* factory/agent_runtime/stream_replay).                                   *)
(*                                                                         *)
(* The thread that reads the worker's pipe emits frames at any moment; the *)
(* event loop runs one coroutine between two awaits, and a page comes to   *)
(* an await with every frame it is sent.                                   *)
(***************************************************************************)
EXTENDS Integers, Sequences, FiniteSets

CONSTANTS
    Pages,      \* the requests that read
    NoPage,
    Creators,   \* the page of the request that starts the generation: one of these
    MaxFrames,  \* bound: frames of the stream
    Buffer,     \* _SESSION_STREAM_MAX_BUFFER
    Faults      \* what may fail: the start, a write or a read of the journal

ASSUME StreamAssumption ==
    /\ {MaxFrames, Buffer} \subseteq Nat
    /\ Buffer > 1      \* room for a warning and an error of the start
    /\ IsFiniteSet(Pages) /\ NoPage \notin Pages /\ Creators \subseteq Pages \cup {NoPage}
    /\ Faults \subseteq {"start", "append", "read"}

VARIABLES
    phase,      \* how far the request that starts the generation has come
    creator,    \* its page
    deque,      \* buffer and _buffer_end_offsets: the last frames
    seq,        \* how many frames there have been; a frame is its number
    journal,    \* StreamReplayJournal: the frames written to it, and if it is open
    complete,   \* _replay_complete
    round,      \* round_start_seq and _round_start_offset, and if they are set
    readers,    \* _replay_readers
    done,
    called,     \* the event loop has calls of notify to run
    page,       \* the requests that read
    final,      \* history: how many frames there were when the stream was done
    failed      \* history: a write or a read of the journal has failed

stream == <<deque, seq, journal, complete, round, readers, done>>
history == <<final, failed>>
vars == <<phase, creator, stream, called, page, history>>

NoOffset == -1
NoRound == [seq |-> 0, offset |-> 0, set |-> FALSE]
NewPage == [pc |-> "new", from |-> 0, seen |-> 0, offset |-> 0,
            told |-> FALSE, gap |-> FALSE, got |-> <<>>]

Init ==
    /\ phase = "starting" /\ creator \in Creators
    /\ deque = <<>> /\ seq = 0
    /\ journal = [frames |-> <<>>, open |-> TRUE] /\ complete = TRUE
    /\ round = NoRound
    /\ readers = 0 /\ done = FALSE
    /\ called = FALSE /\ final = 0 /\ failed = FALSE
    /\ page = [c \in Pages |-> NewPage]

Works(what) == IF what \in Faults THEN BOOLEAN ELSE {TRUE}     \* it does, or may fail
-----------------------------------------------------------------------------
(* _SessionStream                                                          *)

\* Mutant: a deque without a bound.
NewestAll(s) == s

\* A deque of _SESSION_STREAM_MAX_BUFFER frames.
Newest(s) == IF Len(s) > Buffer THEN Tail(s) ELSE s

\* The frame goes to the journal, as long as every one before it did, and to the deque.
emit ==
    \E ok \in Works("append") :
        LET kept == complete /\ journal.open /\ ok
            offset == Len(journal.frames) + 1
        IN /\ seq < MaxFrames /\ seq' = seq + 1
           /\ journal' = IF kept THEN [journal EXCEPT !.frames = Append(@, seq + 1)]
                         ELSE [journal EXCEPT !.open = FALSE]
           /\ complete' = kept
           /\ failed' = (failed \/ (complete /\ ~ok))
           /\ deque' = Newest(Append(deque, [frame |-> seq + 1,
                                             end |-> IF kept THEN offset ELSE NoOffset]))

\* The first round of the generation is where a replay begins; a later one changes nothing.
set_round_start ==
    /\ ~round.set
    /\ round' = [seq |-> seq, offset |-> Len(journal.frames), set |-> TRUE]

acquire_replay == readers' = readers + 1

\* Mutant: only the end of the stream closes the journal.
release_replayOpen ==
    /\ readers' = readers - 1
    /\ UNCHANGED journal

\* The last reader of a stream that is done closes the journal.
release_replay ==
    /\ readers' = readers - 1
    /\ journal' = [journal EXCEPT !.open = @ /\ ~(done /\ readers = 1)]

Waiting(c) == page[c].pc = "waiting"
Woken == [c \in Pages |-> IF Waiting(c) THEN [page[c] EXCEPT !.pc = "live"] ELSE page[c]]

\* Mutant: the journal is closed whoever reads.
finishCloses ==
    /\ done' = TRUE
    /\ final' = IF done THEN final ELSE seq
    /\ journal' = [journal EXCEPT !.open = FALSE]

\* So does the stream when it is done and nobody reads.
finish ==
    /\ done' = TRUE
    /\ final' = IF done THEN final ELSE seq
    /\ journal' = [journal EXCEPT !.open = @ /\ readers # 0]

base == seq - Len(deque)

\* The journal has the whole record at an offset.
Readable(offset, ok) == journal.open /\ ok /\ offset \in 0..(Len(journal.frames) - 1)

\* A frame the deque has dropped comes from the journal; if that fails, the oldest
\* of the deque is next, and the frames in between are a gap.
FromJournal(r, ok) == r.seen < base /\ complete /\ Readable(r.offset, ok)
JournalFails(r, ok) == r.seen < base /\ complete /\ ~Readable(r.offset, ok)

AfterJournal(r) ==
    [r EXCEPT !.seen = @ + 1, !.offset = @ + 1,
              !.got = Append(@, journal.frames[r.offset + 1])]

\* Mutant: the next read of the journal is at its end.
AfterDequeAtEnd(r) ==
    LET index == 1 + IF r.seen < base THEN 0 ELSE r.seen - base
    IN [r EXCEPT !.seen = base + index, !.offset = Len(journal.frames),
                 !.gap = @ \/ r.seen < base, !.got = Append(@, deque[index].frame)]

AfterDeque(r) ==
    LET index == 1 + IF r.seen < base THEN 0 ELSE r.seen - base
    IN [r EXCEPT !.seen = base + index, !.offset = deque[index].end,
                 !.gap = @ \/ r.seen < base, !.got = Append(@, deque[index].frame)]

read_replay(c) ==
    \E ok \in Works("read") :
        /\ page' = [page EXCEPT ![c] =
                       IF FromJournal(@, ok) THEN AfterJournal(@) ELSE AfterDeque(@)]
        /\ complete' = (complete /\ ~JournalFails(page[c], ok))
        /\ journal' = [journal EXCEPT !.open = @ /\ ~JournalFails(page[c], ok)]
        /\ failed' = (failed \/ (JournalFails(page[c], ok) /\ ~ok))
-----------------------------------------------------------------------------
(* The request that starts the generation.                                 *)

\* Nobody reads before it is through: it holds the session's start guard.
StartWarning ==
    /\ phase = "starting" /\ seq = 0
    /\ emit
    /\ UNCHANGED <<phase, creator, round, readers, done, called, page, final>>

\* The worker has the command, and its events go to this stream.
Bind ==
    /\ phase = "starting" /\ phase' = "bound"
    /\ UNCHANGED <<creator, stream, called, page, history>>

\* An error instead: a frame that says so, and the end of the stream.
StartFails ==
    /\ phase = "starting" /\ "start" \in Faults
    /\ emit
    /\ phase' = "failing"
    /\ UNCHANGED <<creator, round, readers, done, called, page, final>>
StartFailed ==
    /\ phase = "failing" /\ phase' = "failed"
    /\ finish
    /\ UNCHANGED <<creator, deque, seq, complete, round, readers, called, page, failed>>

\* The page of the request reads every frame, whatever the state of the stream.
Create ==
    /\ \/ phase = "bound" /\ phase' = "open"
       \/ phase = "failed" /\ phase' = "over"
    /\ IF creator = NoPage THEN UNCHANGED <<readers, page>>
       ELSE /\ acquire_replay
            /\ page' = [page EXCEPT ![creator] =
                           [NewPage EXCEPT !.pc = "live"]]
    /\ UNCHANGED <<creator, deque, seq, journal, complete, round, done, called, history>>
-----------------------------------------------------------------------------
(* The thread that reads the worker's events.                              *)

Bound == phase \in {"bound", "open"}

\* A frame, and a call of notify for the event loop.  (Some come after the end.)
Frame ==
    /\ Bound /\ emit /\ called' = TRUE
    /\ UNCHANGED <<phase, creator, round, readers, done, page, final>>

Round ==
    /\ Bound /\ set_round_start
    /\ UNCHANGED <<phase, creator, deque, seq, journal, complete, readers, done, called, page, history>>
-----------------------------------------------------------------------------
(* The event loop.                                                         *)

LoopFree == phase \in {"open", "over"}

Notify ==
    /\ LoopFree /\ called /\ called' = FALSE
    /\ page' = Woken
    /\ UNCHANGED <<phase, creator, stream, history>>

\* The generation has ended, or its worker has.
Finish ==
    /\ LoopFree /\ finish /\ page' = Woken
    /\ UNCHANGED <<phase, creator, deque, seq, complete, round, readers, called, failed>>
-----------------------------------------------------------------------------
(* The pages.                                                              *)

Reading(c) == page[c].pc \in {"replaying", "ending", "live", "waiting"}
Exhausted(c) == page[c].seen >= seq
Moves(c, from, to) ==
    /\ LoopFree /\ page[c].pc = from
    /\ page' = [page EXCEPT ![c].pc = to]
    /\ UNCHANGED <<phase, creator, stream, called, history>>

\* A page without a message: it replays a generation from its first round.  One that is
\* done is not read at all, and one without a creating page goes on with a task that
\* waited for a permission, so what came before is not in it.
Attach(c) ==
    /\ LoopFree /\ page[c].pc = "new" /\ ~done
    /\ acquire_replay
    /\ page' = [page EXCEPT ![c] =
           [NewPage EXCEPT !.pc = "replaying", !.from = round.seq, !.seen = round.seq,
                           !.offset = round.offset,
                           !.told = complete /\ creator # NoPage]]
    /\ UNCHANGED <<phase, creator, deque, seq, journal, complete, round, done, called, history>>

Read(c) ==
    /\ LoopFree /\ page[c].pc \in {"replaying", "live"} /\ ~Exhausted(c)
    /\ read_replay(c)
    /\ UNCHANGED <<phase, creator, deque, seq, round, readers, done, called, final>>

\* All there was has been replayed, and the page is told so.
EndReplay(c) == Exhausted(c) /\ Moves(c, "replaying", "ending")

\* After that the loop asks only whether the stream is done.
GoLive(c) == ~done /\ Moves(c, "ending", "live")

\* Mutant: the wait does not look at seq again.
WaitUnchecked(c) == ~done /\ Moves(c, "live", "waiting")

\* Nothing to read yet: wait to be notified, or for the next heartbeat.
Wait(c) == Exhausted(c) /\ ~done /\ Moves(c, "live", "waiting")
Heartbeat(c) == Moves(c, "waiting", "live")

Closes(c, as) ==
    /\ page' = [page EXCEPT ![c] = as]
    /\ release_replay
    /\ UNCHANGED <<phase, creator, deque, seq, complete, round, done, called, history>>

\* What is left of a page that was told the stream has ended: if a frame was missing.
EndPage(c) ==
    /\ LoopFree /\ done
    /\ \/ page[c].pc = "live" /\ Exhausted(c)
       \/ page[c].pc = "ending"
    /\ Closes(c, [NewPage EXCEPT !.pc = IF page[c].seen >= final THEN "ended" ELSE "short",
                                 !.told = page[c].told])

\* The page is closed, or loaded again, which is another page here.
Leave(c) == LoopFree /\ Reading(c) /\ Closes(c, [NewPage EXCEPT !.pc = "left"])
-----------------------------------------------------------------------------
Step(c) == Read(c) \/ EndReplay(c) \/ GoLive(c) \/ Wait(c) \/ EndPage(c)

Next ==
    \/ StartWarning \/ Bind \/ StartFails \/ StartFailed \/ Create
    \/ Frame \/ Round \/ Notify \/ Finish
    \/ \E c \in Pages : Attach(c) \/ Step(c) \/ Heartbeat(c) \/ Leave(c)

Spec == Init /\ [][Next]_vars

\* The event loop runs what is ready, and a page that stays takes what it is sent.
\* Nothing depends on the heartbeat.
Fairness == WF_vars(Notify) /\ \A c \in Pages : WF_vars(Step(c))
FairSpec == Spec /\ Fairness
-----------------------------------------------------------------------------
PageType ==
    [pc : {"new", "replaying", "ending", "live", "waiting", "left", "ended", "short"},
     from : Nat, seen : Nat, offset : Nat \cup {NoOffset}, told : BOOLEAN, gap : BOOLEAN,
     got : Seq(Nat)]

TypeOK ==
    /\ phase \in {"starting", "bound", "failing", "failed", "open", "over"}
    /\ creator \in Creators
    /\ deque \in Seq([frame : Nat, end : Nat \cup {NoOffset}]) /\ seq \in Nat
    /\ journal \in [frames : Seq(Nat), open : BOOLEAN] /\ complete \in BOOLEAN
    /\ round \in [seq : Nat, offset : Nat, set : BOOLEAN]
    /\ readers \in Nat /\ done \in BOOLEAN /\ called \in BOOLEAN
    /\ page \in [Pages -> PageType]
    /\ final \in Nat /\ failed \in BOOLEAN

\* A page gets every frame once and in its order, from where it begins, whether they
\* come from the journal or the deque, unless it has been warned of a gap
\* (read_replay, tool_chat_server).
InOrder ==
    \A c \in Pages :
        LET p == page[c]
        IN /\ \A i \in DOMAIN p.got : p.from < p.got[i] /\ p.got[i] <= p.seen
           /\ \A i, j \in DOMAIN p.got : i < j => p.got[i] < p.got[j]
           /\ ~p.gap => Len(p.got) = p.seen - p.from

\* A page misses a frame only where a write or a read of the journal has failed: the
\* journal stays open for whoever reads when the stream is done, and the frames that
\* come after that still get to it (emit, finish, release_replay).
GapsAreFaults == \A c \in Pages : page[c].gap => failed

\* The journal is closed when the stream is done and the last page has left, however
\* it left, and a stream that still runs keeps it as long as it can be written
\* (acquire_replay, release_replay, finish).
Readers == {c \in Pages : Reading(c)}
JournalIsReleased ==
    /\ readers = Cardinality(Readers)
    /\ done /\ readers = 0 => ~journal.open
    /\ complete /\ ~done => journal.open

\* A page that stays never sleeps over a frame or over the end: what it has not read it
\* goes on to read, without a heartbeat (notify_threadsafe, finish, the wait of
\* tool_chat_server).
Behind(c) == Reading(c) /\ (done \/ ~Exhausted(c))
KeepsUp == \A c \in Pages : Behind(c) ~> ~Behind(c)

\* What the documentation says of a page told that its replay is complete: it gets the
\* whole of the task.  The code does not keep it: see GoLive (tool_chat_server).
ReplayIsWhole == \A c \in Pages : page[c].told => page[c].pc # "short"
-----------------------------------------------------------------------------
(* The inductive invariant of the safety properties.                       *)

\* The request that starts the generation: nobody reads before it is through, and one
\* that failed has emitted a warning and an error at most.
StartInv ==
    /\ phase \notin {"open", "over"} => \A c \in Pages : page[c] = NewPage
    /\ phase \in {"starting", "bound", "failing"} => ~done
    /\ phase \in {"failed", "over"} => done /\ seq <= 2
    /\ phase = "starting" => seq <= 1
    /\ phase = "failing" => seq <= 2

\* While the journal is complete, a position in it and one in the stream are the same.
JournalInv ==
    /\ Len(journal.frames) <= seq /\ (complete => Len(journal.frames) = seq)
    /\ \A i \in DOMAIN journal.frames : journal.frames[i] = i
    /\ complete => round.offset = round.seq
    /\ round.seq <= seq
    /\ complete => \A i \in DOMAIN deque : deque[i].end = base + i

\* The deque has the last frames.
DequeInv ==
    /\ Len(deque) <= seq /\ Len(deque) <= Buffer
    /\ Len(deque) = seq \/ Len(deque) = Buffer
    /\ \A i \in DOMAIN deque : deque[i].frame = base + i

PageInv ==
    \A c \in Pages :
        /\ page[c].from <= page[c].seen
        /\ page[c].seen <= seq
        /\ Reading(c) /\ complete => page[c].offset = page[c].seen

\* The journal is given up for a fault, or when nobody can come to read it any more.
FaultInv ==
    /\ ~complete => failed \/ (phase = "open" /\ done /\ readers = 0)
    /\ complete /\ ~journal.open => done /\ (readers = 0 \/ phase = "over")

\* The invariant every step keeps: where the deque, the journal and each page stand to
\* one another, and when the journal is given up (_SessionStream, tool_chat_server).
StreamInv ==
    /\ TypeOK /\ StartInv /\ JournalInv /\ DequeInv /\ PageInv /\ FaultInv
    /\ InOrder /\ GapsAreFaults /\ JournalIsReleased
=============================================================================
