------------------------- MODULE CommandInputProofs -------------------------
(***************************************************************************)
(* Proofs about CommandInput: a request is delivered once, "accepted" is   *)
(* said of what was delivered, nothing is left at the end, and the order   *)
(* of the requests is kept.                                                *)
(***************************************************************************)
EXTENDS CommandInput, SequenceTheorems, TLAPS

-----------------------------------------------------------------------------
(* The files of the terminal.                                              *)

\* The place of a request's file, as send and serve look for it by its name.
LEMMA FileOfIsThere ==
    ASSUME NEW r \in Requested
    PROVE  FileOf(r) \in 1..Len(files) /\ files[FileOf(r)].id = r
  BY DEF Requested, FileOf

\* RemoveAt in terms of the places that stay.
LEMMA Removed ==
    ASSUME NEW T, NEW q \in Seq(T), NEW k \in 1..Len(q)
    PROVE  /\ S!RemoveAt(q, k) \in Seq(T)
           /\ Len(S!RemoveAt(q, k)) = Len(q) - 1
           /\ \A i \in 1..(Len(q) - 1) :
                S!RemoveAt(q, k)[i] = IF i < k THEN q[i] ELSE q[i + 1]
<1> DEFINE a == SubSeq(q, 1, k - 1)
           b == SubSeq(q, k + 1, Len(q))
<1>1. a \in Seq(T) /\ Len(a) = k - 1 /\ \A i \in 1..(k - 1) : a[i] = q[i]
  BY SubSeqProperties
<1>2. b \in Seq(T) /\ Len(b) = Len(q) - k /\ \A i \in 1..(Len(q) - k) : b[i] = q[k + i]
  BY SubSeqProperties
<1> HIDE DEF a, b
<1>3. /\ a \o b \in Seq(T)
      /\ Len(a \o b) = Len(a) + Len(b)
      /\ \A i \in 1..(Len(a) + Len(b)) :
           (a \o b)[i] = IF i <= Len(a) THEN a[i] ELSE b[i - Len(a)]
  BY <1>1, <1>2, ConcatProperties
<1>4. S!RemoveAt(q, k) = a \o b
  BY DEF S!RemoveAt, a, b
<1>5. Len(a) + Len(b) = Len(q) - 1
  BY <1>1, <1>2
<1>6. ASSUME NEW i \in 1..(Len(q) - 1)
      PROVE  (a \o b)[i] = IF i < k THEN q[i] ELSE q[i + 1]
  <2>1. CASE i < k
    BY <2>1, <1>1, <1>3, <1>5
  <2>2. CASE ~(i < k)
    <3>1. (a \o b)[i] = b[i - (k - 1)]
      BY <2>2, <1>1, <1>3, <1>5
    <3>2. i - (k - 1) \in 1..(Len(q) - k) /\ k + (i - (k - 1)) = i + 1
      BY <2>2
    <3> QED BY <2>2, <3>1, <3>2, <1>2
  <2> QED BY <2>1, <2>2
<1> QED BY <1>3, <1>4, <1>5, <1>6

\* Unlinking the file of a request (Path.unlink with missing_ok) leaves the
\* others as they are.
LEMMA WithoutFile ==
    ASSUME files \in Seq(Inputs), FilesInv, NEW r, files' = Without(r)
    PROVE  /\ files' \in Seq(Inputs)
           /\ FilesInv'
           /\ Requested' = Requested \ {r}
<1>1. CASE r \notin Requested
  BY <1>1 DEF Without, Requested, FilesInv, Asked
<1>2. CASE r \in Requested
  <2> DEFINE k == FileOf(r)
  <2>1. k \in 1..Len(files) /\ files[k].id = r
    BY <1>2, FileOfIsThere
  <2>2. files' = S!RemoveAt(files, k)
    BY <1>2 DEF Without
  <2> HIDE DEF k
  <2>3. /\ files' \in Seq(Inputs)
        /\ Len(files') = Len(files) - 1
        /\ \A i \in 1..(Len(files) - 1) :
             files'[i] = IF i < k THEN files[i] ELSE files[i + 1]
    BY <2>1, <2>2, Removed
  <2>4. FilesInv'
    <3>1. \A i \in 1..Len(files') : files'[i] \in Asked
      BY <2>1, <2>3 DEF FilesInv
    <3>2. ASSUME NEW i \in 1..Len(files'), NEW j \in 1..Len(files'),
                 files'[i].id = files'[j].id
          PROVE  i = j
      <4> DEFINE at(n) == IF n < k THEN n ELSE n + 1
      <4>1. at(i) \in 1..Len(files) /\ at(j) \in 1..Len(files)
        BY <2>1, <2>3
      <4>2. files'[i] = files[at(i)] /\ files'[j] = files[at(j)]
        BY <2>1, <2>3
      <4>3. at(i) = at(j)
        BY <3>2, <4>1, <4>2 DEF FilesInv
      <4> QED BY <4>3, <2>1
    <3> QED BY <3>1, <3>2 DEF FilesInv, Asked
  <2>5. Requested' = Requested \ {r}
    <3>1. ASSUME NEW i \in 1..Len(files') PROVE files'[i].id \in Requested \ {r}
      BY <2>1, <2>3, <3>1 DEF FilesInv, Requested
    <3>2. ASSUME NEW i \in 1..Len(files), files[i].id # r
          PROVE  \E j \in 1..Len(files') : files'[j].id = files[i].id
      <4>1. CASE i < k
        BY <2>1, <2>3, <4>1
      <4>2. CASE i > k
        <5>1. i - 1 \in 1..Len(files') /\ ~(i - 1 < k) /\ (i - 1) + 1 = i
          BY <2>1, <2>3, <4>2
        <5> QED BY <5>1, <2>3
      <4> QED BY <3>2, <4>1, <4>2, <2>1
    <3>3. Requested' \subseteq Requested \ {r}
      BY <3>1 DEF Requested
    <3>4. Requested \ {r} \subseteq Requested'
      BY <3>2 DEF Requested
    <3> QED BY <3>3, <3>4
  <2> QED BY <2>3, <2>4, <2>5
<1> QED BY <1>1, <1>2

-----------------------------------------------------------------------------
(* Who changes what.                                                       *)

SenderStep(s) == Call(s) \/ LockTimeout(s) \/ Calling(s) \/ SenderDies(s)

WriterStep == Writer \/ Deliver

EndStep ==
    \/ ChildExits \/ Runner \/ RunnerLockTimeout
    \/ StopKills \/ Stopping \/ Killed

\* Every step is one of a sender, of the writer, or of the end.
LEMMA Steps ==
    ASSUME [Next]_vars
    PROVE  (\E s \in Senders : SenderStep(s)) \/ WriterStep \/ EndStep \/ UNCHANGED vars
  BY DEF Next, SenderStep, WriterStep, EndStep

\* send only reads the acknowledgements, and leaves one file.
LEMMA SenderFrame ==
    ASSUME NEW s \in Senders, SenderStep(s)
    PROVE  /\ UNCHANGED <<ack, writer, ends>>
           /\ UNCHANGED files \/ WriteRequest(s)
<1>1. CASE Call(s) \/ LockTimeout(s) \/ SenderDies(s)
  BY <1>1 DEF Call, LockTimeout, SenderDies, box
<1>2. CASE SeeAck(s) \/ SeeRequest(s) \/ ReadRequest(s) \/ SeeLive(s) \/ Poll(s) \/ WaitEnds(s)
  BY <1>2 DEF SeeAck, SeeRequest, ReadRequest, SeeLive, Poll, WaitEnds, box
<1>3. CASE WriteRequest(s)
  BY <1>3 DEF WriteRequest
<1> QED BY <1>1, <1>2, <1>3 DEF SenderStep, Calling

\* The writer takes no lock and has nothing to do with the senders.
LEMMA WriterFrame ==
    ASSUME WriterStep
    PROVE  UNCHANGED <<lock, sends, ends>>
<1>1. CASE List \/ WriterEnds \/ Take \/ Mark
  BY <1>1 DEF List, WriterEnds, Take, Mark
<1>2. CASE Unlink \/ DeliverFails \/ Accept \/ Deliver
  BY <1>2 DEF Unlink, DeliverFails, Accept, Deliver
<1> QED BY <1>1, <1>2 DEF WriterStep, Writer

\* The end changes the files only where it erases, and the writer only by
\* ending it.
LEMMA EndFrame ==
    ASSUME EndStep
    PROVE  /\ UNCHANGED <<sends, delivered>>
           /\ UNCHANGED <<wpc, queue, taken>> \/ WriterOver
           /\ UNCHANGED box \/ RunnerErases \/ StopErases
<1>1. CASE ChildExits \/ Cancel \/ Terminate \/ SeeExit \/ Join
  BY <1>1 DEF ChildExits, Cancel, Terminate, SeeExit, Join, Dead, writer
<1>2. CASE WriteOutcome \/ RunnerPending \/ RunnerErases \/ RunnerGone \/ RunnerLockTimeout
  BY <1>2 DEF WriteOutcome, RunnerPending, RunnerErases, RunnerGone, RunnerLockTimeout, writer
<1>3. CASE StopKills \/ StopPending \/ StopErases \/ StopEnds \/ Killed
  BY <1>3 DEF StopKills, StopPending, StopErases, StopEnds, Killed, Dead, writer
<1> QED BY <1>1, <1>2, <1>3 DEF EndStep, Runner, Stopping

\* An acknowledgement is only ever replaced by another one.
Acknowledges(r) ==
    /\ r \in Ids
    /\ \E status \in {"writing", "failed"}, text \in Texts \union {NoText} :
         Acknowledge(r, status, text)

LEMMA EraseChanges ==
    ASSUME TypeOK, Erase, FilesInv
    PROVE  \E r \in sweep : /\ r \in Ids
                            /\ files' = Without(r)
                            /\ sweep' = sweep \ {r}
                            /\ UNCHANGED ack \/ Acknowledges(r)
<1>1. PICK r \in sweep :
        /\ sweep' = sweep \ {r} /\ files' = Without(r)
        /\ \/ r \in Requested /\ Acknowledge(r, "failed", TextIn(r))
           \/ UNCHANGED ack
  BY DEF Erase
<1>2. r \in Ids
  BY DEF TypeOK
<1>3. r \in Requested => TextIn(r) \in Texts
  <2> SUFFICES ASSUME r \in Requested PROVE TextIn(r) \in Texts
    OBVIOUS
  <2>1. FileOf(r) \in 1..Len(files)
    BY FileOfIsThere
  <2>2. files \in Seq(Inputs)
    BY DEF TypeOK
  <2>3. files[FileOf(r)] \in Inputs
    BY <2>1, <2>2
  <2> QED BY <2>3 DEF TextIn, Inputs
<1> QED BY <1>1, <1>2, <1>3 DEF Acknowledges

\* The acknowledgements stay or go on; "accepted" is said by Accept only.
LEMMA AckChange ==
    ASSUME TypeOK, FilesInv, WriterInv, [Next]_vars
    PROVE  \/ UNCHANGED ack
           \/ \E r \in Ids : Acknowledges(r)
           \/ wpc = "accept" /\ Acknowledge(Head(queue), "accepted", taken)
<1>1. CASE \E s \in Senders : SenderStep(s)
  BY <1>1, SenderFrame
<1>2. CASE WriterStep
  <2>1. CASE List \/ WriterEnds \/ Unlink \/ Deliver
    BY <2>1 DEF List, WriterEnds, Unlink, Deliver, box
  <2>2. CASE Take \/ Mark \/ DeliverFails \/ Accept
    <3>1. Head(queue) \in Ids /\ taken \in Texts \union {NoText}
      BY <2>2 DEF Take, Mark, DeliverFails, Accept, TypeOK, WriterInv
    <3>2. Failed => UNCHANGED ack \/ Acknowledges(Head(queue))
      BY <3>1 DEF Failed, Acknowledges, box
    <3> QED BY <2>2, <3>1, <3>2 DEF Take, Mark, DeliverFails, Accept, Acknowledges, box
  <2> QED BY <1>2, <2>1, <2>2 DEF WriterStep, Writer
<1>3. CASE EndStep
  <2>1. UNCHANGED ack \/ Erase
    BY <1>3, EndFrame DEF RunnerErases, StopErases, box
  <2> QED BY <2>1, EraseChanges
<1>4. CASE UNCHANGED vars
  BY <1>4 DEF vars, box
<1> QED BY <1>1, <1>2, <1>3, <1>4, Steps

LEMMA AckGoesOn ==
    ASSUME TypeOK, FilesInv, WriterInv, [Next]_vars
    PROVE  /\ ack' \in [Ids -> Acks]
           /\ \A r \in Ids : Acked(r) => Acked(r)'
<1>1. CASE UNCHANGED ack
  BY <1>1 DEF TypeOK, Acked
<1>2. ASSUME NEW r \in Ids, Acknowledges(r)
      PROVE  ack' \in [Ids -> Acks] /\ \A q \in Ids : Acked(q) => Acked(q)'
  BY <1>2 DEF Acknowledges, Acknowledge, TypeOK, Acked, Acks, Statuses
<1>3. CASE wpc = "accept" /\ Acknowledge(Head(queue), "accepted", taken)
  BY <1>3 DEF Acknowledge, TypeOK, Acked, Acks, Statuses
<1> QED BY <1>1, <1>2, <1>3, AckChange

-----------------------------------------------------------------------------
(* The files.                                                              *)

\* What becomes of the files: one more, or one less.
LEMMA FilesChange ==
    ASSUME TypeOK, FilesInv, WriterInv, [Next]_vars
    PROVE  \/ UNCHANGED files
           \/ \E r \in Ids : files' = Without(r)
           \/ \E s \in Senders : WriteRequest(s)
<1>1. CASE \E s \in Senders : SenderStep(s)
  BY <1>1, SenderFrame
<1>2. CASE WriterStep
  <2>1. CASE List \/ WriterEnds \/ Deliver
    BY <2>1 DEF List, WriterEnds, Deliver, box
  <2>2. CASE Take \/ Mark \/ Unlink \/ DeliverFails \/ Accept
    <3>1. Head(queue) \in Ids
      BY <2>2 DEF Take, Mark, Unlink, DeliverFails, Accept, TypeOK, WriterInv
    <3>2. Failed => UNCHANGED files \/ files' = Without(Head(queue))
      BY DEF Failed, box
    <3> QED BY <2>2, <3>1, <3>2 DEF Take, Mark, Unlink, DeliverFails, Accept, box
  <2> QED BY <1>2, <2>1, <2>2 DEF WriterStep, Writer
<1>3. CASE EndStep
  <2>1. UNCHANGED files \/ Erase
    BY <1>3, EndFrame DEF RunnerErases, StopErases, box
  <2> QED BY <2>1, EraseChanges
<1>4. CASE UNCHANGED vars
  BY <1>4 DEF vars, box
<1> QED BY <1>1, <1>2, <1>3, <1>4, Steps

\* The sender leaves its file under the lock, where it has found none.
LEMMA WrittenFile ==
    ASSUME TypeOK, FilesInv, LockInv, NEW s \in Senders, WriteRequest(s)
    PROVE  /\ files' \in Seq(Inputs)
           /\ FilesInv'
           /\ Requested' \subseteq Requested \union {IdOf[s]}
<1> DEFINE f == [id |-> IdOf[s], text |-> TextOf[s]]
<1>1. f \in Inputs /\ f \in Asked /\ f.id = IdOf[s]
  BY InputAssumption DEF Inputs, Ids, Texts, Asked
<1>2. CASE UNCHANGED files
  BY <1>2 DEF TypeOK, FilesInv, Asked, Requested
<1>3. CASE files' = Append(files, f)
  <2> HIDE DEF f
  <2>1. IdOf[s] \notin Requested
    BY DEF WriteRequest, At, LockInv
  <2>2. files \in Seq(Inputs)
    BY DEF TypeOK
  <2>3. /\ files' \in Seq(Inputs)
        /\ Len(files') = Len(files) + 1
        /\ \A i \in 1..Len(files) : files'[i] = files[i]
        /\ files'[Len(files) + 1] = f
    BY <1>1, <1>3, <2>2, AppendProperties
  <2>4. \A i \in 1..Len(files) : files[i].id # IdOf[s]
    BY <2>1 DEF Requested
  <2>5. ASSUME NEW i \in 1..Len(files') PROVE files'[i] \in Asked
    <3>1. CASE i = Len(files) + 1
      BY <3>1, <2>3, <1>1
    <3>2. CASE i \in 1..Len(files)
      BY <3>2, <2>3 DEF FilesInv
    <3> QED BY <3>1, <3>2, <2>3, <2>2, LenProperties
  <2>6. ASSUME NEW i \in 1..Len(files'), NEW j \in 1..Len(files'),
               files'[i].id = files'[j].id
        PROVE  i = j
    BY <1>1, <2>2, <2>3, <2>4, <2>6, LenProperties DEF FilesInv
  <2>7. ASSUME NEW i \in 1..Len(files')
        PROVE  files'[i].id \in Requested \union {IdOf[s]}
    BY <1>1, <2>2, <2>3, LenProperties DEF Requested
  <2>8. FilesInv'
    BY <2>5, <2>6 DEF FilesInv, Asked
  <2>9. Requested' \subseteq Requested \union {IdOf[s]}
    BY <2>7 DEF Requested
  <2> QED BY <2>3, <2>8, <2>9
<1> QED BY <1>2, <1>3 DEF WriteRequest

LEMMA FilesStep ==
    ASSUME TypeOK, FilesInv, WriterInv, LockInv, [Next]_vars
    PROVE  files' \in Seq(Inputs) /\ FilesInv'
<1>1. CASE UNCHANGED files
  BY <1>1 DEF TypeOK, FilesInv, Asked
<1>2. CASE \E r \in Ids : files' = Without(r)
  BY <1>2, WithoutFile DEF TypeOK
<1>3. CASE \E s \in Senders : WriteRequest(s)
  BY <1>3, WrittenFile
<1> QED BY <1>1, <1>2, <1>3, FilesChange

-----------------------------------------------------------------------------
(* The writer.                                                             *)

\* The steps of the others leave the writer as it is, or end it.
LEMMA WriterOfOthers ==
    ASSUME TypeOK, FilesInv, WriterInv, [Next]_vars,
           UNCHANGED <<wpc, queue, taken>> \/ WriterOver, UNCHANGED delivered
    PROVE  WriterInv'
<1>1. CASE UNCHANGED <<wpc, queue, taken>>
  <2>1. \A r \in Ids : Acked(r) => Acked(r)'
    BY AckGoesOn
  <2>2. wpc \in {"take", "mark", "unlink", "deliver", "accept"} => Head(queue) \in Ids
    BY DEF WriterInv, TypeOK
  <2>3. Received' = Received
    BY DEF Received
  <2> QED BY <1>1, <2>1, <2>2, <2>3 DEF WriterInv, Acked, Asked
<1>2. CASE WriterOver
  BY <1>2 DEF WriterOver, WriterGoes, WriterInv
<1> QED BY <1>1, <1>2

\* The next request of the list, or a new list.
LEMMA DoneGoes ==
    ASSUME TypeOK, queue # <<>>, Done
    PROVE  /\ queue' \in Seq(Ids)
           /\ taken' = NoText
           /\ wpc' = "list" \/ (wpc' = "take" /\ queue' # <<>>)
<1>1. queue \in Seq(Ids) /\ Len(queue) \in Nat \ {0}
  BY DEF TypeOK
<1>2. Tail(queue) \in Seq(Ids) /\ Len(Tail(queue)) = Len(queue) - 1
  BY <1>1, HeadTailProperties
<1>3. Len(queue) # 1 => Tail(queue) # <<>>
  <2>1. Tail(queue) = <<>> <=> Len(Tail(queue)) = 0
    BY <1>2, EmptySeq
  <2> QED BY <1>1, <1>2, <2>1
<1> QED BY <1>2, <1>3 DEF Done, WriterGoes

LEMMA FailedGoes ==
    ASSUME TypeOK, queue # <<>>, Failed
    PROVE  /\ queue' \in Seq(Ids)
           /\ taken' = NoText
           /\ wpc' \in {"list", "ended"} \/ (wpc' = "take" /\ queue' # <<>>)
<1>1. CASE Done
  BY <1>1, DoneGoes
<1>2. CASE WriterOver
  BY <1>2 DEF WriterOver, WriterGoes
<1> QED BY <1>1, <1>2 DEF Failed

\* The text of a request's file is that of one of its senders.
LEMMA TextIsAsked ==
    ASSUME TypeOK, FilesInv, NEW r \in Requested
    PROVE  [id |-> r, text |-> TextIn(r)] \in Asked /\ TextIn(r) \in Texts
<1>1. FileOf(r) \in 1..Len(files) /\ files[FileOf(r)].id = r
  BY FileOfIsThere
<1>2. files[FileOf(r)] \in Inputs /\ files[FileOf(r)] \in Asked
  BY <1>1 DEF TypeOK, FilesInv
<1>3. files[FileOf(r)] = [id |-> r, text |-> TextIn(r)]
  BY <1>1, <1>2 DEF Inputs, TextIn
<1> QED BY <1>2, <1>3 DEF Inputs

LEMMA DeliveryGoes ==
    ASSUME TypeOK, wpc # "list", wpc # "take", wpc # "ended", WriterInv, Given
    PROVE  /\ delivered' \in Seq(Inputs)
           /\ Len(delivered') = Len(delivered) + 1
           /\ \A i \in 1..Len(delivered) : delivered'[i] = delivered[i]
           /\ delivered'[Len(delivered) + 1] = [id |-> Head(queue), text |-> taken]
           /\ Received' = Received \union {Head(queue)}
           /\ Head(queue) \in Ids
<1> DEFINE d == [id |-> Head(queue), text |-> taken]
<1>1. wpc \in {"mark", "unlink", "deliver", "accept"}
  BY DEF TypeOK, WriterPcs
<1>2. d \in Asked /\ Head(queue) \in Ids
  BY <1>1 DEF WriterInv, TypeOK
<1>3. d \in Inputs /\ d.id = Head(queue)
  BY <1>2, InputAssumption DEF Asked, Inputs, Ids, Texts
<1> HIDE DEF d
<1>4. /\ delivered' \in Seq(Inputs)
      /\ Len(delivered') = Len(delivered) + 1
      /\ \A i \in 1..Len(delivered) : delivered'[i] = delivered[i]
      /\ delivered'[Len(delivered) + 1] = d
  BY <1>3, AppendProperties DEF Given, TypeOK, d
<1>5. Len(delivered) \in Nat
  BY LenProperties DEF TypeOK
<1>6. ASSUME NEW i \in 1..Len(delivered')
      PROVE  delivered'[i].id \in Received \union {Head(queue)}
  <2>1. CASE i = Len(delivered) + 1
    BY <2>1, <1>3, <1>4
  <2>2. CASE i \in 1..Len(delivered)
    BY <2>2, <1>4 DEF Received
  <2> QED BY <1>4, <1>5, <2>1, <2>2
<1>7. Received' \subseteq Received \union {Head(queue)}
  BY <1>6 DEF Received
<1>8. Received \subseteq Received'
  BY <1>4, <1>5 DEF Received
<1>9. Head(queue) \in Received'
  <2>1. Len(delivered) + 1 \in 1..Len(delivered')
    BY <1>4, <1>5
  <2>2. delivered'[Len(delivered) + 1].id = Head(queue)
    BY <1>3, <1>4
  <2> QED BY <2>1, <2>2 DEF Received
<1> QED BY <1>2, <1>4, <1>7, <1>8, <1>9 DEF d

LEMMA WriterKept ==
    ASSUME TypeOK, FilesInv, WriterInv, DeliveryInv, [Next]_vars
    PROVE  WriterInv' /\ queue' \in Seq(Ids) /\ taken' \in Texts \union {NoText}
<1> DEFINE Good == WriterInv' /\ queue' \in Seq(Ids) /\ taken' \in Texts \union {NoText}
<1>1. ASSUME UNCHANGED <<wpc, queue, taken>> \/ WriterOver, UNCHANGED delivered PROVE Good
  <2>1. WriterInv'
    BY <1>1, WriterOfOthers
  <2>2. queue' \in Seq(Ids)
    BY <1>1, EmptySeq DEF TypeOK, WriterOver
  <2>3. taken' \in Texts \union {NoText}
    BY <1>1 DEF TypeOK, WriterOver
  <2> QED BY <2>1, <2>2, <2>3
<1>2. CASE \E s \in Senders : SenderStep(s)
  BY <1>1, <1>2, SenderFrame DEF writer
<1>3. CASE EndStep
  BY <1>1, <1>3, EndFrame
<1>4. CASE UNCHANGED vars
  BY <1>1, <1>4 DEF vars, writer
<1>5. ASSUME queue # <<>>, Failed PROVE Good
  BY <1>5, FailedGoes DEF WriterInv, TypeOK
<1>6. ASSUME queue # <<>>, Done PROVE Good
  BY <1>6, DoneGoes DEF WriterInv, TypeOK
<1>7. CASE WriterEnds
  BY <1>1, <1>7 DEF WriterEnds
<1>8. CASE List
  <2>1. /\ files \in Seq(Inputs) /\ files # <<>> /\ wpc' = "take" /\ UNCHANGED taken
        /\ queue' = [i \in 1..Len(files) |-> files[i].id]
    BY <1>8 DEF List, TypeOK, WriterGoes
  <2>2. \A i \in 1..Len(files) : files[i].id \in Ids
    <3> SUFFICES ASSUME NEW i \in 1..Len(files) PROVE files[i].id \in Ids
      OBVIOUS
    <3>1. files[i] \in Inputs
      BY <2>1
    <3> QED BY <3>1 DEF Inputs
  <2>3. queue' \in Seq(Ids) /\ Len(queue') = Len(files)
    BY <2>1, <2>2, LenProperties
  <2>4. queue' # <<>>
    BY <2>1, <2>3, EmptySeq
  <2> QED BY <2>1, <2>3, <2>4 DEF WriterInv, TypeOK
<1>9. CASE Take
  <2>1. queue # <<>> /\ Head(queue) \in Ids
    BY <1>9 DEF Take, WriterInv, TypeOK
  <2>2. CASE Failed \/ Done
    BY <2>1, <2>2, <1>5, <1>6
  <2>3. CASE /\ Head(queue) \in Requested /\ ~Acked(Head(queue))
             /\ taken' = TextIn(Head(queue)) /\ WriterGoes("mark") /\ UNCHANGED <<box, queue>>
             /\ UNCHANGED delivered
    <3>1. Head(queue) \notin Received
      BY <2>3 DEF DeliveryInv
    <3>2. [id |-> Head(queue), text |-> taken'] \in Asked /\ taken' \in Texts
      BY <2>3, TextIsAsked
    <3> QED BY <2>1, <2>3, <3>1, <3>2 DEF WriterInv, TypeOK, WriterGoes, Received, Asked
  <2> QED BY <1>9, <2>2, <2>3 DEF Take
<1>10. CASE Mark
  <2>1. queue # <<>> /\ Head(queue) \in Ids
    BY <1>10 DEF Mark, WriterInv, TypeOK
  <2>2. CASE Acknowledge(Head(queue), "writing", taken) /\ WriterGoes("unlink")
             /\ UNCHANGED <<files, queue, taken>>
    <3>1. Acked(Head(queue))'
      BY <2>1, <2>2 DEF Acknowledge, Acked, TypeOK
    <3> QED BY <1>10, <2>1, <2>2, <3>1 DEF Mark, WriterInv, TypeOK, WriterGoes, Received, Asked
  <2> QED BY <1>5, <1>10, <2>1, <2>2 DEF Mark
<1>11. CASE Unlink
  BY <1>11 DEF Unlink, WriterInv, TypeOK, WriterGoes, Received, Asked, Acked
<1>12. CASE Deliver
  <2>1. Received' = Received \union {Head(queue)}
    BY <1>12, DeliveryGoes DEF Deliver
  <2> QED BY <1>12, <2>1 DEF Deliver, WriterInv, TypeOK, WriterGoes, Asked, Acked, box
<1>13. CASE DeliverFails
  BY <1>5, <1>13 DEF DeliverFails, WriterInv
<1>14. CASE Accept
  BY <1>5, <1>6, <1>14 DEF Accept, WriterInv
<1> QED BY <1>2, <1>3, <1>4, <1>7, <1>8, <1>9, <1>10, <1>11, <1>12, <1>13, <1>14, Steps
        DEF WriterStep, Writer

-----------------------------------------------------------------------------
(* The deliveries.                                                         *)

\* What the child has got changes at the end of a Deliver or a DeliverFails.
LEMMA DeliveredChange ==
    ASSUME [Next]_vars
    PROVE  UNCHANGED delivered \/ (wpc = "deliver" /\ Given)
<1>1. CASE \E s \in Senders : SenderStep(s)
  BY <1>1, SenderFrame DEF writer
<1>2. CASE WriterStep
  BY <1>2 DEF WriterStep, Writer, List, WriterEnds, Take, Mark, Unlink, Deliver,
              DeliverFails, Accept
<1>3. CASE EndStep
  BY <1>3, EndFrame
<1>4. CASE UNCHANGED vars
  BY <1>4 DEF vars, writer
<1> QED BY <1>1, <1>2, <1>3, <1>4, Steps

LEMMA ReceivedGrows ==
    ASSUME TypeOK, WriterInv, [Next]_vars
    PROVE  Received \subseteq Received'
<1>1. CASE UNCHANGED delivered
  BY <1>1 DEF Received
<1>2. CASE wpc = "deliver" /\ Given
  BY <1>2, DeliveryGoes
<1> QED BY <1>1, <1>2, DeliveredChange

\* What a sender is told is "queued", or what an acknowledgement of its request
\* says.
LEMMA ToldChange ==
    ASSUME TypeOK, [Next]_vars, NEW s \in Senders
    PROVE  /\ told'[s] \in {told[s], "queued", ack[IdOf[s]].status}
           /\ told' \in [Senders -> Statuses]
<1>1. CASE \E q \in Senders : SenderStep(q)
  <2>1. PICK q \in Senders : SenderStep(q)
    BY <1>1
  <2>2. IdOf[q] \in Ids
    BY DEF Ids
  <2>3. ack[IdOf[q]].status \in Statuses
    BY <2>2 DEF TypeOK, Acks
  <2>4. UNCHANGED told \/ \E status \in {"queued", ack[IdOf[q]].status} : Told(q, status)
    BY <2>1 DEF SenderStep, Calling, Call, LockTimeout, SeeAck, SeeRequest, ReadRequest,
                SeeLive, WriteRequest, Poll, WaitEnds, SenderDies, Answered, Refuse, Goes
  <2> QED BY <2>3, <2>4 DEF Told, TypeOK, Statuses
<1>2. CASE WriterStep \/ EndStep \/ UNCHANGED vars
  BY <1>2, WriterFrame, EndFrame DEF TypeOK, vars, sends
<1> QED BY <1>1, <1>2, Steps

LEMMA DeliveryKept ==
    ASSUME TypeOK, FilesInv, WriterInv, DeliveryInv, [Next]_vars
    PROVE  DeliveryInv' /\ delivered' \in Seq(Inputs)
<1>1. delivered' \in Seq(Inputs) /\ \A i \in 1..Len(delivered') : delivered'[i] \in Asked
  <2>1. CASE UNCHANGED delivered
    BY <2>1 DEF TypeOK, DeliveryInv
  <2>2. CASE wpc = "deliver" /\ Given
    <3>1. [id |-> Head(queue), text |-> taken] \in Asked
      BY <2>2 DEF WriterInv
    <3>2. ASSUME NEW i \in 1..Len(delivered') PROVE delivered'[i] \in Asked
      <4>1. CASE i = Len(delivered) + 1
        BY <2>2, <3>1, <4>1, DeliveryGoes
      <4>2. CASE i \in 1..Len(delivered)
        BY <2>2, <4>2, DeliveryGoes DEF DeliveryInv
      <4> QED BY <2>2, <4>1, <4>2, DeliveryGoes, LenProperties DEF TypeOK
    <3> QED BY <2>2, <3>2, DeliveryGoes
  <2> QED BY <2>1, <2>2, DeliveredChange
<1>2. \A r \in Received' : Acked(r)'
  <2>1. Received \subseteq Ids
    <3> SUFFICES ASSUME NEW i \in 1..Len(delivered) PROVE delivered[i].id \in Ids
      BY DEF Received
    <3>1. delivered[i] \in Inputs
      BY DEF TypeOK
    <3> QED BY <3>1 DEF Inputs
  <2>2. \A r \in Received : Acked(r)'
    BY <2>1, AckGoesOn DEF DeliveryInv
  <2>3. CASE UNCHANGED delivered
    BY <2>2, <2>3 DEF Received
  <2>4. CASE wpc = "deliver" /\ Given
    <3>1. Acked(Head(queue)) /\ Head(queue) \in Ids
      BY <2>4, DeliveryGoes DEF WriterInv
    <3> QED BY <2>2, <2>4, <3>1, DeliveryGoes, AckGoesOn
  <2> QED BY <2>3, <2>4, DeliveredChange
<1>3. \A r \in Ids : ack'[r].status = "accepted" => r \in Received'
  <2>1. CASE UNCHANGED ack
    BY <2>1, ReceivedGrows DEF DeliveryInv
  <2>2. ASSUME NEW q \in Ids, Acknowledges(q)
        PROVE  \A r \in Ids : ack'[r].status = "accepted" => r \in Received'
    BY <2>2, ReceivedGrows DEF Acknowledges, Acknowledge, TypeOK, DeliveryInv
  <2>3. CASE wpc = "accept" /\ Acknowledge(Head(queue), "accepted", taken)
    BY <2>3, ReceivedGrows DEF WriterInv, Acknowledge, TypeOK, DeliveryInv
  <2> QED BY <2>1, <2>2, <2>3, AckChange
<1>4. ASSUME NEW s \in Senders, told'[s] = "accepted"
      PROVE  IdOf[s] \in Received'
  <2>1. told[s] = "accepted" \/ ack[IdOf[s]].status = "accepted"
    BY <1>4, ToldChange
  <2>2. IdOf[s] \in Ids
    BY DEF Ids
  <2> QED BY <2>1, <2>2, ReceivedGrows DEF DeliveryInv
<1> QED BY <1>1, <1>2, <1>3, <1>4 DEF DeliveryInv, Received, Asked, Acked

LEMMA OnceKept ==
    ASSUME TypeOK, WriterInv, DeliveredOnce, [Next]_vars
    PROVE  DeliveredOnce'
<1>1. CASE UNCHANGED delivered
  BY <1>1 DEF DeliveredOnce
<1>2. CASE wpc = "deliver" /\ Given
  <2>1. Head(queue) \notin Received
    BY <1>2 DEF WriterInv
  <2>2. \A i \in 1..Len(delivered) : delivered[i].id # Head(queue)
    BY <2>1 DEF Received
  <2>3. Len(delivered) \in Nat
    BY LenProperties DEF TypeOK
  <2> SUFFICES ASSUME NEW i \in 1..Len(delivered'), NEW j \in 1..Len(delivered'),
                      delivered'[i].id = delivered'[j].id
               PROVE  i = j
    BY DEF DeliveredOnce
  <2>4. delivered'[Len(delivered) + 1].id = Head(queue)
    BY <1>2, DeliveryGoes
  <2>5. \A n \in 1..Len(delivered') : n \in 1..Len(delivered) \/ n = Len(delivered) + 1
    BY <1>2, <2>3, DeliveryGoes
  <2>6. \A n \in 1..Len(delivered) : delivered'[n] = delivered[n]
    BY <1>2, DeliveryGoes
  <2> QED BY <2>2, <2>4, <2>5, <2>6 DEF DeliveredOnce
<1> QED BY <1>1, <1>2, DeliveredChange

-----------------------------------------------------------------------------
(* The lock.                                                               *)

\* Only a sender's write adds a request.
LEMMA RequestedChange ==
    ASSUME TypeOK, FilesInv, WriterInv, [Next]_vars, \A s \in Senders : ~WriteRequest(s)
    PROVE  Requested' \subseteq Requested /\ (files = <<>> => files' = <<>>)
<1>1. CASE UNCHANGED files
  BY <1>1 DEF Requested
<1>2. ASSUME NEW r \in Ids, files' = Without(r)
      PROVE  Requested' \subseteq Requested /\ (files = <<>> => files' = <<>>)
  <2>1. Requested' \subseteq Requested
    BY <1>2, WithoutFile DEF TypeOK
  <2>2. files = <<>> => r \notin Requested
    BY EmptySeq DEF Requested
  <2> QED BY <1>2, <2>1, <2>2 DEF Without
<1> QED BY <1>1, <1>2, FilesChange

LEMMA NoFiles ==
    ASSUME files \in Seq(Inputs), Requested = {}
    PROVE  files = <<>>
<1> SUFFICES ASSUME files # <<>> PROVE FALSE
  OBVIOUS
<1>1. 1 \in 1..Len(files)
  BY EmptySeq
<1>2. files[1].id \in Requested
  BY <1>1 DEF Requested
<1> QED BY <1>2

LEMMA LockOfSender ==
    ASSUME TypeOK, FilesInv, WriterInv, LockInv, NEW s \in Senders, SenderStep(s), [Next]_vars
    PROVE  LockInv' /\ call' \in [Senders -> CallPcs] /\ lock' \in Holders
<1> DEFINE Good == LockInv' /\ call' \in [Senders -> CallPcs] /\ lock' \in Holders
<1>1. /\ s \notin {"free", "runner", "stop"}
      /\ \A q \in Senders : q \notin {"free", "runner", "stop"}
  BY InputAssumption
<1>2. UNCHANGED ends
  BY SenderFrame
<1>3. ASSUME UNCHANGED files, NEW pc \in CallPcs, Goes(s, pc),
             \/ UNCHANGED lock /\ (pc \in Inside <=> call[s] \in Inside)
             \/ lock = "free" /\ lock' = s /\ pc \in Inside
             \/ lock = s /\ lock' = "free" /\ pc \notin Inside,
             pc = "live" => IdOf[s] \notin Requested,
             pc = "write" => At(s, "live") /\ ~outcome /\ Live
      PROVE  Good
  <2>1. call' \in [Senders -> CallPcs] /\ lock' \in Holders
    BY <1>3 DEF Goes, TypeOK, Holders
  <2>2. /\ \A q \in Senders : call'[q] \in Inside <=> lock' = q
        /\ \A q \in Senders : call'[q] \in {"live", "write"} => IdOf[q] \notin Requested
    BY <1>1, <1>3 DEF Goes, TypeOK, LockInv, Inside, At
  <2>3. /\ rpc = "sweep" => lock' = "runner"
        /\ spc = "sweep" => lock' = "stop"
    BY <1>1, <1>3 DEF LockInv
  <2>4. rpc = "gone" \/ spc = "stopped" => \A q \in Senders : call'[q] # "write"
    BY <1>3 DEF LockInv, Goes, TypeOK, Live
  <2> QED BY <1>2, <1>3, <2>1, <2>2, <2>3, <2>4
          DEF LockInv, Requested, Live, ends, Inside
<1>4. ASSUME UNCHANGED <<files, call, lock>> PROVE Good
  BY <1>2, <1>4 DEF LockInv, TypeOK, Requested, Live, ends, Inside
<1>5. CASE Call(s)
  BY <1>3, <1>5 DEF Call, At, box, CallPcs, Inside
<1>6. CASE LockTimeout(s)
  BY <1>3, <1>6 DEF LockTimeout, At, box, CallPcs, Inside
<1>7. CASE SeeAck(s)
  BY <1>3, <1>7 DEF SeeAck, Answered, At, box, CallPcs, Inside, LockInv
<1>8. CASE SeeRequest(s)
  BY <1>3, <1>8 DEF SeeRequest, At, box, CallPcs, Inside
<1>9. CASE ReadRequest(s)
  BY <1>3, <1>9 DEF ReadRequest, Answered, Refuse, At, box, CallPcs, Inside, LockInv
<1>10. CASE SeeLive(s)
  BY <1>3, <1>10 DEF SeeLive, Refuse, At, box, CallPcs, Inside, LockInv
<1>11. CASE Poll(s)
  BY <1>3, <1>4, <1>11 DEF Poll, At, box, CallPcs, Inside
<1>12. CASE WaitEnds(s)
  BY <1>3, <1>12 DEF WaitEnds, At, box, CallPcs, Inside
<1>13. CASE SenderDies(s)
  BY <1>3, <1>13 DEF SenderDies, Refuse, At, box, CallPcs, Inside, LockInv
<1>14. CASE WriteRequest(s)
  <2>1. call[s] = "write" /\ lock = s
    BY <1>14 DEF WriteRequest, At, LockInv, Inside
  <2>2. lock' = "free" /\ \E pc \in {"wait", "refused"} : Goes(s, pc)
    BY <1>14 DEF WriteRequest, Refuse
  <2>3. Requested' \subseteq Requested \union {IdOf[s]}
    BY <1>14, WrittenFile
  <2>4. rpc # "sweep" /\ spc # "sweep" /\ rpc # "gone" /\ spc # "stopped"
    BY <1>1, <2>1 DEF LockInv
  <2>5. \A q \in Senders : call'[q] \notin Inside
    BY <2>1, <2>2 DEF Goes, LockInv, TypeOK, Inside
  <2>6. call' \in [Senders -> CallPcs] /\ lock' \in Holders
    BY <2>2 DEF Goes, TypeOK, CallPcs, Holders
  <2> QED BY <1>1, <1>2, <2>2, <2>4, <2>5, <2>6 DEF LockInv, Live, ends, Inside
<1> QED BY <1>5, <1>6, <1>7, <1>8, <1>9, <1>10, <1>11, <1>12, <1>13, <1>14
        DEF SenderStep, Calling

LEMMA LockOfWriter ==
    ASSUME TypeOK, FilesInv, WriterInv, LockInv, WriterStep \/ UNCHANGED vars, [Next]_vars
    PROVE  LockInv'
<1>1. UNCHANGED <<lock, sends, ends>>
  BY WriterFrame DEF vars
<1>2. \A s \in Senders : ~WriteRequest(s)
  BY <1>1 DEF WriteRequest, Refuse, Goes, At, LockInv, Inside, sends, TypeOK
<1>3. Requested' \subseteq Requested /\ (files = <<>> => files' = <<>>)
  BY <1>2, RequestedChange
<1> QED BY <1>1, <1>3 DEF LockInv, Live, sends, ends, Inside

\* The runner and the stop: the lock is taken to list the requests, and kept
\* until they are erased.
LEMMA LockOfEnd ==
    ASSUME TypeOK, FilesInv, WriterInv, LockInv, EndStep, [Next]_vars
    PROVE  LockInv'
<1> DEFINE Names == {"free", "runner", "stop"}
<1>1. \A q \in Senders : q \notin Names
  BY InputAssumption
<1>2. UNCHANGED <<call, told, born>>
  BY EndFrame DEF sends
<1>3. \A s \in Senders : ~WriteRequest(s)
  BY <1>2 DEF WriteRequest, Refuse, Goes, At, TypeOK
<1>4. Requested' \subseteq Requested /\ (files = <<>> => files' = <<>>)
  BY <1>3, RequestedChange
<1>5. ASSUME lock' = lock \/ {lock, lock'} \subseteq Names
      PROVE  /\ \A s \in Senders : call'[s] \in Inside <=> lock' = s
             /\ \A s \in Senders : call'[s] \in {"live", "write"} => IdOf[s] \notin Requested'
  BY <1>1, <1>2, <1>4, <1>5 DEF LockInv
<1>6. lock = "free" \/ lock = "runner" \/ lock = "stop" =>
        \A s \in Senders : call[s] # "write"
  BY <1>1 DEF LockInv, Inside
<1>7. CASE ChildExits
  BY <1>4, <1>5, <1>7 DEF ChildExits, LockInv, Live, sends, box
<1>8. CASE Cancel \/ SeeExit \/ Join \/ WriteOutcome
  BY <1>2, <1>4, <1>5, <1>8 DEF Cancel, SeeExit, Join, WriteOutcome, RunnerGoes, LockInv, Live
<1>9. CASE Dead /\ UNCHANGED <<spc, sweep>>
  <2>1. lock' = lock \/ {lock, lock'} \subseteq Names
    BY <1>9 DEF Dead
  <2>2. rpc' = "killed" /\ (lock = "stop" => lock' = "stop")
    BY <1>9 DEF Dead, RunnerGoes
  <2> QED BY <1>2, <1>4, <1>5, <1>9, <2>1, <2>2 DEF LockInv, Live
<1>10. CASE Terminate
  BY <1>2, <1>4, <1>5, <1>9, <1>10 DEF Terminate, RunnerGoes, LockInv, Live
<1>11. CASE RunnerPending
  BY <1>2, <1>4, <1>5, <1>11 DEF RunnerPending, ListPending, RunnerGoes, LockInv, Live
<1>12. CASE RunnerErases
  <2>1. PICK r \in sweep : r \in Ids /\ files' = Without(r) /\ sweep' = sweep \ {r}
    BY <1>12, EraseChanges DEF RunnerErases
  <2>2. Requested' = Requested \ {r}
    BY <2>1, WithoutFile DEF TypeOK
  <2> QED BY <1>2, <1>4, <1>5, <1>12, <2>1, <2>2 DEF RunnerErases, LockInv, Live
<1>13. CASE RunnerGone
  <2>1. Requested = {} /\ lock = "runner"
    BY <1>13 DEF RunnerGone, LockInv
  <2>2. files = <<>>
    BY <2>1, NoFiles DEF TypeOK
  <2> QED BY <1>2, <1>4, <1>5, <1>6, <1>13, <2>1, <2>2
          DEF RunnerGone, RunnerGoes, LockInv, Live
<1>14. CASE RunnerLockTimeout
  BY <1>2, <1>4, <1>5, <1>14 DEF RunnerLockTimeout, RunnerGoes, LockInv, Live
<1>15. CASE StopKills
  <2>1. CASE Live
    <3>1. Dead /\ spc' = "pending" /\ spc = "idle" /\ sweep' = sweep
      BY <1>15, <2>1 DEF StopKills
    <3>2. lock' = lock \/ {lock, lock'} \subseteq Names
      BY <3>1 DEF Dead
    <3> QED BY <1>2, <1>4, <1>5, <3>1, <3>2 DEF Dead, RunnerGoes, LockInv, Live
  <2>2. CASE ~Live
    BY <1>2, <1>4, <1>5, <1>15, <2>2 DEF StopKills, LockInv, Live
  <2> QED BY <2>1, <2>2
<1>16. CASE StopPending
  BY <1>2, <1>4, <1>5, <1>16 DEF StopPending, ListPending, LockInv, Live
<1>17. CASE StopErases
  <2>1. PICK r \in sweep : r \in Ids /\ files' = Without(r) /\ sweep' = sweep \ {r}
    BY <1>17, EraseChanges DEF StopErases
  <2>2. Requested' = Requested \ {r}
    BY <2>1, WithoutFile DEF TypeOK
  <2> QED BY <1>2, <1>4, <1>5, <1>17, <2>1, <2>2 DEF StopErases, LockInv, Live
<1>18. CASE StopEnds
  <2>1. Requested = {} /\ lock = "stop"
    BY <1>18 DEF StopEnds, LockInv
  <2>2. files = <<>>
    BY <2>1, NoFiles DEF TypeOK
  <2> QED BY <1>2, <1>4, <1>5, <1>6, <1>18, <2>1, <2>2 DEF StopEnds, LockInv, Live
<1>19. CASE Killed
  BY <1>9, <1>19 DEF Killed
<1> QED BY <1>7, <1>8, <1>10, <1>11, <1>12, <1>13, <1>14, <1>15, <1>16, <1>17, <1>18, <1>19
        DEF EndStep, Runner, Stopping

-----------------------------------------------------------------------------
(* The invariant.                                                          *)

LEMMA LockKept ==
    ASSUME TypeOK, FilesInv, WriterInv, LockInv, [Next]_vars
    PROVE  LockInv' /\ call' \in [Senders -> CallPcs] /\ lock' \in Holders
<1>1. CASE \E s \in Senders : SenderStep(s)
  BY <1>1, LockOfSender
<1>2. CASE WriterStep \/ UNCHANGED vars
  BY <1>2, WriterFrame, LockOfWriter DEF vars, sends, TypeOK
<1>3. CASE EndStep
  <2>1. UNCHANGED call
    BY <1>3, EndFrame DEF sends
  <2>2. lock' \in {lock, "free", "runner", "stop"}
    BY <1>3 DEF EndStep, Runner, Stopping, ChildExits, Cancel, SeeExit, Join, WriteOutcome,
                Terminate, Dead, RunnerPending, RunnerErases, RunnerGone, RunnerLockTimeout,
                StopKills, StopPending, StopErases, StopEnds, Killed, ListPending
  <2> QED BY <1>3, <2>1, <2>2, LockOfEnd DEF TypeOK, Holders
<1> QED BY <1>1, <1>2, <1>3, Steps

\* What the runner and the stop keep is of its type.
LEMMA EndTypes ==
    ASSUME TypeOK, FilesInv, WriterInv, [Next]_vars
    PROVE  /\ outcome' \in BOOLEAN /\ child' \in BOOLEAN
           /\ rpc' \in RunnerPcs /\ spc' \in StopPcs
           /\ sweep' \subseteq Ids
<1>1. CASE UNCHANGED ends
  BY <1>1 DEF ends, TypeOK
<1>2. CASE EndStep
  <2>1. outcome' \in BOOLEAN /\ child' \in BOOLEAN
    BY <1>2 DEF EndStep, Runner, Stopping, ChildExits, Cancel, SeeExit, Join, WriteOutcome,
                Terminate, Dead, RunnerPending, RunnerErases, RunnerGone, RunnerLockTimeout,
                StopKills, StopPending, StopErases, StopEnds, Killed, TypeOK
  <2>2. rpc' \in RunnerPcs /\ spc' \in StopPcs
    BY <1>2 DEF EndStep, Runner, Stopping, ChildExits, Cancel, SeeExit, Join, WriteOutcome,
                Terminate, Dead, RunnerPending, RunnerErases, RunnerGone, RunnerLockTimeout,
                StopKills, StopPending, StopErases, StopEnds, Killed, TypeOK, RunnerGoes,
                RunnerPcs, StopPcs
  <2>3. Requested \subseteq Ids
    <3> SUFFICES ASSUME NEW i \in 1..Len(files) PROVE files[i].id \in Ids
      BY DEF Requested
    <3>1. files[i] \in Inputs
      BY DEF TypeOK
    <3> QED BY <3>1 DEF Inputs
  <2>4. sweep' \subseteq sweep \/ sweep' = Requested
    BY <1>2 DEF EndStep, Runner, Stopping, ChildExits, Cancel, SeeExit, Join, WriteOutcome,
                Terminate, RunnerPending, RunnerErases, RunnerGone, RunnerLockTimeout,
                StopKills, StopPending, StopErases, StopEnds, Killed, ListPending, Erase
  <2> QED BY <2>1, <2>2, <2>3, <2>4 DEF TypeOK
<1> QED BY <1>1, <1>2, Steps, SenderFrame, WriterFrame DEF vars

LEMMA WriterPcKept ==
    ASSUME TypeOK, [Next]_vars
    PROVE  wpc' \in WriterPcs
<1>1. CASE \E s \in Senders : SenderStep(s)
  BY <1>1, SenderFrame DEF writer, TypeOK
<1>2. CASE WriterStep
  BY <1>2 DEF WriterStep, Writer, List, WriterEnds, Take, Mark, Unlink, Deliver, DeliverFails,
              Accept, Failed, Done, WriterOver, WriterGoes, WriterPcs, TypeOK
<1>3. CASE EndStep
  BY <1>3, EndFrame DEF WriterOver, WriterGoes, WriterPcs, TypeOK
<1> QED BY <1>1, <1>2, <1>3, Steps DEF vars, writer, TypeOK

\* Requests are remembered in the order of their first file.
LEMMA BornKept ==
    ASSUME TypeOK, [Next]_vars
    PROVE  born' \in Seq(Ids)
<1>1. CASE \E s \in Senders : SenderStep(s)
  <2>1. PICK s \in Senders : SenderStep(s)
    BY <1>1
  <2>2. IdOf[s] \in Ids
    BY DEF Ids
  <2>3. born' = born \/ born' = Append(born, IdOf[s])
    BY <2>1 DEF SenderStep, Calling, Call, LockTimeout, SeeAck, SeeRequest, ReadRequest,
                SeeLive, WriteRequest, Poll, WaitEnds, SenderDies, BornWith
  <2>4. born \in Seq(Ids)
    BY DEF TypeOK
  <2>5. Append(born, IdOf[s]) \in Seq(Ids)
    BY <2>2, <2>4, AppendProperties
  <2> QED BY <2>3, <2>4, <2>5
<1> QED BY <1>1, Steps, WriterFrame, EndFrame DEF vars, sends, TypeOK

LEMMA InputAtFirst == Init => InputInv
<1> SUFFICES ASSUME Init PROVE InputInv
  OBVIOUS
<1>1. \A T : <<>> \in Seq(T) /\ Len(<<>>) = 0
  BY EmptySeq
<1>2. 1..0 = {}
  OBVIOUS
<1>3. Requested = {} /\ Received = {}
  BY <1>1, <1>2 DEF Init, Requested, Received
<1>4. TypeOK
  BY <1>1 DEF Init, TypeOK, Acks, Statuses, Holders, CallPcs, WriterPcs, RunnerPcs, StopPcs
<1>5. FilesInv /\ WriterInv /\ DeliveryInv /\ DeliveredOnce
  BY <1>1, <1>2, <1>3 DEF Init, FilesInv, WriterInv, DeliveryInv, DeliveredOnce
<1>6. LockInv
  BY <1>3, InputAssumption DEF Init, LockInv, Inside, Live
<1> QED BY <1>4, <1>5, <1>6 DEF InputInv

LEMMA InputStep == InputInv /\ [Next]_vars => InputInv'
<1> SUFFICES ASSUME InputInv, [Next]_vars PROVE InputInv'
  OBVIOUS
<1> USE DEF InputInv
<1>1. files' \in Seq(Inputs) /\ FilesInv'
  BY FilesStep
<1>2. WriterInv' /\ queue' \in Seq(Ids) /\ taken' \in Texts \union {NoText}
  BY WriterKept
<1>3. DeliveryInv' /\ delivered' \in Seq(Inputs)
  BY DeliveryKept
<1>4. LockInv' /\ call' \in [Senders -> CallPcs] /\ lock' \in Holders
  BY LockKept
<1>5. told' \in [Senders -> Statuses]
  <2>1. CASE Senders = {}
    BY <2>1, Steps, WriterFrame, EndFrame DEF vars, sends, TypeOK
  <2>2. CASE Senders # {}
    BY <2>2, ToldChange
  <2> QED BY <2>1, <2>2
<1>6. TypeOK'
  BY <1>1, <1>2, <1>3, <1>4, <1>5, AckGoesOn, EndTypes, WriterPcKept, BornKept DEF TypeOK
<1>7. DeliveredOnce'
  BY OnceKept
<1> QED BY <1>1, <1>2, <1>3, <1>4, <1>6, <1>7

\* The invariant holds at first, and every step keeps it (send, serve and
\* finish_pending of command_input.py).
THEOREM InputInductive == Spec => []InputInv
  BY InputAtFirst, InputStep, PTL DEF Spec

-----------------------------------------------------------------------------
(* What the invariant says.                                                *)

\* However often a request is sent again, and whoever dies, the child gets the
\* text of a request at most once (serve of command_input.py).
THEOREM OnceDelivered == Spec => []DeliveredOnce
<1>1. InputInv => DeliveredOnce
  BY DEF InputInv
<1> QED BY <1>1, InputInductive, PTL

\* No request file outlives a terminal that ended by itself or by a stop
\* (finish_pending of command_input.py).
THEOREM NothingLeft == Spec => []NothingIsLeft
<1>1. InputInv => NothingIsLeft
  BY DEF InputInv, LockInv, NothingIsLeft
<1> QED BY <1>1, InputInductive, PTL

\* Requests of one id that all bring the same text, as the retries of a caller
\* that keeps to the contract do.
OneText == \A s, t \in Senders : IdOf[s] = IdOf[t] => TextOf[s] = TextOf[t]

\* With such requests, a sender that is told "accepted" has had its own text
\* delivered (send and serve of command_input.py).
THEOREM AcceptedDelivered ==
    ASSUME OneText
    PROVE  Spec => []AcceptedIsDelivered
<1>1. InputInv => AcceptedIsDelivered
  <2> SUFFICES ASSUME InputInv, NEW s \in Senders, told[s] = "accepted"
               PROVE  \E i \in 1..Len(delivered) :
                        delivered[i] = [id |-> IdOf[s], text |-> TextOf[s]]
    BY DEF AcceptedIsDelivered
  <2>1. PICK i \in 1..Len(delivered) : delivered[i].id = IdOf[s]
    BY DEF InputInv, DeliveryInv, Received
  <2>2. PICK t \in Senders : delivered[i] = [id |-> IdOf[t], text |-> TextOf[t]]
    BY DEF InputInv, DeliveryInv, Asked
  <2>3. TextOf[t] = TextOf[s]
    BY <2>1, <2>2 DEF OneText
  <2> QED BY <2>1, <2>2, <2>3
<1> QED BY <1>1, InputInductive, PTL

-----------------------------------------------------------------------------
(* The order.                                                              *)

LEMMA PlaceIsThere ==
    ASSUME NEW r \in Born
    PROVE  Place(r) \in 1..Len(born) /\ born[Place(r)] = r
  BY DEF Born, Place

\* A request keeps its place, and a new one comes after all others.
LEMMA BornGrows ==
    ASSUME TypeOK, BornInv, NEW x \in Ids, born' = BornWith(x)
    PROVE  /\ \A i, j \in 1..Len(born') : born'[i] = born'[j] => i = j
           /\ Born' = Born \union {x}
           /\ \A r \in Born : Place(r)' = Place(r)
           /\ x \notin Born => \A q \in Born : Before(q, x)'
<1>1. CASE x \in Born
  <2>1. born' = born
    BY <1>1 DEF BornWith, Born
  <2> QED BY <1>1, <2>1 DEF BornInv, Born, Place
<1>2. CASE x \notin Born
  <2>1. born' = Append(born, x)
    BY <1>2 DEF BornWith, Born
  <2>2. born \in Seq(Ids) /\ Len(born) \in Nat
    BY LenProperties DEF TypeOK
  <2>3. /\ Len(born') = Len(born) + 1
        /\ \A i \in 1..Len(born) : born'[i] = born[i]
        /\ born'[Len(born) + 1] = x
    BY <2>1, <2>2, AppendProperties
  <2>4. \A i \in 1..Len(born) : born[i] # x
    BY <1>2 DEF Born
  <2>5. \A i, j \in 1..Len(born') : born'[i] = born'[j] => i = j
    BY <2>2, <2>3, <2>4 DEF BornInv
  <2>6. Born' = Born \union {x}
    <3>1. \A i \in 1..Len(born') : born'[i] \in Born \union {x}
      BY <2>2, <2>3 DEF Born
    <3>2. Len(born) + 1 \in 1..Len(born') /\ 1..Len(born) \subseteq 1..Len(born')
      BY <2>2, <2>3
    <3>3. Born' \subseteq Born \union {x}
      BY <3>1 DEF Born
    <3>4. Born \subseteq Born' /\ x \in Born'
      BY <2>3, <3>2 DEF Born
    <3> QED BY <3>3, <3>4
  <2>7. ASSUME NEW r \in Born PROVE Place(r)' = Place(r) /\ Place(r) \in 1..Len(born)
    <3>1. Place(r) \in 1..Len(born) /\ born[Place(r)] = r
      BY PlaceIsThere
    <3>2. Place(r) \in 1..Len(born') /\ born'[Place(r)] = r
      BY <2>2, <2>3, <3>1
    <3>3. \A i \in 1..Len(born') : born'[i] = r <=> i = Place(r)
      BY <2>5, <3>2
    <3> HIDE DEF Place
    <3>4. Place(r)' = CHOOSE i \in 1..Len(born') : i = Place(r)
      BY <3>3 DEF Place
    <3> QED BY <3>1, <3>2, <3>4
  <2>8. Place(x)' = Len(born) + 1
    <3>1. \A i \in 1..Len(born') : born'[i] = x <=> i = Len(born) + 1
      BY <2>2, <2>3, <2>4
    <3>2. Place(x)' \in 1..Len(born') /\ born'[Place(x)'] = x
      <4>1. Len(born) + 1 \in 1..Len(born') /\ born'[Len(born) + 1] = x
        BY <2>2, <2>3
      <4> QED BY <4>1 DEF Place
    <3> QED BY <3>1, <3>2
  <2>9. \A q \in Born : Before(q, x)'
    BY <2>2, <2>7, <2>8 DEF Before
  <2> QED BY <2>5, <2>6, <2>7, <2>9
<1> QED BY <1>1, <1>2

\* The files that stay keep their order.
LEMMA FilesStay ==
    ASSUME files \in Seq(Inputs), files' = files \/ \E r \in Ids : files' = Without(r)
    PROVE  \E at \in [1..Len(files') -> 1..Len(files)] :
             /\ \A i \in 1..Len(files') : files'[i] = files[at[i]]
             /\ \A i, j \in 1..Len(files') : i < j => at[i] < at[j]
<1>1. CASE files' = files
  <2> DEFINE at == [i \in 1..Len(files') |-> i]
  <2>1. /\ at \in [1..Len(files') -> 1..Len(files)]
        /\ \A i \in 1..Len(files') : files'[i] = files[at[i]]
        /\ \A i, j \in 1..Len(files') : i < j => at[i] < at[j]
    BY <1>1
  <2> QED BY <2>1
<1>2. ASSUME NEW r \in Requested, files' = Without(r)
      PROVE  \E at \in [1..Len(files') -> 1..Len(files)] :
               /\ \A i \in 1..Len(files') : files'[i] = files[at[i]]
               /\ \A i, j \in 1..Len(files') : i < j => at[i] < at[j]
  <2> DEFINE k == FileOf(r)
             at == [i \in 1..Len(files') |-> IF i < k THEN i ELSE i + 1]
  <2>1. k \in 1..Len(files) /\ Len(files) \in Nat
    BY FileOfIsThere, LenProperties
  <2>2. files' = S!RemoveAt(files, k)
    BY <1>2 DEF Without
  <2> HIDE DEF k
  <2>3. /\ Len(files') = Len(files) - 1
        /\ \A i \in 1..(Len(files) - 1) :
             files'[i] = IF i < k THEN files[i] ELSE files[i + 1]
    BY <2>1, <2>2, Removed
  <2>4. at \in [1..Len(files') -> 1..Len(files)]
    BY <2>1, <2>3
  <2>5. \A i \in 1..Len(files') : files'[i] = files[at[i]]
    BY <2>1, <2>3
  <2>6. \A i, j \in 1..Len(files') : i < j => at[i] < at[j]
    BY <2>1, <2>3
  <2> HIDE DEF at
  <2> QED BY <2>4, <2>5, <2>6
<1>3. ASSUME NEW r \in Ids, files' = Without(r), r \notin Requested
      PROVE  files' = files
  BY <1>3 DEF Without
<1> QED BY <1>1, <1>2, <1>3

\* What the writer still has before it keeps its order too.
LEMMA QueueStays ==
    ASSUME queue \in Seq(Ids),
           UNCHANGED queue \/ queue' = <<>> \/ (queue # <<>> /\ queue' = Tail(queue))
    PROVE  \E at \in [1..Len(queue') -> 1..Len(queue)] :
             /\ \A i \in 1..Len(queue') : queue'[i] = queue[at[i]]
             /\ \A i, j \in 1..Len(queue') : i < j => at[i] < at[j]
<1>1. CASE queue' = queue
  <2> DEFINE at == [i \in 1..Len(queue') |-> i]
  <2>1. /\ at \in [1..Len(queue') -> 1..Len(queue)]
        /\ \A i \in 1..Len(queue') : queue'[i] = queue[at[i]]
        /\ \A i, j \in 1..Len(queue') : i < j => at[i] < at[j]
    BY <1>1
  <2> QED BY <2>1
<1>2. CASE queue' = <<>>
  <2> DEFINE at == [i \in 1..Len(queue') |-> i]
  <2>1. 1..Len(queue') = {}
    BY <1>2, EmptySeq
  <2>2. /\ at \in [1..Len(queue') -> 1..Len(queue)]
        /\ \A i \in 1..Len(queue') : queue'[i] = queue[at[i]]
        /\ \A i, j \in 1..Len(queue') : i < j => at[i] < at[j]
    BY <2>1
  <2> QED BY <2>2
<1>3. CASE queue # <<>> /\ queue' = Tail(queue)
  <2> DEFINE at == [i \in 1..Len(queue') |-> i + 1]
  <2>1. /\ Len(queue) \in Nat \ {0}
        /\ Len(queue') = Len(queue) - 1
        /\ \A i \in 1..Len(queue') : queue'[i] = queue[i + 1]
    BY <1>3, HeadTailProperties, EmptySeq, LenProperties
  <2>2. at \in [1..Len(queue') -> 1..Len(queue)]
    BY <2>1
  <2>3. /\ \A i \in 1..Len(queue') : queue'[i] = queue[at[i]]
        /\ \A i, j \in 1..Len(queue') : i < j => at[i] < at[j]
    BY <2>1
  <2> HIDE DEF at
  <2> QED BY <2>2, <2>3
<1> QED BY <1>1, <1>2, <1>3

\* The request at the head of the list, and the others.
LEMMA QueueParts ==
    ASSUME queue \in Seq(Ids), queue # <<>>
    PROVE  /\ Queued = {Head(queue)} \union {queue[i] : i \in 2..Len(queue)}
           /\ queue' = Tail(queue) => Queued' = {queue[i] : i \in 2..Len(queue)}
           /\ Head(queue) = queue[1] /\ 1 \in 1..Len(queue)
           /\ Head(queue) \in Queued
<1>1. /\ Len(queue) \in Nat \ {0} /\ Head(queue) = queue[1]
      /\ Len(Tail(queue)) = Len(queue) - 1
      /\ \A i \in 1..Len(Tail(queue)) : Tail(queue)[i] = queue[i + 1]
  BY HeadTailProperties, EmptySeq, LenProperties
<1>2. 1..Len(queue) = {1} \union (2..Len(queue))
  BY <1>1
<1>3. Queued = {Head(queue)} \union {queue[i] : i \in 2..Len(queue)}
  BY <1>1, <1>2 DEF Queued
<1>4. ASSUME queue' = Tail(queue) PROVE Queued' = {queue[i] : i \in 2..Len(queue)}
  <2>1. \A i \in 1..Len(queue') : i + 1 \in 2..Len(queue) /\ queue'[i] = queue[i + 1]
    BY <1>1, <1>4
  <2>2. \A i \in 2..Len(queue) : i - 1 \in 1..Len(queue') /\ queue'[i - 1] = queue[i]
    BY <1>1, <1>4
  <2> QED BY <2>1, <2>2 DEF Queued
<1> QED BY <1>1, <1>2, <1>3, <1>4

InHand == {"mark", "unlink", "deliver"}

LEMMA RequestIds ==
    ASSUME TypeOK
    PROVE  Requested \union Queued \subseteq Ids
<1>1. \A i \in 1..Len(files) : files[i].id \in Ids
  <2> SUFFICES ASSUME NEW i \in 1..Len(files) PROVE files[i].id \in Ids
    OBVIOUS
  <2>1. files[i] \in Inputs
    BY DEF TypeOK
  <2> QED BY <2>1 DEF Inputs
<1>2. \A i \in 1..Len(queue) : queue[i] \in Ids
  BY DEF TypeOK
<1> QED BY <1>1, <1>2 DEF Requested, Queued

\* A step that adds no open request keeps the order: files and list shrink, an open
\* request leaves the list only with all others, and the child gets what is in hand.
LEMMA OrderShrinks ==
    ASSUME TypeOK, WriterInv, BornInv, OrderInv, UNCHANGED born,
           files' = files \/ \E r \in Ids : files' = Without(r),
           UNCHANGED queue \/ queue' = <<>> \/ (queue # <<>> /\ queue' = Tail(queue)),
           Open' \subseteq Open,
           Queued \intersect Open' \subseteq Queued' \/ Queued' = {},
           wpc' \in InHand => wpc \in InHand /\ UNCHANGED queue,
           \/ Received' = Received
           \/ wpc = "deliver" /\ Received' = Received \union {Head(queue)} /\ wpc' \notin InHand
    PROVE  OrderInv'
<1>1. \A q : Place(q)' = Place(q)
  BY DEF Place
<1>2. \A q, r : Before(q, r)' <=> Before(q, r)
  BY <1>1 DEF Before
<1>3. ASSUME NEW i \in 1..Len(files'), NEW j \in 1..Len(files'),
             i < j, {files'[i].id, files'[j].id} \subseteq Open'
      PROVE  Before(files'[i].id, files'[j].id)
  <2>1. PICK at \in [1..Len(files') -> 1..Len(files)] :
          /\ \A m \in 1..Len(files') : files'[m] = files[at[m]]
          /\ \A m, n \in 1..Len(files') : m < n => at[m] < at[n]
    BY FilesStay DEF TypeOK
  <2>2. /\ at[i] \in 1..Len(files) /\ at[j] \in 1..Len(files) /\ at[i] < at[j]
        /\ files'[i] = files[at[i]] /\ files'[j] = files[at[j]]
    BY <1>3, <2>1
  <2>3. {files[at[i]].id, files[at[j]].id} \subseteq Open
    BY <1>3, <2>2
  <2> QED BY <2>2, <2>3 DEF OrderInv
<1>4. ASSUME NEW i \in 1..Len(queue'), NEW j \in 1..Len(queue'),
             i < j, {queue'[i], queue'[j]} \subseteq Open'
      PROVE  Before(queue'[i], queue'[j])
  <2>1. PICK at \in [1..Len(queue') -> 1..Len(queue)] :
          /\ \A m \in 1..Len(queue') : queue'[m] = queue[at[m]]
          /\ \A m, n \in 1..Len(queue') : m < n => at[m] < at[n]
    BY QueueStays DEF TypeOK
  <2>2. /\ at[i] \in 1..Len(queue) /\ at[j] \in 1..Len(queue) /\ at[i] < at[j]
        /\ queue'[i] = queue[at[i]] /\ queue'[j] = queue[at[j]]
    BY <1>4, <2>1
  <2>3. {queue[at[i]], queue[at[j]]} \subseteq Open
    BY <1>4, <2>2
  <2> QED BY <2>2, <2>3 DEF OrderInv
<1>5. Queued' \subseteq Queued
  <2>1. PICK at \in [1..Len(queue') -> 1..Len(queue)] :
          \A m \in 1..Len(queue') : queue'[m] = queue[at[m]]
    BY QueueStays DEF TypeOK
  <2> QED BY <2>1 DEF Queued
<1>6. ASSUME NEW q \in Queued' \intersect Open', NEW r \in Open' \ Queued'
      PROVE  Before(q, r)
  BY <1>5, <1>6 DEF OrderInv
<1>7. ASSUME NEW q \in Received', NEW r \in Open' PROVE Before(q, r)
  <2>1. CASE q \in Received
    BY <1>7, <2>1 DEF OrderInv
  <2>2. CASE q \notin Received
    <3>1. wpc = "deliver" /\ q = Head(queue)
      BY <1>7, <2>2
    <3>2. Acked(Head(queue))
      BY <3>1 DEF WriterInv
    <3>3. r \in Open \ {Head(queue)}
      BY <1>7, <3>2 DEF Open
    <3> QED BY <3>1, <3>3 DEF OrderInv
  <2> QED BY <2>1, <2>2
<1>8. ASSUME wpc' \in InHand
      PROVE  /\ \A q \in Received' : Before(q, Head(queue'))
             /\ \A r \in Open' \ {Head(queue')} : Before(Head(queue'), r)
  BY <1>8 DEF OrderInv, InHand
<1> QED BY <1>2, <1>3, <1>4, <1>6, <1>7, <1>8 DEF OrderInv, InHand

\* The end of a request of the list: it has its acknowledgement by then.
LEMMA OrderDone ==
    ASSUME TypeOK, FilesInv, WriterInv, BornInv, OrderInv, UNCHANGED born,
           files' = files \/ \E r \in Ids : files' = Without(r),
           queue # <<>>, Done, ack'[Head(queue)].status # "none",
           \A r \in Ids : Acked(r) => Acked(r)',
           \/ Received' = Received
           \/ wpc = "deliver" /\ Received' = Received \union {Head(queue)}
    PROVE  OrderInv'
<1>1. queue' = Tail(queue) /\ wpc' \notin InHand
  BY DEF Done, WriterGoes, InHand
<1>2. queue \in Seq(Ids)
  BY DEF TypeOK
<1>3. Queued \subseteq Queued' \union {Head(queue)} /\ Queued' \subseteq Queued
  BY <1>1, <1>2, QueueParts
<1>4. Requested' \subseteq Requested
  BY WithoutFile DEF TypeOK, Requested
<1>5. Requested \union Queued \subseteq Ids
  BY RequestIds
<1>6. Open' \subseteq Open
  BY <1>3, <1>4, <1>5 DEF Open
<1>7. Queued \intersect Open' \subseteq Queued'
  BY <1>3 DEF Open, Acked
<1> QED BY <1>1, <1>6, <1>7, OrderShrinks

\* The writer may be ended anywhere; the files may go.
LEMMA OrderStays ==
    ASSUME TypeOK, FilesInv, WriterInv, BornInv, OrderInv, UNCHANGED born,
           files' = files \/ \E r \in Ids : files' = Without(r),
           UNCHANGED queue \/ WriterOver,
           wpc' \in InHand => wpc \in InHand,
           \A r \in Ids : Acked(r) => Acked(r)',
           \/ Received' = Received
           \/ wpc = "deliver" /\ Received' = Received \union {Head(queue)} /\ wpc' \notin InHand
    PROVE  OrderInv'
<1>1. Requested \union Queued \subseteq Ids
  BY RequestIds
<1>2. Requested' \subseteq Requested
  BY WithoutFile DEF TypeOK, Requested
<1>3. CASE UNCHANGED queue
  <2>1. Queued' = Queued
    BY <1>3 DEF Queued
  <2>2. Open' \subseteq Open
    BY <1>1, <1>2, <2>1 DEF Open
  <2> QED BY <1>3, <2>1, <2>2, OrderShrinks
<1>4. CASE WriterOver
  <2>1. queue' = <<>> /\ wpc' \notin InHand
    BY <1>4 DEF WriterOver, WriterGoes, InHand
  <2>2. Queued' = {}
    BY <2>1, EmptySeq DEF Queued
  <2>3. Open' \subseteq Open
    BY <1>1, <1>2, <2>2 DEF Open
  <2> QED BY <2>1, <2>2, <2>3, OrderShrinks
<1> QED BY <1>3, <1>4

\* A failure is acknowledged, or it ends the writer.
LEMMA OrderFailed ==
    ASSUME TypeOK, FilesInv, WriterInv, BornInv, OrderInv, UNCHANGED born, [Next]_vars,
           queue # <<>>, Head(queue) \in Ids, Failed,
           \/ Received' = Received
           \/ wpc = "deliver" /\ Received' = Received \union {Head(queue)}
    PROVE  OrderInv'
<1>1. \A r \in Ids : Acked(r) => Acked(r)'
  BY AckGoesOn
<1>2. CASE Acknowledge(Head(queue), "failed", taken) /\ files' = Without(Head(queue)) /\ Done
  <2>1. ack'[Head(queue)].status # "none"
    BY <1>2 DEF Acknowledge, TypeOK
  <2> QED BY <1>1, <1>2, <2>1, OrderDone
<1>3. CASE UNCHANGED box /\ WriterOver
  <2>1. wpc' \notin InHand
    BY <1>3 DEF WriterOver, WriterGoes, InHand
  <2> QED BY <1>1, <1>3, <2>1, OrderStays DEF box
<1> QED BY <1>2, <1>3 DEF Failed

\* serve lists the requests in the order of their files.
LEMMA OrderListed ==
    ASSUME TypeOK, OrderInv, List
    PROVE  OrderInv'
<1>1. /\ UNCHANGED <<box, born, delivered>> /\ wpc' = "take"
      /\ queue' = [i \in 1..Len(files) |-> files[i].id]
  BY DEF List, WriterGoes, sends
<1>2. Len(files) \in Nat
  BY LenProperties DEF TypeOK
<1>3. Len(queue') = Len(files) /\ \A i \in 1..Len(files) : queue'[i] = files[i].id
  BY <1>1, <1>2
<1>4. Queued' = Requested /\ Requested' = Requested /\ Received' = Received
  BY <1>1, <1>3 DEF Queued, Requested, Received, box
<1>5. Open' \subseteq Open /\ Open' \subseteq Queued'
  BY <1>1, <1>4 DEF Open, Acked, box
<1>6. \A q, r : Before(q, r)' <=> Before(q, r)
  BY <1>1 DEF Before, Place
<1>7. ASSUME NEW i \in 1..Len(files), NEW j \in 1..Len(files),
             i < j, {files[i].id, files[j].id} \subseteq Open'
      PROVE  Before(files[i].id, files[j].id)
  BY <1>5, <1>7 DEF OrderInv
<1>8. \A i, j \in 1..Len(queue') :
        i < j /\ {queue'[i], queue'[j]} \subseteq Open' => Before(queue'[i], queue'[j])
  BY <1>3, <1>7
<1>9. \A q \in Received', r \in Open' : Before(q, r)
  BY <1>4, <1>5 DEF OrderInv
<1>10. files' = files
  BY <1>1 DEF box
<1> QED BY <1>1, <1>5, <1>6, <1>7, <1>8, <1>9, <1>10 DEF OrderInv

\* The request that is taken comes before all others that are open.
LEMMA OrderTaken ==
    ASSUME TypeOK, WriterInv, OrderInv, UNCHANGED <<box, queue, born, delivered>>,
           wpc = "take", Head(queue) \in Requested, ~Acked(Head(queue))
    PROVE  OrderInv'
<1>1. /\ Open' = Open /\ Queued' = Queued /\ Received' = Received
      /\ files' = files /\ Head(queue') = Head(queue)
  BY DEF Open, Queued, Requested, Received, Acked, box
<1>2. \A q, r : Before(q, r)' <=> Before(q, r)
  BY DEF Before, Place
<1>3. Head(queue) \in Open
  BY DEF Open
<1>4. queue \in Seq(Ids) /\ queue # <<>>
  BY DEF TypeOK, WriterInv
<1>5. /\ Queued = {Head(queue)} \union {queue[i] : i \in 2..Len(queue)}
      /\ Head(queue) = queue[1] /\ 1 \in 1..Len(queue) /\ Head(queue) \in Queued
  BY <1>4, QueueParts
<1>6. Len(queue) \in Nat
  BY <1>4, LenProperties
<1>7. ASSUME NEW r \in Open \ {Head(queue)} PROVE Before(Head(queue), r)
  <2>1. CASE r \in Queued
    <3>1. PICK j \in 2..Len(queue) : queue[j] = r
      BY <1>5, <1>7, <2>1
    <3>2. j \in 1..Len(queue) /\ 1 < j /\ {queue[1], queue[j]} \subseteq Open
      BY <1>3, <1>5, <1>6, <1>7, <3>1
    <3> QED BY <1>5, <3>1, <3>2 DEF OrderInv
  <2>2. CASE r \notin Queued
    BY <1>3, <1>5, <1>7, <2>2 DEF OrderInv
  <2> QED BY <2>1, <2>2
<1>8. \A q \in Received : Before(q, Head(queue))
  BY <1>3 DEF OrderInv
<1> QED BY <1>1, <1>2, <1>7, <1>8 DEF OrderInv

\* A file that is left is that of an acknowledged request, or of a new one.
LEMMA OrderWritten ==
    ASSUME TypeOK, FilesInv, WriterInv, LockInv, BornInv, OrderInv, [Next]_vars,
           NEW s \in Senders, WriteRequest(s)
    PROVE  OrderInv'
<1> DEFINE x == IdOf[s]
           f == [id |-> IdOf[s], text |-> TextOf[s]]
<1>1. UNCHANGED <<ack, writer>> /\ x \in Ids
  BY DEF WriteRequest, Ids
<1>2. /\ Queued' = Queued /\ Received' = Received
      /\ \A r : Acked(r)' <=> Acked(r)
      /\ queue' = queue /\ wpc' = wpc
  BY <1>1 DEF writer, Queued, Received, Acked
<1>3. Requested \union Queued \union Received \subseteq Born
  BY DEF BornInv
<1>4. CASE UNCHANGED <<files, born>>
  <2>1. Open' = Open /\ files' = files
    BY <1>2, <1>4 DEF Open, Requested
  <2>2. \A q, r : Before(q, r)' <=> Before(q, r)
    BY <1>4 DEF Before, Place
  <2> QED BY <1>2, <2>1, <2>2 DEF OrderInv
<1>5. CASE files' = Append(files, f) /\ born' = BornWith(x)
  <2>1. Acked(x) \/ x \notin Born
    BY DEF WriteRequest, At, BornInv
  <2>2. /\ Born' = Born \union {x}
        /\ \A r \in Born : Place(r)' = Place(r)
        /\ x \notin Born => \A q \in Born : Before(q, x)'
    BY <1>1, <1>5, BornGrows
  <2>3. Requested' \subseteq Requested \union {x}
    BY WrittenFile
  <2>4. Open' \subseteq Open \union {x} /\ Open \subseteq Born
    BY <1>2, <1>3, <2>3 DEF Open
  <2>5. x \in Open' => x \notin Born
    BY <1>2, <2>1 DEF Open
  <2>6. \A q, r \in Born : Before(q, r)' <=> Before(q, r)
    BY <2>2 DEF Before
  <2>7. ASSUME NEW q \in Born, NEW r \in Open', r \in Open => Before(q, r)
        PROVE  Before(q, r)'
    BY <2>2, <2>4, <2>5, <2>6, <2>7
  <2>8. f \in Inputs /\ f.id = x
    BY InputAssumption DEF Inputs, Ids, Texts
  <2> HIDE DEF f
  <2>9. /\ Len(files) \in Nat /\ Len(files') = Len(files) + 1
        /\ \A i \in 1..Len(files) : files'[i] = files[i]
        /\ files'[Len(files) + 1] = f
    BY <1>5, <2>8, AppendProperties, LenProperties DEF TypeOK
  <2>10. ASSUME NEW i \in 1..Len(files'), NEW j \in 1..Len(files'),
                i < j, {files'[i].id, files'[j].id} \subseteq Open'
         PROVE  Place(files[i].id)' < Place(files[j].id)'
    <3>1. i \in 1..Len(files) /\ files'[i] = files[i]
      BY <2>9, <2>10
    <3>2. PICK a \in Requested : a = files'[i].id
      BY <3>1 DEF Requested
    <3>3. PICK b : b = files'[j].id
      OBVIOUS
    <3>4. a \in Born /\ a \in Open' /\ b \in Open' /\ a \in Open
      BY <1>2, <1>3, <2>10, <3>2, <3>3 DEF Open
    <3>5. ASSUME j \in 1..Len(files), b \in Open PROVE Before(a, b)
      <4>1. a = files[i].id /\ b = files[j].id
        BY <2>9, <3>1, <3>2, <3>3, <3>5
      <4>2. {files[i].id, files[j].id} \subseteq Open
        BY <3>4, <3>5, <4>1
      <4> QED BY <2>10, <3>1, <3>5, <4>1, <4>2 DEF OrderInv
    <3>6. Before(a, b)'
      <4>1. CASE j \in 1..Len(files)
        <5>1. b \in Requested
          BY <2>9, <3>3, <4>1 DEF Requested
        <5>2. b \in Open /\ b \in Born
          BY <1>2, <1>3, <3>4, <5>1 DEF Open
        <5> QED BY <2>6, <3>4, <3>5, <4>1, <5>2
      <4>2. CASE j = Len(files) + 1
        <5>1. b = x
          BY <2>8, <2>9, <3>3, <4>2
        <5> QED BY <2>2, <2>5, <3>4, <5>1
      <4> QED BY <2>9, <4>1, <4>2
    <3>7. Place(a)' < Place(b)'
      BY <3>6 DEF Before
    <3> QED BY <3>2, <3>3, <3>7
  <2>11. ASSUME NEW i \in 1..Len(queue), NEW j \in 1..Len(queue),
                i < j, {queue[i], queue[j]} \subseteq Open'
         PROVE  Place(queue[i])' < Place(queue[j])'
    <3>1. {queue[i], queue[j]} \subseteq Queued
      BY <2>11 DEF Queued
    <3>2. {queue[i], queue[j]} \subseteq Open
      BY <1>2, <2>11, <3>1 DEF Open
    <3>3. Before(queue[i], queue[j])
      BY <2>11, <3>2 DEF OrderInv
    <3>4. PICK a \in Born, b \in Born : a = queue[i] /\ b = queue[j]
      BY <1>3, <3>1
    <3>5. Before(a, b)'
      BY <2>6, <3>3, <3>4
    <3>6. Place(a)' < Place(b)'
      BY <3>5 DEF Before
    <3>7. a = queue'[i] /\ b = queue'[j]
      BY <1>2, <3>4
    <3> QED BY <3>6, <3>7
  <2>12. ASSUME NEW q \in Queued \intersect Open', NEW r \in Open' \ Queued
         PROVE  Before(q, r)'
    <3>1. q \in Open /\ q \in Born
      BY <1>2, <1>3, <2>12 DEF Open
    <3> QED BY <2>7, <2>12, <3>1 DEF OrderInv
  <2>13. ASSUME NEW q \in Received, NEW r \in Open' PROVE Before(q, r)'
    BY <1>3, <2>7, <2>13 DEF OrderInv
  <2>14. ASSUME wpc \in {"mark", "unlink", "deliver"}
         PROVE  \E h \in Born : /\ h = Head(queue)
                                /\ \A q \in Received : Before(q, h)'
                                /\ \A r \in Open' \ {h} : Before(h, r)'
    <3>1. Head(queue) \in Born
      BY <1>3, <2>14, QueueParts DEF TypeOK, WriterInv
    <3>2. PICK h \in Born : h = Head(queue)
      BY <3>1
    <3>3. \A q \in Received : Before(q, h)'
      BY <1>3, <2>6, <2>14, <3>2 DEF OrderInv
    <3>4. \A r \in Open' \ {h} : Before(h, r)'
      BY <2>7, <2>14, <3>2 DEF OrderInv
    <3> QED BY <3>2, <3>3, <3>4
  <2>15. \A i, j \in 1..Len(files') :
           i < j /\ {files'[i].id, files'[j].id} \subseteq Open'
             => Place(files[i].id)' < Place(files[j].id)'
    BY <2>10
  <2>16. \A i, j \in 1..Len(queue') :
           i < j /\ {queue'[i], queue'[j]} \subseteq Open'
             => Place(queue[i])' < Place(queue[j])'
    BY <1>2, <2>11
  <2>17. \A q \in Queued' \intersect Open', r \in Open' \ Queued' : Place(q)' < Place(r)'
    BY <1>2, <2>12 DEF Before
  <2>18. \A q \in Received', r \in Open' : Place(q)' < Place(r)'
    BY <1>2, <2>13 DEF Before
  <2>19. wpc' \in {"mark", "unlink", "deliver"} =>
           /\ \A q \in Received' : Place(q)' < Place(Head(queue))'
           /\ \A r \in Open' \ {Head(queue')} : Place(Head(queue))' < Place(r)'
    <3> SUFFICES ASSUME wpc' \in {"mark", "unlink", "deliver"}
                 PROVE  /\ \A q \in Received' : Place(q)' < Place(Head(queue))'
                        /\ \A r \in Open' \ {Head(queue')} : Place(Head(queue))' < Place(r)'
      OBVIOUS
    <3>1. PICK h \in Born : /\ h = Head(queue)
                            /\ \A q \in Received : Before(q, h)'
                            /\ \A r \in Open' \ {h} : Before(h, r)'
      BY <1>2, <2>14
    <3>2. /\ \A q \in Received : Place(q)' < Place(h)'
          /\ \A r \in Open' \ {h} : Place(h)' < Place(r)'
      BY <3>1 DEF Before
    <3>3. h = Head(queue')
      BY <1>2, <3>1
    <3> QED BY <1>2, <3>2, <3>3
  <2> QED BY <2>15, <2>16, <2>17, <2>18, <2>19 DEF OrderInv, Before
<1> QED BY <1>4, <1>5 DEF WriteRequest

\* A file that goes has an acknowledgement, or the end erases it.
LEMMA GoneIsAcked ==
    ASSUME InputInv, [Next]_vars, NEW r \in Requested \ Requested'
    PROVE  \/ ack'[r].status # "none"
           \/ rpc = "sweep" /\ UNCHANGED rpc
           \/ ~Live /\ UNCHANGED rpc
<1> USE DEF InputInv
<1>1. r \in Ids
  BY RequestIds
<1>2. CASE \E s \in Senders : SenderStep(s)
  <2>1. PICK s \in Senders : SenderStep(s)
    BY <1>2
  <2>2. CASE UNCHANGED files
    BY <2>2 DEF Requested
  <2>3. CASE WriteRequest(s)
    <3> DEFINE f == [id |-> IdOf[s], text |-> TextOf[s]]
    <3>1. f \in Inputs
      BY InputAssumption DEF Inputs, Ids, Texts
    <3> HIDE DEF f
    <3>2. UNCHANGED files \/ files' = Append(files, f)
      BY <2>3 DEF WriteRequest, f
    <3>3. \A i \in 1..Len(files) : i \in 1..Len(files') /\ files'[i] = files[i]
      <4>1. files \in Seq(Inputs) /\ Len(files) \in Nat
        BY LenProperties DEF TypeOK
      <4>2. CASE files' = Append(files, f)
        <5>1. Len(files') = Len(files) + 1 /\ \A i \in 1..Len(files) : files'[i] = files[i]
          BY <3>1, <4>1, <4>2, AppendProperties
        <5> QED BY <4>1, <5>1
      <4> QED BY <3>2, <4>2
    <3>4. PICK i \in 1..Len(files) : files[i].id = r
      BY DEF Requested
    <3>5. i \in 1..Len(files') /\ files'[i].id = r
      BY <3>3, <3>4
    <3> QED BY <3>5 DEF Requested
  <2> QED BY <2>1, <2>2, <2>3, SenderFrame
<1>3. CASE WriterStep
  <2>1. CASE List \/ WriterEnds \/ Deliver
    BY <2>1 DEF List, WriterEnds, Deliver, box, Requested
  <2>2. CASE Take \/ Mark \/ Unlink \/ DeliverFails \/ Accept
    <3>1. Head(queue) \in Ids
      BY <2>2 DEF Take, Mark, Unlink, DeliverFails, Accept, TypeOK, WriterInv
    <3>2. CASE Acknowledge(Head(queue), "failed", taken) /\ files' = Without(Head(queue))
      <4>1. r = Head(queue)
        BY <3>2, WithoutFile DEF TypeOK
      <4> QED BY <3>1, <3>2, <4>1 DEF Acknowledge, TypeOK
    <3>3. CASE Acked(Head(queue)) /\ files' = Without(Head(queue)) /\ UNCHANGED ack
      <4>1. r = Head(queue)
        BY <3>3, WithoutFile DEF TypeOK
      <4> QED BY <3>3, <4>1 DEF Acked
    <3>4. CASE UNCHANGED files
      BY <3>4 DEF Requested
    <3>5. Failed => \/ Acknowledge(Head(queue), "failed", taken) /\ files' = Without(Head(queue))
                    \/ UNCHANGED files
      BY DEF Failed, box
    <3> QED BY <2>2, <3>2, <3>3, <3>4, <3>5
            DEF Take, Mark, Unlink, DeliverFails, Accept, WriterInv, box
  <2> QED BY <1>3, <2>1, <2>2 DEF WriterStep, Writer
<1>4. CASE EndStep
  <2>1. CASE UNCHANGED box
    BY <2>1 DEF box, Requested
  <2>2. CASE RunnerErases
    BY <2>2 DEF RunnerErases
  <2>3. CASE StopErases
    BY <2>3 DEF StopErases, LockInv
  <2> QED BY <1>4, <2>1, <2>2, <2>3, EndFrame
<1>5. CASE UNCHANGED vars
  BY <1>5 DEF vars, box, Requested
<1> QED BY <1>2, <1>3, <1>4, <1>5, Steps

\* A terminal that has ended does not come back, and its erasing ends with it.
LEMMA EndGoesOn ==
    ASSUME [Next]_vars, rpc = "sweep" \/ ~Live
    PROVE  rpc' = "sweep" \/ ~Live'
<1>1. CASE UNCHANGED ends
  BY <1>1 DEF ends, Live
<1>2. CASE EndStep
  <2>1. CASE UNCHANGED rpc
    BY <2>1 DEF Live
  <2>2. CASE Dead \/ RunnerGone \/ RunnerLockTimeout
    BY <2>2 DEF Dead, RunnerGone, RunnerLockTimeout, RunnerGoes, Live
  <2>3. CASE Cancel \/ SeeExit \/ Join \/ WriteOutcome \/ RunnerPending
    BY <2>3 DEF Cancel, SeeExit, Join, WriteOutcome, RunnerPending, Live
  <2>4. CASE Terminate
    BY <2>2, <2>4 DEF Terminate, Live
  <2> QED BY <1>2, <2>1, <2>2, <2>3, <2>4
          DEF EndStep, Runner, Stopping, ChildExits, RunnerErases, StopKills, StopPending,
              StopErases, StopEnds, Killed
<1> QED BY <1>1, <1>2, Steps, SenderFrame, WriterFrame DEF vars

\* What is remembered of the requests goes on.
LEMMA BornChange ==
    ASSUME TypeOK, [Next]_vars
    PROVE  UNCHANGED born \/ \E s \in Senders : WriteRequest(s) /\ born' = BornWith(IdOf[s])
<1>1. CASE \E s \in Senders : SenderStep(s)
  <2>1. PICK s \in Senders : SenderStep(s)
    BY <1>1
  <2> QED BY <2>1 DEF SenderStep, Calling, Call, LockTimeout, SeeAck, SeeRequest, ReadRequest,
                      SeeLive, WriteRequest, Poll, WaitEnds, SenderDies
<1> QED BY <1>1, Steps, WriterFrame, EndFrame DEF vars, sends

\* The list of the writer is made of files.
LEMMA QueueChange ==
    ASSUME TypeOK, WriterInv, [Next]_vars
    PROVE  Queued' \subseteq Queued \union Requested
<1>1. ASSUME UNCHANGED queue \/ queue' = <<>> \/ (queue # <<>> /\ queue' = Tail(queue))
      PROVE  Queued' \subseteq Queued \union Requested
  <2>1. PICK at \in [1..Len(queue') -> 1..Len(queue)] :
          \A m \in 1..Len(queue') : queue'[m] = queue[at[m]]
    BY <1>1, QueueStays DEF TypeOK
  <2> QED BY <2>1 DEF Queued
<1>2. CASE List
  <2>1. queue' = [i \in 1..Len(files) |-> files[i].id] /\ Len(files) \in Nat
    BY <1>2, LenProperties DEF List, TypeOK
  <2>2. Len(queue') = Len(files) /\ \A i \in 1..Len(files) : queue'[i] = files[i].id
    BY <2>1
  <2> QED BY <2>2 DEF Queued, Requested
<1>3. CASE WriterStep /\ ~List
  <2>1. wpc # "list" => queue # <<>> \/ wpc = "ended"
    BY DEF WriterInv, TypeOK, WriterPcs
  <2> QED BY <1>1, <1>3, <2>1
          DEF WriterStep, Writer, WriterEnds, Take, Mark, Unlink, Deliver, DeliverFails,
              Accept, Failed, Done, WriterOver
<1>4. CASE EndStep
  BY <1>1, <1>4, EndFrame DEF WriterOver
<1> QED BY <1>1, <1>2, <1>3, <1>4, Steps, SenderFrame DEF vars, writer

LEMMA BornInvKept ==
    ASSUME InputInv, BornInv, [Next]_vars
    PROVE  BornInv'
<1> USE DEF InputInv
<1>1. /\ \A i, j \in 1..Len(born') : born'[i] = born'[j] => i = j
      /\ Born \subseteq Born'
      /\ UNCHANGED born \/ \E s \in Senders : WriteRequest(s) /\ Born' = Born \union {IdOf[s]}
  <2>1. CASE UNCHANGED born
    BY <2>1 DEF BornInv, Born
  <2>2. ASSUME NEW s \in Senders, WriteRequest(s), born' = BornWith(IdOf[s])
        PROVE  /\ \A i, j \in 1..Len(born') : born'[i] = born'[j] => i = j
               /\ Born' = Born \union {IdOf[s]}
    <3>1. IdOf[s] \in Ids
      BY DEF Ids
    <3> QED BY <2>2, <3>1, BornGrows
  <2> QED BY <2>1, <2>2, BornChange
<1>2. Requested' \subseteq Born'
  <2>1. CASE \A s \in Senders : ~WriteRequest(s)
    BY <1>1, <2>1, RequestedChange DEF BornInv
  <2>2. ASSUME NEW s \in Senders, WriteRequest(s) PROVE Requested' \subseteq Born'
    <3>1. CASE UNCHANGED <<files, born>>
      BY <1>1, <3>1 DEF Requested, BornInv
    <3>2. CASE born' = BornWith(IdOf[s])
      <4>1. IdOf[s] \in Ids
        BY DEF Ids
      <4>2. Born' = Born \union {IdOf[s]}
        BY <3>2, <4>1, BornGrows
      <4> QED BY <2>2, <4>2, WrittenFile DEF BornInv
    <3> QED BY <2>2, <3>1, <3>2 DEF WriteRequest
  <2> QED BY <2>1, <2>2
<1>3. Queued' \subseteq Born'
  BY <1>1, QueueChange DEF BornInv
<1>4. Received' \subseteq Born'
  <2>1. CASE UNCHANGED delivered
    BY <1>1, <2>1 DEF Received, BornInv
  <2>2. CASE wpc = "deliver" /\ Given
    <3>1. Head(queue) \in Queued
      BY <2>2, QueueParts DEF WriterInv, TypeOK
    <3> QED BY <1>1, <2>2, <3>1, DeliveryGoes DEF BornInv
  <2> QED BY <2>1, <2>2, DeliveredChange
<1>5. \A r \in Born : r \in Ids
  BY DEF Born, TypeOK
<1>6. ASSUME NEW r \in Born' \ Requested'
      PROVE  Acked(r)' \/ rpc' = "sweep" \/ ~Live'
  <2>1. CASE r \in Born \ Requested
    BY <1>5, <2>1, AckGoesOn, EndGoesOn DEF BornInv
  <2>2. CASE r \in Requested
    BY <1>6, <2>2, GoneIsAcked DEF Acked, Live
  <2>3. CASE r \notin Born
    <3>1. PICK s \in Senders : WriteRequest(s) /\ r = IdOf[s] /\ ~UNCHANGED born
      BY <1>1, <1>6, <2>3 DEF Born
    <3>2. files' = Append(files, [id |-> IdOf[s], text |-> TextOf[s]])
      BY <3>1 DEF WriteRequest
    <3>3. [id |-> IdOf[s], text |-> TextOf[s]] \in Inputs
      BY InputAssumption DEF Inputs, Ids, Texts
    <3>4. /\ Len(files) + 1 \in 1..Len(files')
          /\ files'[Len(files) + 1] = [id |-> IdOf[s], text |-> TextOf[s]]
      BY <3>2, <3>3, AppendProperties, LenProperties DEF TypeOK
    <3>5. files'[Len(files) + 1].id = r
      BY <3>1, <3>4
    <3>6. r \in Requested'
      BY <3>4, <3>5 DEF Requested
    <3> QED BY <1>6, <3>6
  <2> QED BY <2>1, <2>2, <2>3
<1>7. ASSUME NEW s \in Senders, call'[s] = "write"
      PROVE  Acked(IdOf[s])' \/ IdOf[s] \notin Born'
  <2>1. IdOf[s] \in Ids
    BY DEF Ids
  <2>2. CASE UNCHANGED call
    <3>1. UNCHANGED born
      BY <2>2, BornChange DEF WriteRequest, Refuse, Goes, At, TypeOK
    <3>2. Acked(IdOf[s]) \/ IdOf[s] \notin Born
      BY <1>7, <2>2 DEF BornInv
    <3> QED BY <2>1, <3>1, <3>2, AckGoesOn DEF Born
  <2>3. ASSUME NEW t \in Senders, SenderStep(t), ~UNCHANGED call
        PROVE  Acked(IdOf[s])' \/ IdOf[s] \notin Born'
    <3>1. CASE WriteRequest(t)
      <4>1. call'[t] # "write" /\ call[t] = "write" /\ \A u \in Senders \ {t} : call'[u] = call[u]
        BY <3>1 DEF WriteRequest, Refuse, Goes, At, TypeOK
      <4>2. call[s] = "write" /\ s # t
        BY <1>7, <4>1
      <4>3. lock = s /\ lock = t
        BY <4>1, <4>2 DEF LockInv, Inside
      <4> QED BY <4>2, <4>3
    <3>2. CASE ~WriteRequest(t)
      <4>1. UNCHANGED born
        BY <2>3, <3>2 DEF SenderStep, Calling, Call, LockTimeout, SeeAck, SeeRequest,
                          ReadRequest, SeeLive, Poll, WaitEnds, SenderDies
      <4>2. CASE call[s] = "write"
        BY <2>1, <4>1, <4>2, AckGoesOn DEF BornInv, Born
      <4>3. CASE call[s] # "write"
        <5>1. t = s /\ SeeLive(s) /\ Live
          BY <1>7, <2>3, <3>2, <4>3
             DEF SenderStep, Calling, Call, LockTimeout, SeeAck, SeeRequest, ReadRequest,
                 SeeLive, Poll, WaitEnds, SenderDies, Answered, Refuse, Goes, TypeOK
        <5>2. call[s] = "live" /\ lock = s /\ IdOf[s] \notin Requested
          BY <5>1 DEF SeeLive, At, LockInv, Inside
        <5>3. rpc # "sweep"
          BY <5>2, InputAssumption DEF LockInv
        <5>4. Acked(IdOf[s]) \/ IdOf[s] \notin Born
          BY <5>1, <5>2, <5>3 DEF BornInv
        <5> QED BY <2>1, <4>1, <5>4, AckGoesOn DEF Born
      <4> QED BY <4>2, <4>3
    <3> QED BY <3>1, <3>2
  <2> QED BY <2>2, <2>3, Steps, WriterFrame, EndFrame DEF vars, sends
<1> QED BY <1>1, <1>2, <1>3, <1>4, <1>6, <1>7 DEF BornInv

LEMMA AckStays ==
    ASSUME TypeOK, FilesInv, WriterInv, [Next]_vars, NEW r \in Ids, Acked(r)
    PROVE  ack'[r].status # "none"
  BY AckGoesOn DEF Acked

LEMMA OrderKept ==
    ASSUME InputInv, BornInv, OrderInv, [Next]_vars
    PROVE  OrderInv'
<1> USE DEF InputInv
<1>1. \A r \in Ids : Acked(r) => Acked(r)'
  BY AckGoesOn
<1>2. CASE \E s \in Senders : WriteRequest(s)
  BY <1>2, OrderWritten
<1>3. ASSUME ~\E s \in Senders : WriteRequest(s)
      PROVE  UNCHANGED born /\ (files' = files \/ \E r \in Ids : files' = Without(r))
  BY <1>3, BornChange, FilesChange
<1>4. UNCHANGED delivered => Received' = Received
  BY DEF Received
<1>5. CASE (\E s \in Senders : SenderStep(s)) /\ ~\E s \in Senders : WriteRequest(s)
  <2>1. UNCHANGED <<queue, wpc, delivered>>
    BY <1>5, SenderFrame DEF writer
  <2> QED BY <1>1, <1>3, <1>4, <1>5, <2>1, OrderStays
<1>6. CASE UNCHANGED vars
  <2>1. UNCHANGED <<files, queue, wpc, delivered, born>>
    BY <1>6 DEF vars, box, writer, sends
  <2> QED BY <1>1, <1>4, <2>1, OrderStays
<1>7. CASE EndStep
  <2>1. UNCHANGED <<delivered, call, born>>
    BY <1>7, EndFrame DEF sends
  <2>2. ~\E s \in Senders : WriteRequest(s)
    BY <2>1 DEF WriteRequest, Refuse, Goes, At, TypeOK
  <2>3. UNCHANGED queue \/ WriterOver
    BY <1>7, EndFrame
  <2>4. wpc' \in InHand => wpc \in InHand
    BY <1>7, EndFrame DEF WriterOver, WriterGoes, InHand
  <2> QED BY <1>1, <1>3, <1>4, <2>1, <2>2, <2>3, <2>4, OrderStays
<1>8. CASE WriterStep
  <2>1. UNCHANGED born /\ (files' = files \/ \E r \in Ids : files' = Without(r))
    <3>1. UNCHANGED call
      BY <1>8, WriterFrame DEF sends
    <3>2. ~\E s \in Senders : WriteRequest(s)
      BY <3>1 DEF WriteRequest, Refuse, Goes, At, TypeOK
    <3> QED BY <1>3, <3>2
  <2>2. wpc \in {"take", "mark", "unlink", "deliver", "accept"} =>
          queue # <<>> /\ Head(queue) \in Ids
    BY DEF WriterInv, TypeOK
  <2>3. CASE List
    BY <2>3, OrderListed
  <2>4. CASE WriterEnds
    BY <1>1, <1>4, <2>1, <2>4, OrderStays DEF WriterEnds, WriterOver, WriterGoes, InHand
  <2>5. CASE Take
    <3>1. UNCHANGED delivered /\ wpc = "take"
      BY <2>5 DEF Take
    <3>2. CASE Failed
      BY <1>4, <2>1, <2>2, <3>1, <3>2, OrderFailed
    <3>3. CASE Acked(Head(queue)) /\ Done
      <4>1. ack'[Head(queue)].status # "none"
        BY <2>5, <2>2, <3>1, <3>3, AckStays
      <4> QED BY <1>1, <1>4, <2>1, <2>2, <3>1, <3>3, <4>1, OrderDone
    <3>4. CASE Head(queue) \in Requested /\ ~Acked(Head(queue)) /\ UNCHANGED <<box, queue>>
      BY <2>1, <3>1, <3>4, OrderTaken
    <3> QED BY <2>5, <3>2, <3>3, <3>4 DEF Take
  <2>6. CASE Mark
    <3>1. UNCHANGED delivered /\ wpc = "mark"
      BY <2>6 DEF Mark
    <3>2. CASE Failed
      BY <1>4, <2>1, <2>2, <3>1, <3>2, OrderFailed
    <3>3. CASE UNCHANGED queue
      BY <1>1, <1>4, <2>1, <3>1, <3>3, OrderStays DEF InHand
    <3> QED BY <2>6, <3>2, <3>3 DEF Mark
  <2>7. CASE Unlink
    BY <1>1, <1>4, <2>1, <2>7, OrderStays DEF Unlink, InHand
  <2>8. CASE Deliver
    <3>1. Received' = Received \union {Head(queue)} /\ wpc = "deliver"
      BY <2>8, DeliveryGoes DEF Deliver
    <3>2. UNCHANGED queue /\ wpc' \notin InHand
      BY <2>8 DEF Deliver, WriterGoes, InHand
    <3> QED BY <1>1, <2>1, <3>1, <3>2, OrderStays
  <2>9. CASE DeliverFails
    <3>1. wpc = "deliver" /\ Failed
      BY <2>9 DEF DeliverFails
    <3>2. Received' = Received \/ Received' = Received \union {Head(queue)}
      BY <1>4, <2>9, <3>1, DeliveryGoes DEF DeliverFails
    <3> QED BY <2>1, <2>2, <3>1, <3>2, OrderFailed
  <2>10. CASE Accept
    <3>1. UNCHANGED delivered /\ wpc = "accept"
      BY <2>10 DEF Accept
    <3>2. CASE Failed
      BY <1>4, <2>1, <2>2, <3>1, <3>2, OrderFailed
    <3>3. CASE Acknowledge(Head(queue), "accepted", taken) /\ Done
      <4>1. ack'[Head(queue)].status # "none"
        BY <2>2, <3>1, <3>3 DEF Acknowledge, TypeOK
      <4> QED BY <1>1, <1>4, <2>1, <2>2, <3>1, <3>3, <4>1, OrderDone
    <3> QED BY <2>10, <3>2, <3>3 DEF Accept
  <2> QED BY <1>8, <2>3, <2>4, <2>5, <2>6, <2>7, <2>8, <2>9, <2>10 DEF WriterStep, Writer
<1> QED BY <1>2, <1>5, <1>6, <1>7, <1>8, Steps

LEMMA InOrderKept ==
    ASSUME InputInv, BornInv, OrderInv, InOrder, [Next]_vars
    PROVE  InOrder'
<1> USE DEF InputInv
<1>1. \A i \in 1..Len(delivered) : delivered[i].id \in Received /\ delivered[i].id \in Born
  BY DEF Received, BornInv
<1>2. \A r \in Born : Place(r)' = Place(r)
  <2>1. CASE UNCHANGED born
    BY <2>1 DEF Place
  <2>2. ASSUME NEW s \in Senders, born' = BornWith(IdOf[s])
        PROVE  \A r \in Born : Place(r)' = Place(r)
    <3>1. IdOf[s] \in Ids
      BY DEF Ids
    <3> QED BY <2>2, <3>1, BornGrows
  <2> QED BY <2>1, <2>2, BornChange
<1>3. CASE UNCHANGED delivered
  <2> SUFFICES ASSUME NEW i \in 1..Len(delivered), NEW j \in 1..Len(delivered), i < j
               PROVE  Place(delivered[i].id)' < Place(delivered[j].id)'
    BY <1>3 DEF InOrder
  <2>1. PICK a \in Born, b \in Born : a = delivered[i].id /\ b = delivered[j].id
    BY <1>1
  <2>2. Place(a) < Place(b)
    BY <2>1 DEF InOrder
  <2>3. Place(a)' < Place(b)'
    BY <1>2, <2>2
  <2> QED BY <1>3, <2>1, <2>3
<1>4. CASE wpc = "deliver" /\ Given
  <2>1. /\ Len(delivered') = Len(delivered) + 1 /\ Len(delivered) \in Nat
        /\ \A i \in 1..Len(delivered) : delivered'[i] = delivered[i]
        /\ delivered'[Len(delivered) + 1].id = Head(queue)
    BY <1>4, DeliveryGoes, LenProperties DEF TypeOK
  <2>2. PICK h \in Born : h = Head(queue)
    BY <1>4, QueueParts DEF BornInv, WriterInv, TypeOK
  <2> SUFFICES ASSUME NEW i \in 1..Len(delivered'), NEW j \in 1..Len(delivered'), i < j
               PROVE  Place(delivered[i].id)' < Place(delivered[j].id)'
    BY DEF InOrder
  <2>3. i \in 1..Len(delivered) /\ delivered'[i] = delivered[i]
    BY <2>1
  <2>4. PICK a \in Received : a = delivered'[i].id /\ a \in Born
    BY <1>1, <2>3
  <2>5. PICK b \in Born : b = delivered'[j].id /\ Place(a) < Place(b)
    <3>1. CASE j \in 1..Len(delivered)
      BY <1>1, <2>1, <2>3, <2>4, <3>1 DEF InOrder
    <3>2. CASE j = Len(delivered) + 1
      BY <1>4, <2>1, <2>2, <2>4, <3>2 DEF OrderInv, Before
    <3> QED BY <2>1, <3>1, <3>2
  <2>6. Place(a)' < Place(b)'
    BY <1>2, <2>4, <2>5
  <2> QED BY <2>4, <2>5, <2>6
<1> QED BY <1>3, <1>4, DeliveredChange

\* The order of the requests is kept from the directory to the child.
THEOREM RequestsInOrder == Spec => []RequestInv
<1>1. Init => RequestInv
  <2> SUFFICES ASSUME Init PROVE RequestInv
    OBVIOUS
  <2>1. InputInv
    BY InputAtFirst
  <2>2. Len(<<>>) = 0 /\ 1..0 = {}
    BY EmptySeq
  <2>3. Requested = {} /\ Received = {} /\ Queued = {} /\ Born = {}
    BY <2>2 DEF Init, Requested, Received, Queued, Born
  <2>4. BornInv
    BY <2>2, <2>3 DEF Init, BornInv
  <2>5. OrderInv /\ InOrder
    BY <2>2, <2>3 DEF Init, OrderInv, Open, InOrder
  <2> QED BY <2>1, <2>4, <2>5 DEF RequestInv
<1>2. RequestInv /\ [Next]_vars => RequestInv'
  BY InputStep, BornInvKept, OrderKept, InOrderKept DEF RequestInv
<1> QED BY <1>1, <1>2, PTL DEF Spec

\* The child gets the texts in the order in which their requests were first left
\* (send and serve of command_input.py).
THEOREM DeliveredInOrder == Spec => []InOrder
<1>1. RequestInv => InOrder
  BY DEF RequestInv
<1> QED BY <1>1, RequestsInOrder, PTL
=============================================================================
