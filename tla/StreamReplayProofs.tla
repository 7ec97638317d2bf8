-------------------------- MODULE StreamReplayProofs --------------------------
(***************************************************************************)
(* Proofs about StreamReplay: the frames a page gets, what it misses, and  *)
(* when the journal is closed, for any number of pages and frames.         *)
(***************************************************************************)
EXTENDS StreamReplay, FiniteSetTheorems, SequenceTheorems, TLAPS

USE StreamAssumption

-----------------------------------------------------------------------------
(* The stream.                                                             *)

DequeRow == [frame : Nat, end : Nat \cup {NoOffset}]
Journal == [frames : Seq(Nat), open : BOOLEAN]

\* A frame is written to the journal as long as all before it were, with its own number
\* as the place it ends at.
LEMMA EmitJournal ==
    ASSUME StreamInv, emit, UNCHANGED round
    PROVE  /\ seq' = seq + 1
           /\ journal' \in Journal /\ complete' \in BOOLEAN /\ failed' \in BOOLEAN
           /\ Len(journal'.frames) <= seq' /\ (complete' => Len(journal'.frames) = seq')
           /\ \A i \in DOMAIN journal'.frames : journal'.frames[i] = i
           /\ complete' => round'.offset = round'.seq
           /\ round'.seq <= seq'
<1>1. PICK ok \in Works("append") :
         LET kept == complete /\ journal.open /\ ok
         IN  /\ seq' = seq + 1
             /\ journal' = IF kept THEN [journal EXCEPT !.frames = Append(@, seq + 1)]
                           ELSE [journal EXCEPT !.open = FALSE]
             /\ complete' = kept
             /\ failed' = (failed \/ (complete /\ ~ok))
  BY DEF emit
<1>2. /\ ok \in BOOLEAN /\ complete \in BOOLEAN /\ failed \in BOOLEAN
      /\ journal \in Journal /\ seq \in Nat /\ round' = round
      /\ round \in [seq : Nat, offset : Nat, set : BOOLEAN]
  BY DEF Works, StreamInv, TypeOK, Journal
<1>3. /\ Len(journal.frames) <= seq /\ (complete => Len(journal.frames) = seq)
      /\ \A i \in DOMAIN journal.frames : journal.frames[i] = i
      /\ complete => round.offset = round.seq
      /\ round.seq <= seq
  BY DEF StreamInv, JournalInv
<1>4. seq' = seq + 1 /\ complete' \in BOOLEAN /\ failed' \in BOOLEAN
      /\ (complete' => round'.offset = round'.seq) /\ round'.seq <= seq'
  BY <1>1, <1>2, <1>3 DEF Journal
<1>5. CASE complete /\ journal.open /\ ok
  <2>1. /\ journal' = [journal EXCEPT !.frames = Append(journal.frames, seq + 1)]
        /\ journal'.frames = Append(journal.frames, seq + 1)
    BY <1>1, <1>2, <1>5 DEF Journal
  <2>2. /\ journal.frames \in Seq(Nat) /\ Len(journal.frames) = seq
        /\ Append(journal.frames, seq + 1) \in Seq(Nat)
        /\ Len(Append(journal.frames, seq + 1)) = seq + 1
        /\ \A i \in 1..(seq + 1) : Append(journal.frames, seq + 1)[i] = i
    BY <1>2, <1>3, <1>5 DEF Journal
  <2>3. journal' \in Journal
    BY <1>2, <2>1, <2>2 DEF Journal
  <2>4. DOMAIN journal'.frames = 1..(seq + 1)
    BY <2>1, <2>2
  <2> QED
    BY <1>2, <1>4, <2>1, <2>2, <2>3, <2>4
<1>6. CASE ~(complete /\ journal.open /\ ok)
  <2>1. journal' = [journal EXCEPT !.open = FALSE] /\ ~complete'
    BY <1>1, <1>6
  <2>2. journal' \in Journal /\ journal'.frames = journal.frames
    BY <1>2, <2>1 DEF Journal
  <2>3. Len(journal.frames) \in Nat
    BY <1>2 DEF Journal
  <2> QED
    BY <1>2, <1>3, <1>4, <2>1, <2>2, <2>3
<1> QED
  BY <1>5, <1>6

\* The deque drops its oldest frame when it is full.
LEMMA EmitDeque ==
    ASSUME StreamInv, emit
    PROVE  /\ deque' \in Seq(DequeRow)
           /\ Len(deque') <= seq' /\ Len(deque') <= Buffer
           /\ Len(deque') = seq' \/ Len(deque') = Buffer
           /\ \A i \in DOMAIN deque' : deque'[i].frame = base' + i
           /\ complete' => \A i \in DOMAIN deque' : deque'[i].end = base' + i
<1>1. PICK ok \in Works("append") :
         LET kept == complete /\ journal.open /\ ok
             offset == Len(journal.frames) + 1
         IN  /\ seq' = seq + 1
             /\ complete' = kept
             /\ deque' = Newest(Append(deque, [frame |-> seq + 1,
                                               end |-> IF kept THEN offset ELSE NoOffset]))
  BY DEF emit
<1> DEFINE row == [frame |-> seq + 1,
                   end |-> IF complete' THEN Len(journal.frames) + 1 ELSE NoOffset]
           long == Append(deque, row)
<1>2. /\ deque \in Seq(DequeRow) /\ seq \in Nat /\ Buffer \in Nat /\ Buffer > 1
      /\ journal.frames \in Seq(Nat)
      /\ complete' \in BOOLEAN /\ (complete' => complete)
  BY <1>1 DEF Works, StreamInv, TypeOK, DequeRow
<1>3. /\ Len(deque) <= seq /\ Len(deque) <= Buffer
      /\ Len(deque) = seq \/ Len(deque) = Buffer
      /\ \A i \in 1..Len(deque) : deque[i].frame = (seq - Len(deque)) + i
      /\ complete => \A i \in 1..Len(deque) : deque[i].end = (seq - Len(deque)) + i
      /\ complete => Len(journal.frames) = seq
  BY <1>2 DEF StreamInv, DequeInv, JournalInv, base
<1>4. deque' = Newest(long) /\ seq' = seq + 1
  BY <1>1
<1>5. row \in DequeRow /\ row.frame = seq + 1 /\ (complete' => row.end = seq + 1)
  <2>1. CASE complete'
    BY <1>2, <1>3, <2>1 DEF DequeRow
  <2>2. CASE ~complete'
    BY <1>2, <2>2 DEF DequeRow, NoOffset
  <2> QED
    BY <2>1, <2>2
<1> HIDE DEF row
<1>6. /\ long \in Seq(DequeRow) /\ Len(long) = Len(deque) + 1
      /\ \A i \in 1..Len(deque) : long[i] = deque[i]
      /\ long[Len(deque) + 1] = row
  BY <1>2, <1>5
<1> HIDE DEF long
<1>7. \A i \in 1..Len(long) : long[i].frame = (seq - Len(deque)) + i
  <2> TAKE i \in 1..Len(long)
  <2>1. CASE i = Len(deque) + 1
    BY <1>2, <1>5, <1>6, <2>1
  <2>2. CASE i \in 1..Len(deque)
    BY <1>2, <1>3, <1>6, <2>2
  <2> QED
    BY <1>2, <1>6, <2>1, <2>2
<1>8. complete' => \A i \in 1..Len(long) : long[i].end = (seq - Len(deque)) + i
  <2> SUFFICES ASSUME complete', NEW i \in 1..Len(long)
               PROVE  long[i].end = (seq - Len(deque)) + i
    OBVIOUS
  <2>1. CASE i = Len(deque) + 1
    BY <1>2, <1>5, <1>6, <2>1
  <2>2. CASE i \in 1..Len(deque)
    BY <1>2, <1>3, <1>6, <2>2
  <2> QED
    BY <1>2, <1>6, <2>1, <2>2
<1>9. CASE Len(long) > Buffer
  <2>1. deque' = Tail(long) /\ long # <<>> /\ Len(deque) = Buffer
    BY <1>2, <1>3, <1>4, <1>6, <1>9 DEF Newest
  <2>2. /\ deque' \in Seq(DequeRow) /\ Len(deque') = Len(deque)
        /\ \A i \in 1..Len(deque') : deque'[i] = long[i + 1] /\ i + 1 \in 1..Len(long)
    BY <1>2, <1>6, <2>1, HeadTailProperties
  <2>3. base' = (seq - Len(deque)) + 1 /\ Len(deque) \in Nat
    BY <1>2, <1>4, <2>2 DEF base
  <2>4. Len(deque') <= seq' /\ Len(deque') = Buffer
    BY <1>2, <1>3, <1>4, <2>1, <2>2
  <2>5. \A i \in 1..Len(deque') : deque'[i].frame = base' + i
    <3> TAKE i \in 1..Len(deque')
    <3>1. deque'[i].frame = (seq - Len(deque)) + (i + 1)
      BY <1>7, <2>2
    <3> QED
      BY <1>2, <2>2, <2>3, <3>1
  <2>6. complete' => \A i \in 1..Len(deque') : deque'[i].end = base' + i
    <3> SUFFICES ASSUME complete', NEW i \in 1..Len(deque')
                 PROVE  deque'[i].end = base' + i
      OBVIOUS
    <3>1. deque'[i].end = (seq - Len(deque)) + (i + 1)
      BY <1>8, <2>2
    <3> QED
      BY <1>2, <2>2, <2>3, <3>1
  <2> QED
    BY <2>2, <2>4, <2>5, <2>6
<1>10. CASE ~(Len(long) > Buffer)
  <2>1. deque' = long /\ Len(deque') = Len(deque) + 1 /\ Len(deque) = seq
    BY <1>2, <1>3, <1>4, <1>6, <1>10 DEF Newest
  <2>2. base' = 0 /\ seq - Len(deque) = 0 /\ DOMAIN deque' = 1..Len(long)
    BY <1>2, <1>4, <1>6, <2>1 DEF base
  <2>3. \A i \in 1..Len(long) : long[i].frame = base' + i
    BY <1>7, <2>2
  <2>4. complete' => \A i \in 1..Len(long) : long[i].end = base' + i
    BY <1>8, <2>2
  <2> QED
    BY <1>2, <1>4, <1>6, <1>10, <2>1, <2>2, <2>3, <2>4
<1> QED
  BY <1>9, <1>10

\* What a frame does to the flags of the journal.
LEMMA EmitFlags ==
    ASSUME StreamInv, emit
    PROVE  /\ complete' => complete /\ journal.open /\ journal'.open
           /\ journal'.open => journal.open
           /\ failed => failed'
           /\ ~complete' => failed' \/ ~complete \/ ~journal.open
<1>1. PICK ok \in Works("append") :
         LET kept == complete /\ journal.open /\ ok
         IN  /\ journal' = IF kept THEN [journal EXCEPT !.frames = Append(@, seq + 1)]
                           ELSE [journal EXCEPT !.open = FALSE]
             /\ complete' = kept
             /\ failed' = (failed \/ (complete /\ ~ok))
  BY DEF emit
<1> QED
  BY <1>1 DEF StreamInv, TypeOK, Works

-----------------------------------------------------------------------------
(* Reading.                                                                *)

\* A page that is behind the newest frame has the next one in the deque, or the deque
\* has dropped it.
LEMMA DequePlace ==
    ASSUME StreamInv, NEW c \in Pages, ~Exhausted(c)
    PROVE  /\ page[c] \in PageType /\ base \in Nat /\ base < seq
           /\ ~(page[c].seen < base) => page[c].seen - base + 1 \in DOMAIN deque
           /\ 1 \in DOMAIN deque
  BY DEF StreamInv, TypeOK, DequeInv, PageInv, PageType, base, Exhausted

\* The pages that read are counted.
LEMMA ReaderIsCounted ==
    ASSUME StreamInv
    PROVE  /\ IsFiniteSet(Readers) /\ readers = Cardinality(Readers)
           /\ \A c \in Pages : Reading(c) => readers # 0
<1>1. Readers \subseteq Pages /\ readers = Cardinality(Readers)
  BY DEF Readers, StreamInv, JournalIsReleased
<1>2. IsFiniteSet(Readers)
  BY <1>1, FS_Subset
<1>3. ASSUME NEW c \in Pages, Reading(c)
      PROVE  readers # 0
  <2>1. c \in Readers
    BY <1>3 DEF Readers
  <2> QED
    BY <1>1, <1>2, <2>1, FS_EmptySet
<1> QED
  BY <1>1, <1>2, <1>3

\* Nobody reads before the request that starts the generation is through.
LEMMA NobodyReads ==
    ASSUME StreamInv, phase \notin {"open", "over"}
    PROVE  readers = 0 /\ \A c \in Pages : ~Reading(c)
<1>1. \A c \in Pages : ~Reading(c)
  BY DEF StreamInv, StartInv, Reading, NewPage
<1>2. Readers = {}
  BY <1>1 DEF Readers
<1> QED
  BY <1>1, <1>2, ReaderIsCounted, FS_EmptySet

\* The journal of a reader is readable, but for a fault.
LEMMA JournalFailsForFault ==
    ASSUME StreamInv, NEW c \in Pages, Reading(c), ~Exhausted(c), NEW ok \in BOOLEAN,
           JournalFails(page[c], ok)
    PROVE  ~ok
<1> SUFFICES ASSUME ok PROVE FALSE
  OBVIOUS
<1>1. page[c].seen < base /\ complete /\ page[c].offset = page[c].seen
  BY DEF JournalFails, StreamInv, PageInv
<1>2. base <= seq /\ Len(journal.frames) = seq /\ page[c] \in PageType /\ base \in Nat
  BY <1>1, DequePlace DEF StreamInv, TypeOK, DequeInv, JournalInv, base
<1>3. page[c].offset \in 0..(Len(journal.frames) - 1)
  BY <1>1, <1>2 DEF PageType, StreamInv, TypeOK
<1>4. ~journal.open
  BY <1>3 DEF JournalFails, Readable
<1>6. readers # 0
  BY ReaderIsCounted
<1>7. phase = "over" /\ seq <= 2
  BY <1>1, <1>4, <1>6 DEF StreamInv, FaultInv, StartInv
<1>8. base = 0
  BY <1>7 DEF StreamInv, TypeOK, DequeInv, base
<1> QED
  BY <1>1, <1>2, <1>8 DEF PageType

\* A page that reads gets a later frame: the next one, or it is warned of a gap.
LEMMA ReadPage ==
    ASSUME StreamInv, NEW c \in Pages, Reading(c), ~Exhausted(c), read_replay(c)
    PROVE  /\ page' = [page EXCEPT ![c] = page'[c]] /\ page'[c] \in PageType
           /\ page'[c].pc = page[c].pc /\ page'[c].from = page[c].from
           /\ page[c].seen < page'[c].seen /\ page'[c].seen <= seq
           /\ page'[c].got = Append(page[c].got, page'[c].seen)
           /\ ~page'[c].gap => ~page[c].gap /\ page'[c].seen = page[c].seen + 1
           /\ complete' => complete /\ page'[c].offset = page'[c].seen
           /\ page'[c].gap => page[c].gap \/ failed'
<1>1. PICK ok \in Works("read") :
        /\ page' = [page EXCEPT ![c] =
                       IF FromJournal(@, ok) THEN AfterJournal(@) ELSE AfterDeque(@)]
        /\ complete' = (complete /\ ~JournalFails(page[c], ok))
        /\ failed' = (failed \/ (JournalFails(page[c], ok) /\ ~ok))
  BY DEF read_replay
<1> DEFINE p == page[c]
<1>2. /\ p \in PageType /\ p.seen \in Nat /\ p.got \in Seq(Nat) /\ p.seen < seq
      /\ page \in [Pages -> PageType] /\ seq \in Nat /\ base \in Nat /\ base < seq
      /\ ok \in BOOLEAN /\ (complete => p.offset = p.seen)
  <2>1. p \in PageType /\ page \in [Pages -> PageType] /\ seq \in Nat
    BY DEF StreamInv, TypeOK
  <2>2. p.seen \in Nat /\ p.got \in Seq(Nat) /\ p.seen < seq
    BY <2>1 DEF PageType, Exhausted
  <2>3. base \in Nat /\ base < seq
    BY DequePlace
  <2>4. ok \in BOOLEAN /\ (complete => p.offset = p.seen)
    BY DEF Works, StreamInv, PageInv
  <2> QED
    BY <2>1, <2>2, <2>3, <2>4
<1>3. ~complete => failed
  BY ReaderIsCounted DEF StreamInv, FaultInv
<1>4. CASE FromJournal(p, ok)
  <2>1. p.seen < base /\ complete /\ p.offset = p.seen /\ p.seen + 1 <= seq
    BY <1>2, <1>4 DEF FromJournal
  <2>2. p.offset + 1 \in DOMAIN journal.frames
    BY <1>4 DEF FromJournal, Readable, StreamInv, TypeOK
  <2>3. journal.frames[p.offset + 1] = p.seen + 1
    BY <1>2, <2>1, <2>2 DEF StreamInv, JournalInv
  <2>4. page'[c] = [p EXCEPT !.seen = p.seen + 1, !.offset = p.seen + 1,
                             !.got = Append(p.got, p.seen + 1)]
    BY <1>1, <1>2, <1>4, <2>1, <2>3 DEF AfterJournal
  <2>5. Append(p.got, p.seen + 1) \in Seq(Nat)
    BY <1>2
  <2>6. page'[c] \in PageType
    <3>1. p.seen + 1 \in Nat
      BY <1>2
    <3> HIDE DEF p
    <3> QED
      BY <1>2, <2>4, <2>5, <3>1 DEF PageType
  <2>7. /\ page'[c].pc = p.pc /\ page'[c].from = p.from /\ page'[c].seen = p.seen + 1
        /\ page'[c].got = Append(p.got, p.seen + 1) /\ page'[c].gap = p.gap
        /\ page'[c].offset = p.seen + 1
    BY <1>2, <2>4 DEF PageType
  <2>8. page' = [page EXCEPT ![c] = page'[c]]
    BY <1>1, <1>2
  <2> QED
    BY <1>1, <1>2, <2>1, <2>6, <2>7, <2>8
<1>5. CASE ~FromJournal(p, ok)
  <2> DEFINE index == 1 + IF p.seen < base THEN 0 ELSE p.seen - base
  <2>1. /\ index \in DOMAIN deque /\ index \in Nat /\ p.seen < base + index
        /\ base + index <= seq /\ base + index \in Nat
        /\ ~(p.seen < base) => base + index = p.seen + 1
    <3>1. /\ Len(deque) \in Nat /\ DOMAIN deque = 1..Len(deque)
          /\ base = seq - Len(deque) /\ 1 \in DOMAIN deque
      BY DequePlace DEF StreamInv, TypeOK, base
    <3>2. CASE p.seen < base
      BY <1>2, <3>1, <3>2
    <3>3. CASE ~(p.seen < base)
      BY <1>2, <3>1, <3>3
    <3> QED
      BY <3>2, <3>3
  <2>2. /\ deque[index].frame = base + index /\ (complete => deque[index].end = base + index)
        /\ deque[index].end \in Nat \cup {NoOffset}
    <3> HIDE DEF index
    <3>1. deque[index] \in DequeRow
      <4>1. deque \in Seq(DequeRow)
        BY DEF StreamInv, TypeOK, DequeRow
      <4> QED
        BY <2>1, <4>1
    <3>2. deque[index].frame = base + index
      BY <2>1 DEF StreamInv, DequeInv
    <3>3. complete => deque[index].end = base + index
      BY <2>1 DEF StreamInv, JournalInv
    <3> QED
      BY <3>1, <3>2, <3>3 DEF DequeRow
  <2>3. page'[c] = [p EXCEPT !.seen = base + index, !.offset = deque[index].end,
                             !.gap = p.gap \/ p.seen < base,
                             !.got = Append(p.got, base + index)]
    BY <1>1, <1>2, <1>5, <2>2 DEF AfterDeque
  <2> HIDE DEF index
  <2>4. Append(p.got, base + index) \in Seq(Nat) /\ (p.gap \/ p.seen < base) \in BOOLEAN
    BY <1>2, <2>1 DEF PageType
  <2>5. page'[c] \in PageType
    BY <1>2, <2>1, <2>2, <2>3, <2>4 DEF PageType
  <2>6. /\ page'[c].pc = p.pc /\ page'[c].from = p.from /\ page'[c].seen = base + index
        /\ page'[c].got = Append(p.got, base + index)
        /\ page'[c].gap = (p.gap \/ p.seen < base)
        /\ page'[c].offset = deque[index].end
    BY <1>2, <2>3 DEF PageType
  <2>7. page' = [page EXCEPT ![c] = page'[c]]
    BY <1>1, <1>2
  <2>8. p.seen < base => failed'
    <3>1. CASE complete /\ p.seen < base
      <4>1. JournalFails(p, ok)
        BY <1>5, <3>1 DEF FromJournal, JournalFails
      <4> QED
        BY <1>1, <1>2, <4>1, JournalFailsForFault
    <3>2. CASE ~complete
      BY <1>1, <1>3, <3>2
    <3> QED
      BY <3>1, <3>2
  <2> QED
    BY <1>1, <1>2, <2>1, <2>2, <2>5, <2>6, <2>7, <2>8
<1> QED
  BY <1>4, <1>5

\* What reading does to the flags of the journal.
LEMMA ReadFlags ==
    ASSUME StreamInv, NEW c \in Pages, Reading(c), ~Exhausted(c), read_replay(c)
    PROVE  /\ journal' \in Journal /\ complete' \in BOOLEAN /\ failed' \in BOOLEAN
           /\ journal'.frames = journal.frames
           /\ complete' => complete /\ journal'.open = journal.open
           /\ journal'.open => journal.open
           /\ failed => failed'
           /\ ~complete' => failed' \/ ~complete
<1>1. PICK ok \in Works("read") :
        /\ complete' = (complete /\ ~JournalFails(page[c], ok))
        /\ journal' = [journal EXCEPT !.open = @ /\ ~JournalFails(page[c], ok)]
        /\ failed' = (failed \/ (JournalFails(page[c], ok) /\ ~ok))
  BY DEF read_replay
<1>2. ok \in BOOLEAN /\ JournalFails(page[c], ok) \in BOOLEAN
  BY DEF Works, JournalFails
<1>3. JournalFails(page[c], ok) => ~ok
  BY <1>2, JournalFailsForFault
<1>4. journal \in Journal /\ complete \in BOOLEAN /\ failed \in BOOLEAN
  BY DEF StreamInv, TypeOK, Journal
<1>5. journal' \in Journal /\ journal'.frames = journal.frames
      /\ journal'.open = (journal.open /\ ~JournalFails(page[c], ok))
  BY <1>1, <1>2, <1>4 DEF Journal
<1>6. CASE JournalFails(page[c], ok)
  <2>1. complete' = FALSE /\ failed' = TRUE /\ journal'.open = FALSE
    BY <1>1, <1>3, <1>5, <1>6
  <2> QED
    BY <1>5, <2>1
<1>7. CASE ~JournalFails(page[c], ok)
  <2>1. journal'.open = journal.open
    BY <1>4, <1>5, <1>7 DEF Journal
  <2>2. complete' = complete /\ failed' = failed
    BY <1>1, <1>4, <1>7
  <2> QED
    BY <1>4, <1>5, <2>1, <2>2
<1> QED
  BY <1>6, <1>7

-----------------------------------------------------------------------------
(* What the steps have in common.                                          *)

\* A step that adds no frame keeps what is known of journal and deque.
LEMMA StreamKept ==
    ASSUME StreamInv, UNCHANGED <<deque, seq, round>>,
           journal'.frames = journal.frames, complete' => complete
    PROVE  JournalInv' /\ DequeInv'
  BY DEF StreamInv, JournalInv, DequeInv, base

\* A page keeps its frames, or begins anew.
LEMMA PagesKept ==
    ASSUME StreamInv, page' \in [Pages -> PageType], seq' \in Nat, seq <= seq',
           complete' => complete, failed => failed',
           \A c \in Pages :
              \/ /\ page'[c].from = page[c].from /\ page'[c].seen = page[c].seen
                 /\ page'[c].got = page[c].got /\ page'[c].gap = page[c].gap
                 /\ page'[c].offset = page[c].offset /\ (Reading(c)' => Reading(c))
              \/ /\ page'[c].got = <<>> /\ ~page'[c].gap
                 /\ page'[c].from = page'[c].seen /\ page'[c].seen <= seq'
                 /\ complete' => page'[c].offset = page'[c].seen
    PROVE  PageInv' /\ InOrder' /\ GapsAreFaults'
<1> SUFFICES ASSUME NEW c \in Pages
             PROVE  /\ page'[c].from <= page'[c].seen /\ page'[c].seen <= seq'
                    /\ Reading(c)' /\ complete' => page'[c].offset = page'[c].seen
                    /\ \A i \in DOMAIN page'[c].got :
                          page'[c].from < page'[c].got[i] /\ page'[c].got[i] <= page'[c].seen
                    /\ \A i, j \in DOMAIN page'[c].got :
                          i < j => page'[c].got[i] < page'[c].got[j]
                    /\ ~page'[c].gap => Len(page'[c].got) = page'[c].seen - page'[c].from
                    /\ page'[c].gap => failed'
  BY DEF PageInv, InOrder, GapsAreFaults
<1>1. /\ page[c].from <= page[c].seen /\ page[c].seen <= seq
      /\ Reading(c) /\ complete => page[c].offset = page[c].seen
      /\ \A i \in DOMAIN page[c].got :
            page[c].from < page[c].got[i] /\ page[c].got[i] <= page[c].seen
      /\ \A i, j \in DOMAIN page[c].got : i < j => page[c].got[i] < page[c].got[j]
      /\ ~page[c].gap => Len(page[c].got) = page[c].seen - page[c].from
      /\ page[c].gap => failed
      /\ page[c].seen \in Nat /\ seq \in Nat /\ page'[c].seen \in Nat
  BY DEF StreamInv, PageInv, InOrder, GapsAreFaults, TypeOK, PageType
<1>2. CASE /\ page'[c].from = page[c].from /\ page'[c].seen = page[c].seen
           /\ page'[c].got = page[c].got /\ page'[c].gap = page[c].gap
           /\ page'[c].offset = page[c].offset /\ (Reading(c)' => Reading(c))
  BY <1>1, <1>2
<1>3. CASE /\ page'[c].got = <<>> /\ ~page'[c].gap
           /\ page'[c].from = page'[c].seen /\ page'[c].seen <= seq'
           /\ complete' => page'[c].offset = page'[c].seen
  <2>1. DOMAIN page'[c].got = {} /\ Len(page'[c].got) = 0
    BY <1>3
  <2> QED
    BY <1>1, <1>3, <2>1
<1> QED
  BY <1>2, <1>3

\* Pages that neither come nor go: the count stays.
LEMMA CountKept ==
    ASSUME StreamInv, UNCHANGED readers, \A c \in Pages : Reading(c)' <=> Reading(c)
    PROVE  readers' = Cardinality(Readers')
<1>1. Readers' = Readers
  BY DEF Readers
<1> QED
  BY <1>1, ReaderIsCounted

\* A page that comes.
LEMMA CountMore ==
    ASSUME StreamInv, NEW c \in Pages, ~Reading(c), Reading(c)', acquire_replay,
           \A d \in Pages \ {c} : Reading(d)' <=> Reading(d)
    PROVE  readers' = Cardinality(Readers') /\ readers' \in Nat /\ readers' # 0
<1>1. Readers' = Readers \cup {c} /\ c \notin Readers
  BY DEF Readers
<1>2. Cardinality(Readers') = Cardinality(Readers) + 1
  BY <1>1, ReaderIsCounted, FS_AddElement
<1> QED
  BY <1>2, ReaderIsCounted DEF acquire_replay, StreamInv, TypeOK

\* A page that goes.
LEMMA CountLess ==
    ASSUME StreamInv, NEW c \in Pages, Reading(c), ~Reading(c)', readers' = readers - 1,
           \A d \in Pages \ {c} : Reading(d)' <=> Reading(d)
    PROVE  readers' = Cardinality(Readers') /\ readers' \in Nat
<1>1. Readers' = Readers \ {c} /\ c \in Readers
  BY DEF Readers
<1>2. Cardinality(Readers') = Cardinality(Readers) - 1
  BY <1>1, ReaderIsCounted, FS_RemoveElement
<1>3. readers \in Nat /\ readers # 0
  BY ReaderIsCounted DEF StreamInv, TypeOK
<1> QED
  BY <1>2, <1>3, ReaderIsCounted

\* Pages that are woken go on reading.
LEMMA WokenPages ==
    ASSUME StreamInv, page' = Woken
    PROVE  /\ page' \in [Pages -> PageType]
           /\ \A c \in Pages : Reading(c)' <=> Reading(c)
           /\ \A c \in Pages :
                 /\ page'[c].from = page[c].from /\ page'[c].seen = page[c].seen
                 /\ page'[c].got = page[c].got /\ page'[c].gap = page[c].gap
                 /\ page'[c].offset = page[c].offset
<1>1. page \in [Pages -> PageType]
  BY DEF StreamInv, TypeOK
<1>2. ASSUME NEW c \in Pages
      PROVE  /\ page'[c] \in PageType /\ (Reading(c)' <=> Reading(c))
             /\ page'[c].from = page[c].from /\ page'[c].seen = page[c].seen
             /\ page'[c].got = page[c].got /\ page'[c].gap = page[c].gap
             /\ page'[c].offset = page[c].offset
  <2>1. page[c] \in PageType
    BY <1>1
  <2>2. page'[c] = IF Waiting(c) THEN [page[c] EXCEPT !.pc = "live"] ELSE page[c]
    BY DEF Woken
  <2>3. CASE Waiting(c)
    BY <2>1, <2>2, <2>3 DEF Waiting, Reading, PageType
  <2>4. CASE ~Waiting(c)
    BY <2>1, <2>2, <2>4 DEF Reading
  <2> QED
    BY <2>3, <2>4
<1>3. page' = [c \in Pages |-> page'[c]]
  BY DEF Woken
<1> QED
  BY <1>2, <1>3

-----------------------------------------------------------------------------
(* The steps of the request that starts the generation, and of the thread. *)

\* A step that emits a frame, while the request starts the generation or later.
LEMMA EmitStep ==
    ASSUME StreamInv, emit, UNCHANGED <<creator, round, readers, done, page, final>>,
           called' \in BOOLEAN,
           \/ phase = "starting" /\ seq = 0 /\ phase' = "starting"
           \/ phase = "starting" /\ phase' = "failing"
           \/ phase \in {"bound", "open"} /\ phase' = phase
    PROVE  StreamInv'
<1>1. TypeOK'
  BY EmitJournal, EmitDeque, EmitFlags DEF StreamInv, TypeOK, Journal, DequeRow
<1>2. StartInv'
  BY EmitJournal DEF StreamInv, StartInv, TypeOK
<1>3. JournalInv' /\ DequeInv'
  BY EmitJournal, EmitDeque DEF JournalInv, DequeInv
<1>4. PageInv' /\ InOrder' /\ GapsAreFaults'
  <2>1. seq' \in Nat /\ seq <= seq' /\ (complete' => complete) /\ (failed => failed')
    BY EmitJournal, EmitFlags DEF StreamInv, TypeOK
  <2>2. \A c \in Pages : Reading(c)' => Reading(c)
    BY DEF Reading
  <2> QED
    BY <2>1, <2>2, PagesKept DEF StreamInv, TypeOK
<1>5. FaultInv'
  BY EmitFlags DEF StreamInv, FaultInv, StartInv
<1>6. JournalIsReleased'
  <2>1. readers' = Cardinality(Readers')
    BY CountKept DEF Reading
  <2> QED
    BY <2>1, EmitFlags DEF StreamInv, JournalIsReleased
<1> QED
  BY <1>1, <1>2, <1>3, <1>4, <1>5, <1>6 DEF StreamInv

\* A step of the stream alone that adds no frame and leaves the pages and the journal.
LEMMA QuietStep ==
    ASSUME StreamInv,
           UNCHANGED <<creator, deque, seq, journal, complete, readers, done, page, history>>,
           \/ Bind
           \/ Round
    PROVE  StreamInv'
<1>1. CASE Bind
  <2>1. UNCHANGED <<round, called>> /\ phase = "starting" /\ phase' = "bound"
    BY <1>1 DEF Bind, stream
  <2>2. TypeOK'
    BY <2>1 DEF StreamInv, TypeOK, history
  <2>3. StartInv'
    BY <2>1 DEF StreamInv, StartInv
  <2>4. JournalInv' /\ DequeInv' /\ PageInv' /\ InOrder' /\ GapsAreFaults'
    BY <2>1 DEF StreamInv, JournalInv, DequeInv, PageInv, InOrder, GapsAreFaults, base,
                Reading, history
  <2>5. FaultInv' /\ JournalIsReleased'
    BY <2>1 DEF StreamInv, FaultInv, JournalIsReleased, Readers, Reading, history
  <2> QED
    BY <2>2, <2>3, <2>4, <2>5 DEF StreamInv
<1>2. CASE Round
  <2>1. /\ UNCHANGED <<phase, called>>
        /\ round' = [seq |-> seq, offset |-> Len(journal.frames), set |-> TRUE]
    BY <1>2 DEF Round, set_round_start
  <2>2. TypeOK'
    BY <2>1 DEF StreamInv, TypeOK, history
  <2>3. StartInv' /\ DequeInv' /\ PageInv' /\ InOrder' /\ GapsAreFaults'
    BY <2>1 DEF StreamInv, StartInv, DequeInv, PageInv, InOrder, GapsAreFaults, base,
                Reading, history
  <2>4. JournalInv'
    BY <2>1 DEF StreamInv, TypeOK, JournalInv, base
  <2>5. FaultInv' /\ JournalIsReleased'
    BY <2>1 DEF StreamInv, FaultInv, JournalIsReleased, Readers, Reading, history
  <2> QED
    BY <2>2, <2>3, <2>4, <2>5 DEF StreamInv
<1> QED
  BY <1>1, <1>2

\* The end of the stream, of a failed start or of a generation.
LEMMA FinishStep ==
    ASSUME StreamInv, finish,
           UNCHANGED <<creator, deque, seq, complete, round, readers, called, failed>>,
           \/ phase = "failing" /\ phase' = "failed" /\ page' = page
           \/ phase \in {"open", "over"} /\ phase' = phase /\ page' = Woken
    PROVE  StreamInv'
<1>1. /\ page' \in [Pages -> PageType]
      /\ \A c \in Pages : Reading(c)' <=> Reading(c)
      /\ \A c \in Pages :
            /\ page'[c].from = page[c].from /\ page'[c].seen = page[c].seen
            /\ page'[c].got = page[c].got /\ page'[c].gap = page[c].gap
            /\ page'[c].offset = page[c].offset
  <2>1. CASE page' = page
    BY <2>1 DEF StreamInv, TypeOK, Reading
  <2>2. CASE page' = Woken
    BY <2>2, WokenPages
  <2> QED
    BY <2>1, <2>2
<1>2. /\ done' = TRUE /\ final' \in Nat
      /\ journal' \in Journal /\ journal'.frames = journal.frames
      /\ journal'.open = (journal.open /\ readers # 0)
  BY DEF finish, StreamInv, TypeOK, Journal
<1>3. TypeOK'
  BY <1>1, <1>2 DEF StreamInv, TypeOK, Journal
<1>4. StartInv'
  BY <1>2 DEF StreamInv, StartInv
<1>5. JournalInv' /\ DequeInv'
  BY <1>2, StreamKept
<1>6. PageInv' /\ InOrder' /\ GapsAreFaults'
  BY <1>1, <1>3, PagesKept DEF TypeOK
<1>7. phase = "failing" => readers = 0
  BY ReaderIsCounted, NobodyReads
<1>8. FaultInv'
  BY <1>2, <1>7 DEF StreamInv, FaultInv, StartInv
<1>9. JournalIsReleased'
  <2>1. readers' = Cardinality(Readers')
    BY <1>1, CountKept
  <2>2. readers' = readers
    OBVIOUS
  <2> QED
    BY <1>2, <2>1, <2>2 DEF JournalIsReleased
<1> QED
  BY <1>3, <1>4, <1>5, <1>6, <1>8, <1>9 DEF StreamInv

\* The page of the request that has started the generation, or failed to.
LEMMA CreateStep ==
    ASSUME StreamInv, Create
    PROVE  StreamInv'
<1>1. /\ \/ phase = "bound" /\ phase' = "open"
         \/ phase = "failed" /\ phase' = "over"
      /\ UNCHANGED <<creator, deque, seq, journal, complete, round, done, called, history>>
  BY DEF Create
<1>2. JournalInv' /\ DequeInv'
  BY <1>1, StreamKept
<1>3. CASE creator = NoPage
  <2>1. UNCHANGED <<readers, page>>
    BY <1>3 DEF Create
  <2>2. TypeOK' /\ StartInv'
    BY <1>1, <2>1 DEF StreamInv, TypeOK, StartInv, history
  <2>3. PageInv' /\ InOrder' /\ GapsAreFaults'
    BY <1>1, <2>1 DEF StreamInv, PageInv, InOrder, GapsAreFaults, Reading, history
  <2>4. FaultInv'
    BY <1>1, <2>1 DEF StreamInv, StartInv, FaultInv, history
  <2>5. JournalIsReleased'
    <3>1. Readers' = Readers
      BY <2>1 DEF Readers, Reading
    <3> QED
      BY <1>1, <2>1, <3>1 DEF StreamInv, JournalIsReleased
  <2> QED
    BY <1>2, <2>2, <2>3, <2>4, <2>5 DEF StreamInv
<1>4. CASE creator # NoPage
  <2> DEFINE live == [NewPage EXCEPT !.pc = "live"]
  <2>1. PICK who \in Pages : creator = who
    BY <1>4 DEF StreamInv, TypeOK
  <2>2. acquire_replay /\ page' = [page EXCEPT ![who] = live]
    BY <1>4, <2>1 DEF Create
  <2>3. /\ page \in [Pages -> PageType] /\ \A c \in Pages : page[c] = NewPage
        /\ NewPage \in PageType /\ live \in PageType
    <3>1. <<>> \in Seq(Nat)
      OBVIOUS
    <3>2. NewPage \in PageType /\ live \in PageType
      BY <3>1 DEF NewPage, PageType
    <3> QED
      BY <1>1, <3>2 DEF StreamInv, TypeOK, StartInv
  <2>4. /\ page'[who] = live
        /\ \A d \in Pages \ {who} : page'[d] = page[d]
        /\ page' \in [Pages -> PageType]
    BY <2>2, <2>3
  <2>5. ~Reading(who) /\ Reading(who)'
        /\ \A d \in Pages \ {who} : Reading(d)' <=> Reading(d)
    BY <2>3, <2>4 DEF Reading, NewPage
  <2>6. readers' = Cardinality(Readers') /\ readers' \in Nat /\ readers' # 0
    BY <2>5, <2>2, CountMore
  <2>7. TypeOK' /\ StartInv'
    BY <1>1, <2>4, <2>6 DEF StreamInv, TypeOK, StartInv, history
  <2>8. PageInv' /\ InOrder' /\ GapsAreFaults'
    <3>1. seq \in Nat /\ seq' = seq /\ complete' = complete /\ failed' = failed
      BY <1>1 DEF StreamInv, TypeOK, history
    <3>2. /\ page'[who].got = <<>> /\ ~page'[who].gap /\ page'[who].seen = 0
          /\ page'[who].from = 0 /\ page'[who].offset = 0
      BY <2>4 DEF NewPage
    <3>3. /\ page'[who].from = page'[who].seen /\ page'[who].seen <= seq'
          /\ page'[who].offset = page'[who].seen
      BY <3>1, <3>2
    <3> HIDE DEF live
    <3>4. ASSUME NEW d \in Pages \ {who}
          PROVE  page'[d] = page[d] /\ (Reading(d)' => Reading(d))
      BY <2>4, <2>5
    <3> QED
      BY <2>4, <3>1, <3>2, <3>3, <3>4, PagesKept
  <2>9. FaultInv'
    BY <1>1, <2>6 DEF StreamInv, StartInv, FaultInv, JournalIsReleased, history
  <2>10. JournalIsReleased'
    BY <1>1, <2>6 DEF StreamInv, JournalIsReleased
  <2> QED
    BY <1>2, <2>7, <2>8, <2>9, <2>10 DEF StreamInv
<1> QED
  BY <1>3, <1>4

-----------------------------------------------------------------------------
(* The steps of the event loop and of the pages.                           *)

\* The event loop wakes the pages that wait.
LEMMA NotifyStep ==
    ASSUME StreamInv, Notify
    PROVE  StreamInv'
<1>1. /\ LoopFree /\ called' = FALSE /\ page' = Woken
      /\ UNCHANGED <<phase, creator, deque, seq, journal, complete, round, readers, done,
                     final, failed>>
  BY DEF Notify, stream, history
<1>2. TypeOK'
  BY <1>1, WokenPages DEF StreamInv, TypeOK
<1>3. StartInv'
  BY <1>1 DEF StreamInv, StartInv, LoopFree
<1>4. JournalInv' /\ DequeInv'
  BY <1>1, StreamKept
<1>5. PageInv' /\ InOrder' /\ GapsAreFaults'
  BY <1>1, <1>2, WokenPages, PagesKept DEF StreamInv, TypeOK
<1>6. FaultInv'
  BY <1>1 DEF StreamInv, FaultInv
<1>7. JournalIsReleased'
  <2>1. readers' = Cardinality(Readers')
    BY <1>1, WokenPages, CountKept
  <2> QED
    BY <1>1, <2>1 DEF StreamInv, JournalIsReleased
<1> QED
  BY <1>2, <1>3, <1>4, <1>5, <1>6, <1>7 DEF StreamInv

\* A page attaches where the first round begins.
LEMMA AttachStep ==
    ASSUME StreamInv, NEW c \in Pages, Attach(c)
    PROVE  StreamInv'
<1> DEFINE new == [NewPage EXCEPT !.pc = "replaying", !.from = round.seq, !.seen = round.seq,
                                  !.offset = round.offset,
                                  !.told = complete /\ creator # NoPage]
<1>1. /\ LoopFree /\ page[c].pc = "new" /\ ~done /\ acquire_replay
      /\ page' = [page EXCEPT ![c] = new]
      /\ UNCHANGED <<phase, creator, deque, seq, journal, complete, round, done, called,
                     final, failed>>
  BY DEF Attach, history
<1>2. page \in [Pages -> PageType] /\ round.seq \in Nat /\ round.offset \in Nat
      /\ complete \in BOOLEAN /\ round.seq <= seq /\ seq \in Nat
      /\ (complete => round.offset = round.seq)
  BY DEF StreamInv, TypeOK, JournalInv
<1>3. /\ new \in PageType /\ new.pc = "replaying" /\ new.got = <<>> /\ new.gap = FALSE
      /\ new.from = round.seq /\ new.seen = round.seq /\ new.offset = round.offset
  <2>1. <<>> \in Seq(Nat) /\ (complete /\ creator # NoPage) \in BOOLEAN
    OBVIOUS
  <2> QED
    BY <1>2, <2>1 DEF NewPage, PageType
<1> HIDE DEF new
<1>4. /\ page'[c] = new /\ page' \in [Pages -> PageType]
      /\ \A d \in Pages \ {c} : page'[d] = page[d]
  BY <1>1, <1>2, <1>3
<1>5. ~Reading(c) /\ Reading(c)' /\ \A d \in Pages \ {c} : Reading(d)' <=> Reading(d)
  BY <1>1, <1>3, <1>4 DEF Reading
<1>6. readers' = Cardinality(Readers') /\ readers' \in Nat /\ readers' # 0
  BY <1>1, <1>5, CountMore
<1>7. TypeOK'
  BY <1>1, <1>4, <1>6 DEF StreamInv, TypeOK
<1>8. StartInv'
  BY <1>1 DEF StreamInv, StartInv, LoopFree
<1>9. JournalInv' /\ DequeInv'
  BY <1>1, StreamKept
<1>10. PageInv' /\ InOrder' /\ GapsAreFaults'
  <2>1. ASSUME NEW d \in Pages \ {c}
        PROVE  page'[d] = page[d] /\ (Reading(d)' => Reading(d))
    BY <1>4, <1>5
  <2>2. /\ page'[c].got = <<>> /\ ~page'[c].gap /\ page'[c].from = page'[c].seen
        /\ page'[c].seen <= seq' /\ (complete' => page'[c].offset = page'[c].seen)
    BY <1>1, <1>2, <1>3, <1>4
  <2> QED
    BY <1>1, <1>2, <1>4, <2>1, <2>2, PagesKept
<1>11. FaultInv'
  BY <1>1, <1>6 DEF StreamInv, FaultInv
<1>12. JournalIsReleased'
  BY <1>1, <1>6 DEF StreamInv, JournalIsReleased
<1> QED
  BY <1>7, <1>8, <1>9, <1>10, <1>11, <1>12 DEF StreamInv

\* A page goes on, with the frames it has.
LEMMA MoveStep ==
    ASSUME StreamInv, NEW c \in Pages,
           NEW from \in {"replaying", "ending", "live", "waiting"},
           NEW to \in {"replaying", "ending", "live", "waiting"},
           Moves(c, from, to)
    PROVE  StreamInv'
<1>1. /\ LoopFree /\ page[c].pc = from /\ page' = [page EXCEPT ![c].pc = to]
      /\ UNCHANGED <<phase, creator, deque, seq, journal, complete, round, readers, done,
                     called, final, failed>>
  BY DEF Moves, stream, history
<1>2. page \in [Pages -> PageType] /\ page[c] \in PageType
  BY DEF StreamInv, TypeOK
<1>3. page' = [page EXCEPT ![c] = [page[c] EXCEPT !.pc = to]]
  BY <1>1, <1>2
<1>4. [page[c] EXCEPT !.pc = to] \in PageType
  BY <1>2 DEF PageType
<1>5. /\ page' \in [Pages -> PageType]
      /\ page'[c] = [page[c] EXCEPT !.pc = to]
      /\ \A d \in Pages \ {c} : page'[d] = page[d]
  BY <1>2, <1>3, <1>4
<1>6. /\ page'[c].pc = to /\ page'[c].from = page[c].from /\ page'[c].seen = page[c].seen
      /\ page'[c].got = page[c].got /\ page'[c].gap = page[c].gap
      /\ page'[c].offset = page[c].offset
  BY <1>2, <1>5 DEF PageType
<1>7. ASSUME NEW d \in Pages
      PROVE  /\ Reading(d)' <=> Reading(d)
             /\ page'[d].from = page[d].from /\ page'[d].seen = page[d].seen
             /\ page'[d].got = page[d].got /\ page'[d].gap = page[d].gap
             /\ page'[d].offset = page[d].offset
  BY <1>1, <1>5, <1>6 DEF Reading
<1>8. TypeOK'
  BY <1>1, <1>5 DEF StreamInv, TypeOK
<1>9. StartInv'
  BY <1>1 DEF StreamInv, StartInv, LoopFree
<1>10. JournalInv' /\ DequeInv'
  BY <1>1, StreamKept
<1>11. PageInv' /\ InOrder' /\ GapsAreFaults'
  BY <1>1, <1>5, <1>7, PagesKept DEF StreamInv, TypeOK
<1>12. FaultInv'
  BY <1>1 DEF StreamInv, FaultInv
<1>13. JournalIsReleased'
  <2>1. readers' = Cardinality(Readers')
    BY <1>1, <1>7, CountKept
  <2> QED
    BY <1>1, <2>1 DEF StreamInv, JournalIsReleased
<1> QED
  BY <1>8, <1>9, <1>10, <1>11, <1>12, <1>13 DEF StreamInv

\* A page reads a frame.
LEMMA ReadStep ==
    ASSUME StreamInv, NEW c \in Pages, Read(c)
    PROVE  StreamInv'
<1>1. /\ LoopFree /\ Reading(c) /\ ~Exhausted(c) /\ read_replay(c)
      /\ UNCHANGED <<phase, creator, deque, seq, round, readers, done, called, final>>
  BY DEF Read, Reading
<1>2. /\ page \in [Pages -> PageType] /\ page[c] \in PageType
      /\ page' = [page EXCEPT ![c] = page'[c]] /\ page'[c] \in PageType
  BY <1>1, ReadPage DEF StreamInv, TypeOK
<1>3. page' \in [Pages -> PageType] /\ \A d \in Pages \ {c} : page'[d] = page[d]
  BY <1>2
<1>4. \A d \in Pages : Reading(d)' <=> Reading(d)
  BY <1>1, <1>3, ReadPage DEF Reading
<1>5. TypeOK'
  BY <1>1, <1>3, ReadFlags DEF StreamInv, TypeOK, Journal
<1>6. StartInv'
  BY <1>1 DEF StreamInv, StartInv, LoopFree
<1>7. JournalInv' /\ DequeInv'
  BY <1>1, ReadFlags, StreamKept
<1>8. /\ page[c].from <= page[c].seen /\ page[c].seen \in Nat /\ page'[c].seen \in Nat
      /\ page[c].from \in Nat /\ page[c].got \in Seq(Nat) /\ seq \in Nat
  BY <1>2 DEF StreamInv, TypeOK, PageInv, PageType
<1>9. ASSUME NEW d \in Pages \ {c}
      PROVE  /\ page'[d] = page[d] /\ (Reading(d)' => Reading(d))
             /\ seq' = seq /\ (complete' => complete) /\ (failed => failed')
  BY <1>1, <1>3, <1>4, ReadFlags
<1>10. PageInv'
  <2>1. /\ page'[c].from <= page'[c].seen /\ page'[c].seen <= seq'
        /\ complete' => page'[c].offset = page'[c].seen
    BY <1>1, <1>8, ReadPage
  <2>2. ASSUME NEW d \in Pages \ {c}
        PROVE  /\ page'[d].from <= page'[d].seen /\ page'[d].seen <= seq'
               /\ Reading(d)' /\ complete' => page'[d].offset = page'[d].seen
    BY <1>9 DEF StreamInv, PageInv
  <2> QED
    BY <2>1, <2>2 DEF PageInv
<1>11. InOrder'
  <2> DEFINE got == page[c].got
  <2>1. /\ page'[c].got = Append(got, page'[c].seen) /\ page'[c].from = page[c].from
        /\ page[c].seen < page'[c].seen
        /\ ~page'[c].gap => ~page[c].gap /\ page'[c].seen = page[c].seen + 1
    BY <1>1, ReadPage
  <2>2. /\ \A i \in 1..Len(got) : page[c].from < got[i] /\ got[i] <= page[c].seen
        /\ \A i, j \in 1..Len(got) : i < j => got[i] < got[j]
        /\ ~page[c].gap => Len(got) = page[c].seen - page[c].from
    BY <1>8 DEF StreamInv, InOrder
  <2>3. /\ Len(got) \in Nat /\ \A i \in 1..Len(got) : got[i] \in Nat
        /\ Len(page'[c].got) = Len(got) + 1 /\ DOMAIN page'[c].got = 1..(Len(got) + 1)
        /\ \A i \in 1..Len(got) : page'[c].got[i] = got[i]
        /\ page'[c].got[Len(got) + 1] = page'[c].seen
    <3>1. got \in Seq(Nat)
      BY <1>8
    <3>2. /\ Len(Append(got, page'[c].seen)) = Len(got) + 1
          /\ DOMAIN Append(got, page'[c].seen) = 1..(Len(got) + 1)
          /\ \A i \in 1..Len(got) : Append(got, page'[c].seen)[i] = got[i]
          /\ Append(got, page'[c].seen)[Len(got) + 1] = page'[c].seen
      BY <1>8, <3>1
    <3> QED
      BY <2>1, <3>1, <3>2
  <2> HIDE DEF got
  <2>4. \A i \in DOMAIN page'[c].got :
            page'[c].from < page'[c].got[i] /\ page'[c].got[i] <= page'[c].seen
    <3> TAKE i \in DOMAIN page'[c].got
    <3>1. CASE i = Len(got) + 1
      BY <1>8, <2>1, <2>3, <3>1
    <3>2. CASE i \in 1..Len(got)
      BY <1>8, <2>1, <2>2, <2>3, <3>2
    <3> QED
      BY <2>3, <3>1, <3>2
  <2>5. \A i, j \in DOMAIN page'[c].got : i < j => page'[c].got[i] < page'[c].got[j]
    <3> SUFFICES ASSUME NEW i \in DOMAIN page'[c].got, NEW j \in DOMAIN page'[c].got, i < j
                 PROVE  page'[c].got[i] < page'[c].got[j]
      OBVIOUS
    <3>1. i \in 1..Len(got)
      BY <2>3
    <3>2. CASE j = Len(got) + 1
      BY <1>8, <2>1, <2>2, <2>3, <3>1, <3>2
    <3>3. CASE j \in 1..Len(got)
      BY <2>2, <2>3, <3>1, <3>3
    <3> QED
      BY <2>3, <3>2, <3>3
  <2>6. ~page'[c].gap => Len(page'[c].got) = page'[c].seen - page'[c].from
    <3> SUFFICES ASSUME ~page'[c].gap
                 PROVE  Len(page'[c].got) = page'[c].seen - page'[c].from
      OBVIOUS
    <3>1. Len(got) = page[c].seen - page[c].from /\ page'[c].seen = page[c].seen + 1
      BY <2>1, <2>2
    <3>2. Len(page'[c].got) = Len(got) + 1 /\ page'[c].from = page[c].from
      BY <2>1, <2>3
    <3> QED
      BY <1>8, <3>1, <3>2
  <2>7. ASSUME NEW d \in Pages \ {c}
        PROVE  /\ \A i \in DOMAIN page'[d].got :
                     page'[d].from < page'[d].got[i] /\ page'[d].got[i] <= page'[d].seen
               /\ \A i, j \in DOMAIN page'[d].got :
                     i < j => page'[d].got[i] < page'[d].got[j]
               /\ ~page'[d].gap => Len(page'[d].got) = page'[d].seen - page'[d].from
    BY <1>9 DEF StreamInv, InOrder
  <2> QED
    BY <2>4, <2>5, <2>6, <2>7 DEF InOrder
<1>12. GapsAreFaults'
  <2>1. page'[c].gap => failed'
    BY <1>1, ReadPage, ReadFlags DEF StreamInv, GapsAreFaults
  <2>2. ASSUME NEW d \in Pages \ {c}
        PROVE  page'[d].gap => failed'
    BY <1>9 DEF StreamInv, GapsAreFaults
  <2> QED
    BY <2>1, <2>2 DEF GapsAreFaults
<1>13. FaultInv'
  BY <1>1, ReadFlags DEF StreamInv, FaultInv
<1>14. JournalIsReleased'
  <2>1. readers' = Cardinality(Readers')
    BY <1>1, <1>4, CountKept
  <2> QED
    BY <1>1, <2>1, ReadFlags DEF StreamInv, JournalIsReleased
<1> QED
  BY <1>5, <1>6, <1>7, <1>10, <1>11, <1>12, <1>13, <1>14 DEF StreamInv

\* A page ends or leaves, and the last one of a stream that is done closes the journal.
LEMMA CloseStep ==
    ASSUME StreamInv, NEW c \in Pages, Reading(c), LoopFree,
           NEW gone \in PageType, gone.pc \in {"left", "ended", "short"}, gone.got = <<>>,
           ~gone.gap, gone.from = 0, gone.seen = 0, gone.offset = 0,
           Closes(c, gone)
    PROVE  StreamInv'
<1>1. /\ page' = [page EXCEPT ![c] = gone] /\ readers' = readers - 1
      /\ journal' = [journal EXCEPT !.open = @ /\ ~(done /\ readers = 1)]
      /\ UNCHANGED <<phase, creator, deque, seq, complete, round, done, called, final,
                     failed>>
  BY DEF Closes, release_replay, history
<1>2. page \in [Pages -> PageType] /\ readers \in Nat /\ seq \in Nat /\ journal \in Journal
      /\ done \in BOOLEAN
  BY DEF StreamInv, TypeOK, Journal
<1>3. /\ page'[c] = gone /\ page' \in [Pages -> PageType]
      /\ \A d \in Pages \ {c} : page'[d] = page[d]
  BY <1>1, <1>2
<1>4. ~Reading(c)' /\ \A d \in Pages \ {c} : Reading(d)' <=> Reading(d)
  BY <1>3 DEF Reading
<1>5. readers' = Cardinality(Readers') /\ readers' \in Nat
  BY <1>1, <1>4, CountLess
<1>6. /\ journal' \in Journal /\ journal'.frames = journal.frames
      /\ journal'.open <=> journal.open /\ ~(done /\ readers = 1)
  BY <1>1, <1>2 DEF Journal
<1>7. TypeOK'
  BY <1>1, <1>3, <1>5, <1>6 DEF StreamInv, TypeOK, Journal
<1>8. StartInv'
  BY <1>1 DEF StreamInv, StartInv, LoopFree
<1>9. JournalInv' /\ DequeInv'
  BY <1>1, <1>6, StreamKept
<1>10. PageInv' /\ InOrder' /\ GapsAreFaults'
  <2>1. ASSUME NEW d \in Pages \ {c}
        PROVE  page'[d] = page[d] /\ (Reading(d)' => Reading(d))
    BY <1>3, <1>4
  <2>2. /\ page'[c].got = <<>> /\ ~page'[c].gap /\ page'[c].from = page'[c].seen
        /\ page'[c].seen <= seq' /\ page'[c].offset = page'[c].seen
    BY <1>1, <1>2, <1>3
  <2> QED
    BY <1>1, <1>2, <1>3, <2>1, <2>2, PagesKept
<1>11. readers # 0
  BY ReaderIsCounted
<1>12. FaultInv'
  BY <1>1, <1>2, <1>6, <1>11 DEF StreamInv, FaultInv
<1>13. JournalIsReleased'
  BY <1>1, <1>2, <1>5, <1>6, <1>11 DEF StreamInv, JournalIsReleased
<1> QED
  BY <1>7, <1>8, <1>9, <1>10, <1>12, <1>13 DEF StreamInv

\* A step that changes nothing.
LEMMA StutterStep ==
    ASSUME StreamInv, UNCHANGED vars
    PROVE  StreamInv'
<1>1. UNCHANGED <<phase, creator, deque, seq, journal, complete, round, readers, done,
                  called, page, final, failed>>
  BY DEF vars, stream, history
<1>2. TypeOK' /\ StartInv' /\ JournalInv' /\ DequeInv' /\ FaultInv'
  BY <1>1 DEF StreamInv, TypeOK, StartInv, JournalInv, DequeInv, FaultInv, base
<1>3. PageInv' /\ InOrder' /\ GapsAreFaults'
  BY <1>1 DEF StreamInv, PageInv, InOrder, GapsAreFaults, Reading
<1>4. Readers' = Readers
  BY <1>1 DEF Readers, Reading
<1>5. JournalIsReleased'
  BY <1>1, <1>4 DEF StreamInv, JournalIsReleased
<1> QED
  BY <1>2, <1>3, <1>5 DEF StreamInv

-----------------------------------------------------------------------------
(* The theorems.                                                           *)

\* The stream begins without a frame and without a page.
LEMMA StreamInit == Init => StreamInv
<1> SUFFICES ASSUME Init PROVE StreamInv
  OBVIOUS
<1>1. /\ phase = "starting" /\ creator \in Creators /\ deque = <<>> /\ seq = 0
      /\ journal = [frames |-> <<>>, open |-> TRUE] /\ complete = TRUE /\ round = NoRound
      /\ readers = 0 /\ done = FALSE /\ called = FALSE /\ final = 0 /\ failed = FALSE
      /\ page = [c \in Pages |-> NewPage]
  BY DEF Init
<1>2. \A c \in Pages : page[c] = NewPage /\ ~Reading(c)
  BY <1>1 DEF Reading, NewPage
<1>3. NewPage \in PageType /\ <<>> \in Seq(Nat) /\ <<>> \in Seq(DequeRow)
  <2>1. <<>> \in Seq(Nat) /\ <<>> \in Seq(DequeRow)
    OBVIOUS
  <2> QED
    BY <2>1 DEF NewPage, PageType
<1>4. TypeOK
  BY <1>1, <1>3 DEF TypeOK, NoRound, DequeRow
<1>5. StartInv /\ FaultInv
  BY <1>1, <1>2 DEF StartInv, FaultInv
<1>6. JournalInv /\ DequeInv
  BY <1>1 DEF JournalInv, DequeInv, NoRound, base
<1>7. PageInv /\ InOrder /\ GapsAreFaults
  BY <1>1, <1>2 DEF PageInv, InOrder, GapsAreFaults, NewPage
<1>8. JournalIsReleased
  <2>1. Readers = {}
    BY <1>2 DEF Readers
  <2> QED
    BY <1>1, <2>1, FS_EmptySet DEF JournalIsReleased
<1> QED
  BY <1>4, <1>5, <1>6, <1>7, <1>8 DEF StreamInv

\* Every step keeps the invariant.
LEMMA StreamNext == StreamInv /\ [Next]_vars => StreamInv'
<1> SUFFICES ASSUME StreamInv, [Next]_vars PROVE StreamInv'
  OBVIOUS
<1>1. CASE StartWarning
  BY <1>1, EmitStep DEF StartWarning, StreamInv, TypeOK
<1>2. CASE StartFails
  BY <1>2, EmitStep DEF StartFails, StreamInv, TypeOK
<1>3. CASE Frame
  BY <1>3, EmitStep DEF Frame, Bound
<1>4. CASE Bind
  BY <1>4, QuietStep DEF Bind, stream
<1>5. CASE Round
  BY <1>5, QuietStep DEF Round
<1>6. CASE StartFailed
  BY <1>6, FinishStep DEF StartFailed
<1>7. CASE Finish
  BY <1>7, FinishStep DEF Finish, LoopFree
<1>8. CASE Create
  BY <1>8, CreateStep
<1>9. CASE Notify
  BY <1>9, NotifyStep
<1>10. ASSUME NEW c \in Pages, Attach(c) \/ Step(c) \/ Heartbeat(c) \/ Leave(c)
       PROVE  StreamInv'
  <2>1. CASE Attach(c)
    BY <2>1, AttachStep
  <2>2. CASE Read(c)
    BY <2>2, ReadStep
  <2>3. CASE EndReplay(c)
    BY <2>3, MoveStep DEF EndReplay
  <2>4. CASE GoLive(c)
    BY <2>4, MoveStep DEF GoLive
  <2>5. CASE Wait(c)
    BY <2>5, MoveStep DEF Wait
  <2>6. CASE Heartbeat(c)
    BY <2>6, MoveStep DEF Heartbeat
  <2>7. CASE EndPage(c)
    <3> DEFINE gone == [NewPage EXCEPT !.pc = IF page[c].seen >= final THEN "ended" ELSE "short",
                                       !.told = page[c].told]
    <3>1. LoopFree /\ Reading(c) /\ Closes(c, gone)
      BY <2>7 DEF EndPage, Reading
    <3>2. page[c].told \in BOOLEAN /\ <<>> \in Seq(Nat)
      BY DEF StreamInv, TypeOK, PageType
    <3>3. /\ gone \in PageType /\ gone.pc \in {"left", "ended", "short"} /\ gone.got = <<>>
          /\ ~gone.gap /\ gone.from = 0 /\ gone.seen = 0 /\ gone.offset = 0
      BY <3>2 DEF NewPage, PageType
    <3> HIDE DEF gone
    <3>4. PICK as \in PageType : as = gone
      BY <3>3
    <3> QED
      BY <3>1, <3>3, <3>4, CloseStep
  <2>8. CASE Leave(c)
    <3> DEFINE gone == [NewPage EXCEPT !.pc = "left"]
    <3>1. LoopFree /\ Reading(c) /\ Closes(c, gone) /\ <<>> \in Seq(Nat)
      BY <2>8 DEF Leave
    <3>2. /\ gone \in PageType /\ gone.pc \in {"left", "ended", "short"} /\ gone.got = <<>>
          /\ ~gone.gap /\ gone.from = 0 /\ gone.seen = 0 /\ gone.offset = 0
      BY <3>1 DEF NewPage, PageType
    <3> HIDE DEF gone
    <3> QED
      BY <3>1, <3>2, CloseStep
  <2> QED
    BY <1>10, <2>1, <2>2, <2>3, <2>4, <2>5, <2>6, <2>7, <2>8 DEF Step
<1>11. CASE UNCHANGED vars
  BY <1>11, StutterStep
<1> QED
  BY <1>1, <1>2, <1>3, <1>4, <1>5, <1>6, <1>7, <1>8, <1>9, <1>10, <1>11 DEF Next

\* The invariant the other theorems rest on: the deque holds the last frames, a place in
\* the journal is a place in the stream as long as the journal is complete, and it is
\* given up for a fault or when nobody can come to read it (_SessionStream).
THEOREM StreamIsInductive == Spec => []StreamInv
<1> QED
  BY StreamInit, StreamNext, PTL DEF Spec

\* A page gets every frame once and in its order, from where it begins, unless it has
\* been warned of a gap, for any number of pages and frames and any size of the deque
\* (read_replay, tool_chat_server).
THEOREM FramesComeInOrder == Spec => []InOrder
<1>1. StreamInv => InOrder
  BY DEF StreamInv
<1> QED
  BY <1>1, StreamIsInductive, PTL

\* A page misses a frame only where a write or a read of the journal has failed: no
\* order of frames, ends and leaving pages closes a journal somebody has yet to read
\* (emit, finish, release_replay).
THEOREM OnlyFaultsLoseFrames == Spec => []GapsAreFaults
<1>1. StreamInv => GapsAreFaults
  BY DEF StreamInv
<1> QED
  BY <1>1, StreamIsInductive, PTL

\* The readers are counted as they come and go, and the journal is closed once the stream
\* is done and the last has left (acquire_replay, release_replay, finish).
THEOREM LastReaderCloses == Spec => []JournalIsReleased
<1>1. StreamInv => JournalIsReleased
  BY DEF StreamInv
<1> QED
  BY <1>1, StreamIsInductive, PTL
=============================================================================
