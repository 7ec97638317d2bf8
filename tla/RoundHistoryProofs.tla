------------------------- MODULE RoundHistoryProofs -------------------------
(***************************************************************************)
(* Proofs about the rounds of a session: the histories a write may leave,  *)
(* what each step does to the files, to its worker and to the ledger, and  *)
(* the inductive invariant RoundInv with the properties that follow from   *)
(* it.  The parts of the invariant are carried one after the other: types  *)
(* and steps, the requests before their first event, what was saved, the   *)
(* places, who holds a round, and who stands where; then, as long as       *)
(* nothing has failed, one living worker, one task that has not ended, and *)
(* the round in its checkpoint file.                                       *)
(***************************************************************************)
EXTENDS RoundHistory, SequenceTheorems, WellFoundedInduction, TLAPS

\* InsertAt and RemoveAt, place by place.
LEMMA Inserted ==
    ASSUME NEW T, NEW q \in Seq(T), NEW k \in 1..(Len(q) + 1), NEW e \in T
    PROVE  /\ S!InsertAt(q, k, e) \in Seq(T)
           /\ Len(S!InsertAt(q, k, e)) = Len(q) + 1
           /\ S!InsertAt(q, k, e)[k] = e
           /\ \A i \in 1..(k - 1) : S!InsertAt(q, k, e)[i] = q[i]
           /\ \A i \in (k + 1)..(Len(q) + 1) : S!InsertAt(q, k, e)[i] = q[i - 1]
<1> DEFINE a == SubSeq(q, 1, k - 1)
           m == <<e>>
           b == SubSeq(q, k, Len(q))
<1>1. a \in Seq(T) /\ Len(a) = k - 1 /\ \A i \in 1..(k - 1) : a[i] = q[i]
  BY SubSeqProperties
<1>2. m \in Seq(T) /\ Len(m) = 1 /\ m[1] = e
  OBVIOUS
<1>3. /\ b \in Seq(T) /\ Len(b) = Len(q) - k + 1
      /\ \A i \in 1..(Len(q) - k + 1) : b[i] = q[k + i - 1]
  BY SubSeqProperties
<1> HIDE DEF a, m, b
<1>4. /\ a \o m \in Seq(T) /\ Len(a \o m) = k
      /\ \A i \in 1..(k - 1) : (a \o m)[i] = q[i]
      /\ (a \o m)[k] = e
  <2>1. /\ a \o m \in Seq(T) /\ Len(a \o m) = Len(a) + Len(m)
        /\ \A i \in 1..(Len(a) + Len(m)) :
             (a \o m)[i] = IF i <= Len(a) THEN a[i] ELSE m[i - Len(a)]
    BY <1>1, <1>2, ConcatProperties
  <2>2. Len(a) + Len(m) = k
    BY <1>1, <1>2
  <2>3. (a \o m)[k] = m[1]
    <3>1. k \in 1..k /\ ~(k <= Len(a)) /\ k - Len(a) = 1
      BY <1>1
    <3> QED BY <2>1, <2>2, <3>1
  <2>4. ASSUME NEW i \in 1..(k - 1) PROVE (a \o m)[i] = q[i]
    BY <1>1, <2>1, <2>2
  <2> QED BY <1>2, <2>1, <2>2, <2>3, <2>4
<1> DEFINE c == a \o m
<1> HIDE DEF c
<1>5. /\ c \in Seq(T) /\ Len(c) = k /\ c[k] = e
      /\ \A i \in 1..(k - 1) : c[i] = q[i]
  BY <1>4 DEF c
<1>6. /\ c \o b \in Seq(T) /\ Len(c \o b) = Len(q) + 1
      /\ \A i \in 1..k : (c \o b)[i] = c[i]
      /\ \A i \in (k + 1)..(Len(q) + 1) : (c \o b)[i] = b[i - k]
  BY <1>3, <1>5, ConcatProperties
<1>7. ASSUME NEW i \in (k + 1)..(Len(q) + 1) PROVE (c \o b)[i] = q[i - 1]
  <2>1. i - k \in 1..(Len(q) - k + 1) /\ k + (i - k) - 1 = i - 1
    OBVIOUS
  <2> QED BY <1>3, <1>6, <2>1
<1>8. S!InsertAt(q, k, e) = c \o b
  BY DEF S!InsertAt, a, m, b, c
<1> QED BY <1>5, <1>6, <1>7, <1>8

\* RemoveAt, place by place.
LEMMA Removed ==
    ASSUME NEW T, NEW q \in Seq(T), NEW k \in 1..Len(q)
    PROVE  /\ S!RemoveAt(q, k) \in Seq(T)
           /\ Len(S!RemoveAt(q, k)) = Len(q) - 1
           /\ \A i \in 1..(Len(q) - 1) :
                S!RemoveAt(q, k)[i] = IF i < k THEN q[i] ELSE q[i + 1]
<1> DEFINE a == SubSeq(q, 1, k - 1)
           b == SubSeq(q, k + 1, Len(q))
<1>1. a \in Seq(T) /\ Len(a) = k - 1 /\ \A i \in 1..(k - 1) : a[i] = q[i]
  BY SubSeqProperties
<1>2. b \in Seq(T) /\ Len(b) = Len(q) - k /\ \A i \in 1..(Len(q) - k) : b[i] = q[k + i]
  BY SubSeqProperties
<1> HIDE DEF a, b
<1>3. /\ a \o b \in Seq(T)
      /\ Len(a \o b) = Len(a) + Len(b)
      /\ \A i \in 1..(Len(a) + Len(b)) :
           (a \o b)[i] = IF i <= Len(a) THEN a[i] ELSE b[i - Len(a)]
  BY <1>1, <1>2, ConcatProperties
<1>4. S!RemoveAt(q, k) = a \o b
  BY DEF S!RemoveAt, a, b
<1>5. Len(a) + Len(b) = Len(q) - 1
  BY <1>1, <1>2
<1>6. ASSUME NEW i \in 1..(Len(q) - 1)
      PROVE  (a \o b)[i] = IF i < k THEN q[i] ELSE q[i + 1]
  <2>1. CASE i < k
    BY <2>1, <1>1, <1>3, <1>5
  <2>2. CASE ~(i < k)
    <3>1. (a \o b)[i] = b[i - (k - 1)]
      BY <2>2, <1>1, <1>3, <1>5
    <3>2. i - (k - 1) \in 1..(Len(q) - k) /\ k + (i - (k - 1)) = i + 1
      BY <2>2
    <3> QED BY <2>2, <3>1, <3>2, <1>2
  <2> QED BY <2>1, <2>2
<1> QED BY <1>3, <1>4, <1>5, <1>6

-----------------------------------------------------------------------------
(* A write of the history.                                                 *)

\* The round stands in the place of another.
Replaces(h, g, r, n) ==
    /\ n \in 1..Len(h) /\ Len(g) = Len(h)
    /\ g[n].id = r /\ g[n].at \in {r, h[n].at}
    /\ \A i \in 1..Len(h) : i # n => g[i] = h[i]

\* The round stands before others, or at the end.
Enters(h, g, r, k) ==
    /\ k \in 1..(Len(h) + 1) /\ Len(g) = Len(h) + 1
    /\ g[k] = [id |-> r, at |-> r]
    /\ \A i \in 1..(k - 1) : g[i] = h[i]
    /\ \A i \in (k + 1)..(Len(h) + 1) : g[i] = h[i - 1]

\* A write replaces the round at a place that fits, and else lets the round enter.
LEMMA PutShape ==
    ASSUME NEW h \in Seq(Entry), NEW r \in Rounds, NEW place \in Places, NEW g \in Put(h, r, place)
    PROVE  /\ g \in Seq(Entry)
           /\ \/ place.how = "replace" /\ Fits(h, place) /\ Replaces(h, g, r, place.at)
              \/ /\ ~(place.how = "replace" /\ Fits(h, place))
                 /\ \E k \in 1..(Len(h) + 1) : Enters(h, g, r, k)
<1> DEFINE e == [id |-> r, at |-> r]
<1>1. e \in Entry /\ Len(h) \in Nat
  BY LenProperties DEF Entry
<1>2. CASE Fits(h, place) /\ place.how = "replace"
  <2>1. PICK at \in {r, h[place.at].at} : g = [h EXCEPT ![place.at] = [id |-> r, at |-> at]]
    BY <1>2 DEF Put
  <2>2. place.at \in 1..Len(h)
    BY <1>1, <1>2 DEF Fits, Places, End
  <2>3. h[place.at] \in Entry
    BY <2>2
  <2>4. [id |-> r, at |-> at] \in Entry
    BY <2>1, <2>3 DEF Entry
  <2>5. g \in Seq(Entry) /\ Len(g) = Len(h)
    BY <2>1, <2>2, <2>4, ExceptSeq
  <2>6. Replaces(h, g, r, place.at)
    BY <1>1, <2>1, <2>2, <2>5 DEF Replaces
  <2> QED BY <1>2, <2>5, <2>6
<1>3. CASE Fits(h, place) /\ place.how = "insert"
  <2>1. g = S!InsertAt(h, place.at + 1, e)
    BY <1>3 DEF Put
  <2>2. place.at + 1 \in 1..(Len(h) + 1)
    BY <1>1, <1>3 DEF Fits, Places, End
  <2> HIDE DEF e
  <2>3. PICK k \in 1..(Len(h) + 1) : k = place.at + 1
    BY <2>2
  <2>4. /\ S!InsertAt(h, k, e) \in Seq(Entry)
        /\ Len(S!InsertAt(h, k, e)) = Len(h) + 1
        /\ S!InsertAt(h, k, e)[k] = e
        /\ \A i \in 1..(k - 1) : S!InsertAt(h, k, e)[i] = h[i]
        /\ \A i \in (k + 1)..(Len(h) + 1) : S!InsertAt(h, k, e)[i] = h[i - 1]
    <3>1. e \in Entry
      BY <1>1
    <3> QED BY <3>1, Inserted
  <2>5. g = S!InsertAt(h, k, e)
    BY <2>1, <2>3
  <2>6. g \in Seq(Entry) /\ Enters(h, g, r, k)
    BY <2>4, <2>5 DEF Enters, e
  <2> QED BY <1>3, <2>6
<1>4. CASE ~(Fits(h, place) /\ place.how = "replace") /\ ~(Fits(h, place) /\ place.how = "insert")
  <2>1. g = Append(h, e)
    BY <1>4 DEF Put
  <2> HIDE DEF e
  <2>2. /\ g \in Seq(Entry) /\ Len(g) = Len(h) + 1
        /\ \A i \in 1..Len(h) : g[i] = h[i]
        /\ g[Len(h) + 1] = e
    BY <1>1, <2>1, AppendProperties
  <2>3. Enters(h, g, r, Len(h) + 1)
    BY <1>1, <2>2 DEF Enters, e
  <2> QED BY <1>1, <1>4, <2>2, <2>3
<1> QED BY <1>2, <1>3, <1>4

\* Who is in the history then.
LEMMA PutIds ==
    ASSUME NEW h \in Seq(Entry), NEW r \in Rounds, NEW place \in Places, NEW g \in Put(h, r, place)
    PROVE  Ids(g) \subseteq Ids(h) \union {r} /\ r \in Ids(g)
<1>1. Len(h) \in Nat
  BY LenProperties
<1>2. CASE Replaces(h, g, r, place.at)
  BY <1>1, <1>2 DEF Replaces, Ids
<1>3. ASSUME NEW k \in 1..(Len(h) + 1), Enters(h, g, r, k)
      PROVE  Ids(g) \subseteq Ids(h) \union {r} /\ r \in Ids(g)
  <2>1. \A i \in 1..Len(g) :
          \/ i = k
          \/ i \in 1..(k - 1) /\ i \in 1..Len(h)
          \/ i \in (k + 1)..(Len(h) + 1) /\ i - 1 \in 1..Len(h)
    BY <1>1, <1>3 DEF Enters
  <2>2. \A i \in 1..Len(g) : g[i].id = r \/ \E j \in 1..Len(h) : g[i] = h[j]
    BY <1>3, <2>1 DEF Enters
  <2>3. k \in 1..Len(g) /\ g[k].id = r
    BY <1>1, <1>3 DEF Enters
  <2> QED BY <2>2, <2>3 DEF Ids
<1> QED BY <1>2, <1>3, PutShape

\* The places a manager works with are places.
LEMMA PlaceTypes ==
    ASSUME NEW h, NEW place \in Places, NEW own \in Places
    PROVE  Rest(h, place) \in Places /\ Aim(place, own) \in Places
  BY DEF Rest, Aim, Places

-----------------------------------------------------------------------------
(* What a write may leave.                                                 *)

\* A write of round r: its checkpoint goes, or stays where it cannot be removed.
Written(f, r, place) ==
    r \in Rounds /\ place \in Places /\ f.history \in Put(history, r, place) /\ f.pend \in {NoPend, pend}

\* The checkpoint of a round that is in the history goes.
Cleared(f) == f.history = history /\ f.pend = NoPend /\ Recorded(pend.id)

Unwritten(f) == f.history = history /\ f.pend = pend

\* _finish_current_round writes the round, or leaves the files.
LEMMA FinishesShape ==
    ASSUME NEW r \in Rounds, NEW place \in Places, NEW f \in Finishes(r, place)
    PROVE  /\ f.ok \in BOOLEAN
           /\ Written(f, r, place) \/ (~f.ok /\ Unwritten(f))
           /\ f.ok => Written(f, r, place)
<1>1. CASE \E h \in Put(history, r, place), c \in {NoPend} \union (IF Fails THEN {pend} ELSE {}) :
             f = [history |-> h, pend |-> c, ok |-> TRUE]
  <2>1. PICK h \in Put(history, r, place), c \in {NoPend, pend} :
          f = [history |-> h, pend |-> c, ok |-> TRUE]
    BY <1>1
  <2>2. f.history = h /\ f.pend = c /\ f.ok = TRUE
    BY <2>1
  <2> QED BY <2>1, <2>2 DEF Written
<1>2. CASE f = [history |-> history, pend |-> pend, ok |-> FALSE]
  <2>1. f.history = history /\ f.pend = pend /\ f.ok = FALSE
    BY <1>2
  <2> QED BY <2>1 DEF Unwritten
<1>3. \/ f \in {[history |-> h, pend |-> c, ok |-> TRUE] :
               h \in Put(history, r, place), c \in {NoPend} \union (IF Fails THEN {pend} ELSE {})}
      \/ f \in IF Fails THEN {[history |-> history, pend |-> pend, ok |-> FALSE]} ELSE {}
  BY DEF Finishes
<1> QED BY <1>1, <1>2, <1>3

\* add_chat_history writes the round, or has only removed the checkpoint.
LEMMA CompletionsShape ==
    ASSUME NEW r \in Rounds, NEW place \in Places, NEW f \in Completions(r, place)
    PROVE  \/ f.ok /\ Written(f, r, place)
           \/ ~f.ok /\ f.history = history /\ f.pend = NoPend
  BY FinishesShape DEF Completions

\* The fields of a checkpoint.
LEMMA PendTypes ==
    ASSUME TypeOK, pend # NoPend
    PROVE  pend.id \in Rounds /\ pend.pid \in Pids /\ pend.place \in Places
  BY DEF TypeOK, Pends

\* What a manager does with a checkpoint.
LEMMA RecoveriesShape ==
    ASSUME TypeOK, NEW own \in Places, NEW deadOnly \in BOOLEAN, NEW f \in Recoveries(own, deadOnly)
    PROVE  /\ f.ok \in BOOLEAN
           /\ \/ Unwritten(f) /\ f.place = own
              \/ Unwritten(f) /\ pend # NoPend /\ f.place = Rest(history, Aim(pend.place, own))
              \/ /\ pend # NoPend /\ (deadOnly => ~Alive(pend.pid))
                 /\ \/ Cleared(f) /\ f.place = own
                    \/ /\ ~Recorded(pend.id) /\ Written(f, pend.id, Aim(pend.place, own))
                       /\ f.place = Rest(history, Aim(pend.place, own))
<1>1. CASE pend = NoPend \/ (deadOnly /\ Alive(pend.pid))
  <2>1. f = [history |-> history, pend |-> pend, ok |-> TRUE, place |-> own]
    BY <1>1 DEF Recoveries
  <2>2. f.history = history /\ f.pend = pend /\ f.ok = TRUE /\ f.place = own
    BY <2>1
  <2> QED BY <2>2 DEF Unwritten
<1>2. CASE ~(pend = NoPend \/ (deadOnly /\ Alive(pend.pid))) /\ Recorded(pend.id)
  <2>1. PICK c \in {NoPend, pend} :
          f = [history |-> history, pend |-> c, ok |-> TRUE, place |-> own]
    BY <1>2 DEF Recoveries
  <2>2. f.history = history /\ f.pend = c /\ f.ok = TRUE /\ f.place = own
    BY <2>1
  <2> QED BY <1>2, <2>2 DEF Unwritten, Cleared
<1>3. CASE ~(pend = NoPend \/ (deadOnly /\ Alive(pend.pid))) /\ ~Recorded(pend.id)
  <2> DEFINE aim == Aim(pend.place, own)
  <2>1. pend.id \in Rounds /\ aim \in Places
    BY <1>3, PendTypes, PlaceTypes
  <2>2. PICK g \in Finishes(pend.id, aim) :
          f = [history |-> g.history, pend |-> g.pend, ok |-> g.ok, place |-> Rest(history, aim)]
    BY <1>3 DEF Recoveries
  <2> HIDE DEF aim
  <2>3. /\ g.ok \in BOOLEAN
        /\ Written(g, pend.id, aim) \/ Unwritten(g)
    BY <2>1, <2>2, FinishesShape
  <2>4. /\ f.ok \in BOOLEAN /\ f.place = Rest(history, aim)
        /\ Written(f, pend.id, aim) \/ Unwritten(f)
    BY <2>2, <2>3 DEF Written, Unwritten
  <2> QED BY <1>3, <2>4 DEF aim
<1> QED BY <1>1, <1>2, <1>3

\* What a manager may leave of the files.
Recovers(f, own, deadOnly) ==
    \/ Unwritten(f)
    \/ /\ pend # NoPend /\ (deadOnly => ~Alive(pend.pid)) /\ (deadOnly => ~Restorable)
       /\ \/ Cleared(f)
          \/ ~Recorded(pend.id) /\ Written(f, pend.id, Aim(pend.place, own))

\* A recovery touches only the checkpoint of a dead writer, when no task can be resumed.
LEMMA Recovering ==
    ASSUME TypeOK, NEW own \in Places, NEW f \in Recover(own)
    PROVE  /\ f.ok \in BOOLEAN /\ f.place \in Places
           /\ Recovers(f, own, TRUE)
           /\ f.place = own \/ (pend # NoPend /\ f.place = Rest(history, Aim(pend.place, own)))
<1>1. CASE Restorable
  <2>1. f = [history |-> history, pend |-> pend, ok |-> TRUE, place |-> own]
    BY <1>1 DEF Recover
  <2>2. f.history = history /\ f.pend = pend /\ f.ok = TRUE /\ f.place = own
    BY <2>1
  <2> QED BY <2>2 DEF Recovers, Unwritten
<1>2. CASE ~Restorable
  <2>1. f \in Recoveries(own, TRUE)
    BY <1>2 DEF Recover
  <2>2. pend # NoPend => Rest(history, Aim(pend.place, own)) \in Places
    BY PendTypes, PlaceTypes
  <2> QED BY <1>2, <2>1, <2>2, RecoveriesShape DEF Recovers
<1> QED BY <1>1, <1>2

\* A stop finishes any checkpoint.
LEMMA StopRecovering ==
    ASSUME TypeOK, NEW own \in Places, NEW f \in Recoveries(own, FALSE)
    PROVE  /\ f.ok \in BOOLEAN /\ f.place \in Places
           /\ Recovers(f, own, FALSE)
           /\ f.place = own \/ (pend # NoPend /\ f.place = Rest(history, Aim(pend.place, own)))
<1>1. pend # NoPend => Rest(history, Aim(pend.place, own)) \in Places
  BY PendTypes, PlaceTypes
<1> QED BY <1>1, RecoveriesShape DEF Recovers

\* The fields of a worker.
LEMMA WorkerTypes ==
    ASSUME TypeOK, NEW p \in Pids
    PROVE  /\ worker[p].life \in {"new", "alive", "dead"} /\ worker[p].step \in Steps
           /\ worker[p].run \in 0..MaxRounds /\ worker[p].resumed \in BOOLEAN
           /\ worker[p].round \in 0..MaxRounds /\ worker[p].pid \in Pids \union {"nobody"}
           /\ worker[p].place \in Places /\ worker[p].kept \in BOOLEAN
  BY DEF TypeOK, Generation, TaskRow

\* The fields of a row of the ledger and of a request.
LEMMA TaskTypes ==
    ASSUME TypeOK, NEW r \in Rounds
    PROVE  /\ task[r].state \in TaskStates /\ task[r].round \in 0..MaxRounds
           /\ task[r].owner \in Pids \union {"backend", "nobody"}
           /\ ask[r].place \in Places /\ ask[r].aim \in 0..MaxRounds /\ ask[r].asked \in BOOLEAN
  BY DEF TypeOK, Generation, TaskRow

\* A round is a number that is not zero.
LEMMA BoundIsNat == MaxRounds \in Nat /\ Rounds = (0..MaxRounds) \ {0}
  BY RoundAssumption DEF Rounds

-----------------------------------------------------------------------------
(* What becomes of the files.                                              *)

Now == [history |-> history', pend |-> pend']

\* Somebody finishes the round of the checkpoint file.
ByCheckpoint ==
    /\ pend # NoPend
    /\ \/ Cleared(Now)
       \/ /\ ~Recorded(pend.id)
          /\ \E own \in {End, main.place} : Written(Now, pend.id, Aim(pend.place, own))
    /\ \/ ~Alive(pend.pid) /\ ~Restorable /\ weak' = (weak \/ Foreign)
       \/ StopRound

\* The worker finishes its own.
ByWorker(p) ==
    /\ Complete(p) \/ Halt(p) \/ Clean(p)
    /\ worker[p].life = "alive" /\ worker[p].step \in {"open", "closed"}
    /\ Written(Now, worker[p].round, worker[p].place)
    /\ ~weak' => ~Other(worker[p].round)

\* The backend finishes that of a task.
BySaved(t) ==
    /\ FinishSaved(t) /\ t \in Left /\ task[t].round # 0 /\ ~Recorded(task[t].round)
    /\ Written(Now, task[t].round, SavedPlace(t))
    /\ ~weak' => ~Other(task[t].round)

\* A new manager changes the files only for the checkpoint.
LEMMA Recovered ==
    ASSUME TypeOK, NEW own \in {End, main.place}, NEW f \in Recover(own), Files(f),
           weak' = (weak \/ Foreign)
    PROVE  UNCHANGED files \/ ByCheckpoint
<1>1. own \in Places
  BY DEF TypeOK, Places
<1>2. Recovers(f, own, TRUE) /\ f.history = history' /\ f.pend = pend'
  BY <1>1, Recovering DEF Files
<1>3. Unwritten(f) => UNCHANGED files
  BY <1>2 DEF Unwritten, files
<1>4. Cleared(f) => Cleared(Now)
  BY <1>2 DEF Cleared, Now
<1>5. \A r, place : Written(f, r, place) => Written(Now, r, place)
  BY <1>2 DEF Written, Now
<1> QED BY <1>2, <1>3, <1>4, <1>5 DEF Recovers, ByCheckpoint

\* The place of a saved round is a place.
LEMMA SavedPlaceTypes ==
    ASSUME TypeOK, NEW t \in Rounds
    PROVE  SavedPlace(t) \in Places
<1>1. ask[t].place \in Places /\ main.place \in Places
  BY DEF TypeOK
<1>2. pend.id = task[t].round /\ pend.place # End => pend.place \in Places
  BY DEF TypeOK, Pends, NoPend
<1> QED BY <1>1, <1>2 DEF SavedPlace

\* A worker that ends writes its own round, or leaves the files, or has lost the checkpoint.
LEMMA WorkerWrites ==
    ASSUME TypeOK, StepInv, NEW p \in Pids, Complete(p) \/ Halt(p) \/ Clean(p)
    PROVE  \/ UNCHANGED files
           \/ ByWorker(p)
           \/ Complete(p) /\ UNCHANGED history /\ pend' = NoPend /\ weak'
<1> DEFINE r == worker[p].round
           place == worker[p].place
<1>1. /\ worker[p].life = "alive" /\ worker[p].step \in {"open", "closed"}
      /\ r \in Rounds /\ place \in Places
  BY WorkerTypes, BoundIsNat DEF Complete, Halt, Clean, At, StepInv
<1>2. CASE Complete(p)
  <2>1. PICK f \in Completions(r, place) : Files(f) /\ weak' = (weak \/ (~f.ok \/ Other(r)))
    BY <1>2 DEF Complete, Weak
  <2>2. f.history = history' /\ f.pend = pend'
    BY <2>1 DEF Files
  <2> HIDE DEF r, place
  <2>3. \/ f.ok /\ Written(f, r, place)
        \/ ~f.ok /\ f.history = history /\ f.pend = NoPend
    BY <1>1, <2>1, CompletionsShape
  <2>4. Written(f, r, place) => Written(Now, r, place)
    BY <2>2 DEF Written, Now
  <2> QED BY <1>1, <1>2, <2>1, <2>2, <2>3, <2>4 DEF ByWorker, r, place
<1>3. CASE Halt(p) \/ Clean(p)
  <2>1. PICK f \in Finishes(r, place) : Files(f) /\ weak' = (weak \/ Other(r))
    BY <1>3 DEF Halt, Clean, Weak
  <2>2. f.history = history' /\ f.pend = pend'
    BY <2>1 DEF Files
  <2> HIDE DEF r, place
  <2>3. Written(f, r, place) \/ Unwritten(f)
    BY <1>1, <2>1, FinishesShape
  <2>4. Written(f, r, place) => Written(Now, r, place)
    BY <2>2 DEF Written, Now
  <2>5. Unwritten(f) => UNCHANGED files
    BY <2>2 DEF Unwritten, files
  <2> QED BY <1>1, <1>3, <2>1, <2>3, <2>4, <2>5 DEF ByWorker, r, place
<1> QED BY <1>2, <1>3

\* The backend writes the saved round of a task, or leaves the files.
LEMMA SavedWrites ==
    ASSUME TypeOK, NEW t \in Rounds, FinishSaved(t)
    PROVE  UNCHANGED files \/ BySaved(t)
<1> DEFINE r == task[t].round
           place == SavedPlace(t)
<1>1. CASE r = 0 \/ Recorded(r)
  BY <1>1 DEF FinishSaved
<1>2. CASE ~(r = 0 \/ Recorded(r))
  <2>1. r \in Rounds /\ place \in Places
    BY <1>2, TaskTypes, SavedPlaceTypes, BoundIsNat
  <2>2. PICK f \in Finishes(r, place) :
          /\ Files(f)
          /\ weak' = (weak \/ (Other(r) \/ (op.kind = "stop" /\ Alive(task[t].owner))))
    BY <1>2 DEF FinishSaved, Weak
  <2>3. f.history = history' /\ f.pend = pend' /\ t \in Left
    BY <2>2 DEF Files, FinishSaved
  <2> HIDE DEF r, place
  <2>4. Written(f, r, place) \/ Unwritten(f)
    BY <2>1, <2>2, FinishesShape
  <2>5. Written(f, r, place) => Written(Now, r, place)
    BY <2>3 DEF Written, Now
  <2>6. Unwritten(f) => UNCHANGED files
    BY <2>3 DEF Unwritten, files
  <2> QED BY <1>2, <2>2, <2>3, <2>4, <2>5, <2>6 DEF BySaved, r, place
<1> QED BY <1>1, <1>2

\* The ways in which the files change, each by the one who does it.
LEMMA FilesChange ==
    ASSUME TypeOK, StepInv, [Next]_vars
    PROVE  \/ UNCHANGED files
           \/ ByCheckpoint
           \/ \E p \in Pids :
                \/ Open(p) \/ Event(p) \/ ByWorker(p)
                \/ Complete(p) /\ UNCHANGED history /\ pend' = NoPend /\ weak'
           \/ \E t \in Rounds : BySaved(t)
           \/ Cut /\ UNCHANGED pend
<1>1. CASE Look
  <2>1. \E f \in Recover(End) : Files(f) /\ weak' = (weak \/ Foreign)
    BY <1>1 DEF Look, Weak
  <2> QED BY <2>1, Recovered
<1>2. ASSUME NEW p \in Pids, Launch(p) PROVE UNCHANGED files \/ ByCheckpoint
  <2>1. \E f \in Recover(main.place) : Files(f) /\ weak' = (weak \/ Foreign)
    BY <1>2 DEF Launch, Weak
  <2> QED BY <2>1, Recovered
<1>3. ASSUME NEW p \in Pids, Begin(p) PROVE UNCHANGED files \/ ByCheckpoint
  <2>1. CASE worker[p].kept
    <3>1. PICK f \in BeginManagers(p) : Files(f)
      BY <1>3 DEF Begin
    <3>2. f.history = history /\ f.pend = pend
      BY <2>1, <3>1 DEF BeginManagers
    <3> QED BY <3>1, <3>2 DEF Files, files
  <2>2. CASE ~worker[p].kept
    <3>1. PICK f \in Recover(End) : Files(f)
      BY <1>3, <2>2 DEF Begin, BeginManagers
    <3>2. weak' = (weak \/ Foreign)
      BY <1>3, <2>2 DEF Begin, Weak
    <3> QED BY <3>1, <3>2, Recovered
  <2> QED BY <2>1, <2>2
<1>4. CASE StopRound
  <2>1. PICK f \in Recoveries(main.place, FALSE) : Files(f)
    BY <1>4 DEF StopRound
  <2>2. main.place \in Places
    BY DEF TypeOK
  <2>3. Recovers(f, main.place, FALSE) /\ f.history = history' /\ f.pend = pend'
    BY <2>1, <2>2, StopRecovering DEF Files
  <2>4. Unwritten(f) => UNCHANGED files
    BY <2>3 DEF Unwritten, files
  <2>5. Cleared(f) => Cleared(Now)
    BY <2>3 DEF Cleared, Now
  <2>6. \A r, place : Written(f, r, place) => Written(Now, r, place)
    BY <2>3 DEF Written, Now
  <2> QED BY <1>4, <2>3, <2>4, <2>5, <2>6 DEF Recovers, ByCheckpoint
<1>5. ASSUME NEW t \in Rounds, FinishSaved(t) PROVE UNCHANGED files \/ BySaved(t)
  BY <1>5, SavedWrites
<1>6. ASSUME NEW p \in Pids, Complete(p) \/ Halt(p) \/ Clean(p)
      PROVE  \/ UNCHANGED files
             \/ ByWorker(p)
             \/ Complete(p) /\ UNCHANGED history /\ pend' = NoPend /\ weak'
  BY <1>6, WorkerWrites
<1>7. CASE Cut
  BY <1>7 DEF Cut
<1>8. CASE Cancel \/ Stop \/ Restart
  BY <1>8 DEF Cancel, Stop, Restart
<1>9. ASSUME NEW r \in Rounds, NEW place \in Places, Send(r, place) PROVE UNCHANGED files
  BY <1>9 DEF Send
<1>10. ASSUME NEW t \in Rounds, NEW p \in Pids, Resume(t, p) PROVE UNCHANGED files
  BY <1>10 DEF Resume
<1>11. ASSUME NEW n \in 1..MaxRounds, NEW all \in BOOLEAN, Delete(n, all) PROVE UNCHANGED files
  BY <1>11 DEF Delete
<1>12. ASSUME NEW p \in Pids, BeginResumed(p) \/ SaveTask(p) \/ Quit(p) \/ Suspend(p)
                              \/ Close(p) \/ Leave(p) \/ Crash(p)
       PROVE  UNCHANGED files
  BY <1>12 DEF BeginResumed, SaveTask, Quit, Suspend, Close, Leave, Crash
<1>13. CASE BackendStep
  BY <1>1, <1>2, <1>4, <1>5, <1>7, <1>8, <1>9, <1>10, <1>11, <1>13 DEF BackendStep
<1>14. CASE \E p \in Pids : WorkerStep(p)
  BY <1>3, <1>6, <1>12, <1>14 DEF WorkerStep
<1> QED BY <1>13, <1>14 DEF Next, vars

-----------------------------------------------------------------------------
(* Ghosts and types.                                                       *)

\* A bounded set of numbers that is not empty has a largest one.
LEMMA Largest ==
    ASSUME NEW n \in Nat, NEW T, T \subseteq 1..n, T # {}
    PROVE  \E x \in T : \A y \in T : x >= y
<1> DEFINE D == {n - x : x \in T}
<1>1. D \subseteq Nat /\ D # {}
  <2>1. \A x \in T : n - x \in Nat
    OBVIOUS
  <2> QED BY <2>1
<1>2. \A D0 : D0 \subseteq Nat /\ D0 # {} =>
          \E d \in D0 : \A e \in D0 : ~ (<<e, d>> \in OpToRel(<, Nat))
  BY NatLessThanWellFounded, WFMin
<1>3. PICK d \in D : \A e \in D : ~ (<<e, d>> \in OpToRel(<, Nat))
  BY <1>1, <1>2
<1>4. \A e \in D : ~ (<<e, d>> \in {ss \in Nat \X Nat : ss[1] < ss[2]})
  BY <1>3 DEF OpToRel
<1>5. \A e \in D : ~(e < d)
  <2> HIDE DEF D
  <2> QED BY <1>1, <1>3, <1>4
<1>6. PICK x \in T : d = n - x
  OBVIOUS
<1>7. \A y \in T : n - y \in D
  OBVIOUS
<1>8. ASSUME NEW y \in T PROVE x >= y
  <2>1. PICK e \in D : e = n - y
    BY <1>7
  <2>2. ~(e < d) /\ x \in Nat /\ y \in Nat
    BY <1>5, <1>6
  <2> HIDE DEF D
  <2> QED BY <1>6, <2>1, <2>2
<1> QED BY <1>8

-----------------------------------------------------------------------------
(* What every step leaves alone.                                           *)

\* What Note says, whatever has failed.
Noted ==
    /\ gone' = gone \union (Ids(history) \ Ids(history'))
    /\ stale' = (stale \/ Displaced \/ Forgotten)
    /\ failed' \in BOOLEAN /\ (failed => failed')

\* Every step is watched.
LEMMA Watched ==
    ASSUME TypeOK, [Next]_vars
    PROVE  Noted \/ UNCHANGED vars
<1>0. failed \in BOOLEAN
  BY DEF TypeOK
<1>1. (\E x : Note(x)) => Noted
  BY <1>0 DEF Note, Noted
<1>2. CASE BackendStep
  BY <1>1, <1>2 DEF BackendStep, Look, Cancel, Stop, StopRound, Cut, Restart, Send, FinishSaved,
              Launch, Resume, Delete, Watch
<1>3. CASE \E p \in Pids : WorkerStep(p)
  BY <1>1, <1>3 DEF WorkerStep, Begin, BeginResumed, Open, Event, SaveTask, Complete, Halt, Quit,
              Suspend, Close, Clean, Leave, Crash, Watch
<1> QED BY <1>2, <1>3 DEF Next, vars

\* What is weak stays so.
LEMMA Marked ==
    ASSUME TypeOK, [Next]_vars
    PROVE  weak' \in BOOLEAN /\ (weak => weak')
<1>0. weak \in BOOLEAN
  BY DEF TypeOK
<1>1. CASE BackendStep
  BY <1>0, <1>1 DEF BackendStep, Look, Cancel, Stop, StopRound, Cut, Restart, Send, FinishSaved,
              Launch, Resume, Delete, Weak
<1>2. ASSUME NEW p \in Pids, Begin(p) \/ BeginResumed(p)
      PROVE  weak' \in BOOLEAN /\ (weak => weak')
  BY <1>0, <1>2 DEF Begin, BeginResumed, Weak
<1>4. ASSUME NEW p \in Pids, Open(p) \/ Event(p) \/ Complete(p) \/ Halt(p) \/ Clean(p)
      PROVE  weak' \in BOOLEAN /\ (weak => weak')
  BY <1>0, <1>4 DEF Open, Event, Complete, Halt, Clean, Weak
<1>5. ASSUME NEW p \in Pids, SaveTask(p) \/ Quit(p) \/ Suspend(p) \/ Close(p) \/ Leave(p) \/ Crash(p)
      PROVE  weak' \in BOOLEAN /\ (weak => weak')
  BY <1>0, <1>5 DEF SaveTask, Quit, Suspend, Close, Leave, Crash
<1>3. CASE UNCHANGED vars
  BY <1>0, <1>3 DEF vars, ghosts
<1> QED BY <1>1, <1>2, <1>3, <1>4, <1>5 DEF Next, WorkerStep

\* The rounds of a history are rounds.
LEMMA IdsAreRounds ==
    ASSUME NEW h \in Seq(Entry) PROVE Ids(h) \subseteq Rounds
<1>1. \A i \in 1..Len(h) : h[i] \in Entry
  BY ElementOfSeq
<1> QED BY <1>1 DEF Ids, Entry

\* The marks only grow, and a round that leaves the history is marked.
LEMMA GhostTypes ==
    ASSUME TypeOK, [Next]_vars
    PROVE  /\ gone' \subseteq Rounds /\ stale' \in BOOLEAN /\ (stale => stale')
           /\ gone \subseteq gone' /\ Ids(history) \subseteq Ids(history') \union gone'
           /\ failed' \in BOOLEAN /\ (failed => failed')
           /\ ~stale' => Noted \/ UNCHANGED vars
<1>1. history \in Seq(Entry) /\ gone \subseteq Rounds /\ stale \in BOOLEAN /\ failed \in BOOLEAN
  BY DEF TypeOK
<1>2. Ids(history) \subseteq Rounds
  BY <1>1, IdsAreRounds
<1>3. CASE Noted
  BY <1>1, <1>2, <1>3 DEF Noted
<1>4. CASE UNCHANGED vars
  <2>1. Ids(history') = Ids(history)
    BY <1>4 DEF vars, files, Ids
  <2> QED BY <1>1, <1>4, <2>1 DEF vars, ghosts
<1> QED BY <1>3, <1>4, Watched

\* What is sure after a step was sure before it.
LEMMA Surely ==
    ASSUME TypeOK, [Next]_vars, Sure'
    PROVE  Sure
  BY Marked, GhostTypes DEF Sure

-----------------------------------------------------------------------------
(* Types.                                                                  *)

\* What a write leaves has its types, and brings in only its round.
LEMMA WrittenTypes ==
    ASSUME TypeOK, NEW f, NEW r, NEW place, Written(f, r, place)
    PROVE  /\ f.history \in Seq(Entry) /\ f.pend \in Pends
           /\ Ids(f.history) \subseteq Ids(history) \union {r} /\ r \in Ids(f.history)
<1>1. /\ history \in Seq(Entry) /\ pend \in Pends /\ NoPend \in Pends
      /\ r \in Rounds /\ place \in Places /\ f.history \in Put(history, r, place)
      /\ f.pend \in {NoPend, pend}
  BY DEF TypeOK, Pends, Written
<1>2. PICK g \in Put(history, r, place) : g = f.history
  BY <1>1
<1>3. g \in Seq(Entry) /\ Ids(g) \subseteq Ids(history) \union {r} /\ r \in Ids(g)
  BY <1>1, <1>2, PutShape, PutIds
<1> QED BY <1>1, <1>2, <1>3

\* What a deletion leaves has its types, and brings in nothing.
LEMMA CutTypes ==
    ASSUME TypeOK, StepInv, Cut
    PROVE  /\ op.cut.at \in 1..MaxRounds
           /\ history' \in Seq(Entry) /\ Ids(history') \subseteq Ids(history)
           /\ \/ history' = history
              \/ /\ op.cut.at <= Len(history)
                 /\ op.cut.all => history' = SubSeq(history, 1, op.cut.at - 1)
                 /\ ~op.cut.all => history' = S!RemoveAt(history, op.cut.at)
<1>1. history \in Seq(Entry) /\ Len(history) \in Nat
  BY LenProperties DEF TypeOK
<1>2. op.cut \in [at : 1..MaxRounds, all : BOOLEAN, named : Rounds]
  BY DEF TypeOK, Cuts, StepInv, Cut
<1>3. PICK n \in 1..MaxRounds : n = op.cut.at
  BY <1>2
<1>4. CASE history' = history
  <2>1. Ids(history') = Ids(history)
    BY <1>4 DEF Ids
  <2> QED BY <1>1, <1>2, <1>4, <2>1
<1>5. CASE n <= Len(history) /\ op.cut.all /\ history' = SubSeq(history, 1, n - 1)
  <2>1. n \in Nat /\ n - 1 <= Len(history)
    BY <1>1, <1>3, <1>5, BoundIsNat
  <2>2. /\ SubSeq(history, 1, n - 1) \in Seq(Entry)
        /\ Len(SubSeq(history, 1, n - 1)) = n - 1
        /\ \A i \in 1..(n - 1) : SubSeq(history, 1, n - 1)[i] = history[i]
    BY <1>1, <2>1, <1>3, SubSeqProperties
  <2>3. \A i \in 1..Len(history') : i \in 1..Len(history) /\ history'[i] = history[i]
    BY <1>1, <1>5, <2>1, <2>2
  <2>4. Ids(history') \subseteq Ids(history)
    BY <2>3 DEF Ids
  <2> QED BY <1>2, <1>3, <1>5, <2>2, <2>4
<1>6. CASE n <= Len(history) /\ ~op.cut.all /\ history' = S!RemoveAt(history, n)
  <2>1. n \in 1..Len(history)
    BY <1>1, <1>3, <1>6, BoundIsNat
  <2>2. /\ S!RemoveAt(history, n) \in Seq(Entry)
        /\ Len(S!RemoveAt(history, n)) = Len(history) - 1
        /\ \A i \in 1..(Len(history) - 1) :
             S!RemoveAt(history, n)[i] = IF i < n THEN history[i] ELSE history[i + 1]
    BY <1>1, <2>1, Removed
  <2>3. \A i \in 1..Len(history') : \E j \in 1..Len(history) : history'[i] = history[j]
    <3> TAKE i \in 1..Len(history')
    <3>1. i \in 1..(Len(history) - 1) /\ i \in 1..Len(history) /\ i + 1 \in 1..Len(history)
      BY <1>1, <1>6, <2>2
    <3> QED BY <1>6, <2>2, <3>1
  <2>4. Ids(history') \subseteq Ids(history)
    BY <2>3 DEF Ids
  <2> QED BY <1>2, <1>3, <1>6, <2>2, <2>4
<1> QED BY <1>2, <1>3, <1>4, <1>5, <1>6 DEF Cut

\* Every step leaves a history and a checkpoint of their types.
LEMMA FileTypes ==
    ASSUME TypeOK, StepInv, [Next]_vars
    PROVE  history' \in Seq(Entry) /\ pend' \in Pends
<1>0. history \in Seq(Entry) /\ pend \in Pends /\ NoPend \in Pends
  BY DEF TypeOK, Pends
<1>1. CASE UNCHANGED files
  BY <1>0, <1>1 DEF files
<1>2. ASSUME NEW r, NEW place, Written(Now, r, place) PROVE history' \in Seq(Entry) /\ pend' \in Pends
  BY <1>2, WrittenTypes DEF Now
<1>3. Cleared(Now) => history' \in Seq(Entry) /\ pend' \in Pends
  BY <1>0 DEF Cleared, Now
<1>4. ByCheckpoint => history' \in Seq(Entry) /\ pend' \in Pends
  BY <1>2, <1>3 DEF ByCheckpoint
<1>5. ASSUME NEW p \in Pids, Open(p) PROVE history' \in Seq(Entry) /\ pend' \in Pends
  <2>1. worker[p].run \in Rounds /\ worker[p].place \in Places
    BY <1>5, WorkerTypes, BoundIsNat DEF Open, At, StepInv
  <2>2. Checkpoint(p, worker[p].run, p) \in Pends
    BY <2>1 DEF Checkpoint, Pends
  <2> QED BY <1>0, <1>5, <2>2 DEF Open
<1>6. ASSUME NEW p \in Pids, Event(p) PROVE history' \in Seq(Entry) /\ pend' \in Pends
  <2>1. worker[p].round \in Rounds /\ worker[p].place \in Places /\ worker[p].pid \in Pids
    BY <1>6, WorkerTypes, BoundIsNat DEF Event, At, StepInv
  <2>2. Checkpoint(p, worker[p].round, worker[p].pid) \in Pends
    BY <2>1 DEF Checkpoint, Pends
  <2> QED BY <1>0, <1>6, <2>2 DEF Event
<1>7. ASSUME NEW p \in Pids, ByWorker(p) PROVE history' \in Seq(Entry) /\ pend' \in Pends
  BY <1>2, <1>7 DEF ByWorker
<1>8. ASSUME NEW t \in Rounds, BySaved(t) PROVE history' \in Seq(Entry) /\ pend' \in Pends
  BY <1>2, <1>8 DEF BySaved
<1>9. Cut /\ UNCHANGED pend => history' \in Seq(Entry) /\ pend' \in Pends
  BY <1>0, CutTypes
<1> QED BY <1>0, <1>1, <1>4, <1>5, <1>6, <1>7, <1>8, <1>9, FilesChange

-----------------------------------------------------------------------------
Requested == [place : Places, aim : 0..MaxRounds, asked : BOOLEAN]

Operation ==
    [kind : {"none", "send", "stop", "cut"}, run : 0..MaxRounds, done : 0..MaxRounds, cut : Cuts]

\* The variables but the files and the marks.
RestTypes ==
    /\ task \in [Rounds -> TaskRow]
    /\ ask \in [Rounds -> Requested]
    /\ worker \in [Pids -> Generation]
    /\ proxy \in Pids \union {"nobody"}
    /\ main \in [made : BOOLEAN, place : Places]
    /\ op \in Operation
    /\ saved \subseteq Rounds

\* TypeOK is that of the files and that of the rest.
LEMMA RestOfTypes == TypeOK => RestTypes
  BY DEF TypeOK, RestTypes, Requested, Operation

\* A worker without a generation.
LEMMA BlankTypes == \A life \in {"new", "alive", "dead"} : Blank(life) \in Generation
  <1>1. End \in Places /\ 0 \in 0..MaxRounds /\ "idle" \in Steps
    BY RoundAssumption DEF Places, Steps
  <1> QED BY <1>1 DEF Blank, Generation

\* The operations of the backend.
LEMMA OperationTypes ==
    /\ NoOp \in Operation
    /\ \A r \in Rounds : [NoOp EXCEPT !.kind = "send", !.run = r] \in Operation
    /\ \A kind \in {"none", "send", "stop", "cut"}, c \in Cuts :
         [NoOp EXCEPT !.kind = kind, !.cut = c] \in Operation
    /\ [NoOp EXCEPT !.kind = "stop"] \in Operation
  <1>1. 0 \in 0..MaxRounds /\ Rounds \subseteq 0..MaxRounds /\ NoCut \in Cuts
    BY RoundAssumption DEF Rounds, Cuts
  <1> QED BY <1>1 DEF NoOp, Operation

\* A worker goes on; the others do not.
LEMMA Generated ==
    ASSUME TypeOK, NEW p \in Pids, NEW g, Generates(p, g)
    PROVE  /\ worker'[p] = g /\ \A q \in Pids : q # p => worker'[q] = worker[q]
           /\ g \in Generation => worker' \in [Pids -> Generation]
<1>1. worker \in [Pids -> Generation]
  BY DEF TypeOK
<1>2. worker' = [worker EXCEPT ![p] = g]
  BY DEF Generates
<1> QED BY <1>1, <1>2

\* The records that the steps give a worker.
LEMMA ExceptTypes ==
    ASSUME TypeOK, NEW p \in Pids, NEW step \in Steps, NEW round \in 0..MaxRounds,
           NEW place \in Places, NEW pid \in Pids
    PROVE  /\ [worker[p] EXCEPT !.step = step, !.place = place] \in Generation
           /\ [worker[p] EXCEPT !.step = step, !.round = round, !.place = place] \in Generation
           /\ [worker[p] EXCEPT !.step = step, !.round = round, !.pid = pid] \in Generation
           /\ [worker[p] EXCEPT !.step = step, !.place = place, !.round = round, !.pid = pid]
                  \in Generation
           /\ [worker[p] EXCEPT !.step = step] \in Generation
           /\ [Blank("alive") EXCEPT !.kept = TRUE, !.place = place] \in Generation
<1>1. worker[p] \in Generation
  BY DEF TypeOK
<1>2. Blank("alive") \in Generation
  BY BlankTypes
<1>3. PICK w \in Generation : w = worker[p]
  BY <1>1
<1>4. PICK b \in Generation : b = Blank("alive")
  BY <1>2
<1>5. [b EXCEPT !.kept = TRUE, !.place = place] \in Generation
  BY DEF Generation
<1>6. [w EXCEPT !.step = step, !.place = place] \in Generation
  BY DEF Generation
<1>7. [w EXCEPT !.step = step, !.round = round, !.place = place] \in Generation
  BY DEF Generation
<1>8. [w EXCEPT !.step = step, !.round = round, !.pid = pid] \in Generation
  BY DEF Generation
<1>9. [w EXCEPT !.step = step, !.place = place, !.round = round, !.pid = pid] \in Generation
  BY DEF Generation
<1>10. [w EXCEPT !.step = step] \in Generation
  BY DEF Generation
<1> QED BY <1>3, <1>4, <1>5, <1>6, <1>7, <1>8, <1>9, <1>10

\* One row of the ledger is written.
LEMMA TaskSet ==
    ASSUME TypeOK, NEW r \in Rounds, NEW row \in TaskRow, task' = [task EXCEPT ![r] = row]
    PROVE  /\ task' \in [Rounds -> TaskRow] /\ task'[r] = row
           /\ \A t \in Rounds : t # r => task'[t] = task[t]
  BY DEF TypeOK

\* A row of the ledger changed in its fields.
LEMMA RowTypes ==
    ASSUME TypeOK, NEW r \in Rounds, NEW round \in 0..MaxRounds,
           NEW owner \in Pids \union {"backend", "nobody"}, NEW state \in TaskStates
    PROVE  /\ [task[r] EXCEPT !.owner = owner] \in TaskRow
           /\ [task[r] EXCEPT !.round = round] \in TaskRow
           /\ [task[r] EXCEPT !.state = state] \in TaskRow
           /\ [task[r] EXCEPT !.state = state, !.owner = owner] \in TaskRow
           /\ [state |-> state, owner |-> owner, round |-> round] \in TaskRow
<1>1. PICK w \in TaskRow : w = task[r]
  BY DEF TypeOK
<1>2. [w EXCEPT !.owner = owner] \in TaskRow /\ [w EXCEPT !.round = round] \in TaskRow
  BY DEF TaskRow
<1>3. [w EXCEPT !.state = state] \in TaskRow
  BY DEF TaskRow
<1>5. [w EXCEPT !.state = state, !.owner = owner] \in TaskRow
  BY DEF TaskRow
<1>4. [state |-> state, owner |-> owner, round |-> round] \in TaskRow
  BY DEF TaskRow
<1> QED BY <1>1, <1>2, <1>3, <1>4, <1>5

\* The sweep suspends tasks and does nothing else.
LEMMA SweptTypes ==
    ASSUME TypeOK
    PROVE  /\ Sweeped \in [Rounds -> TaskRow]
           /\ \A r \in Rounds :
                /\ Sweeped[r].round = task[r].round /\ Sweeped[r].owner = task[r].owner
                /\ Sweeped[r].state = IF task[r].state = "running" /\ ~Alive(task[r].owner)
                                      THEN "suspended" ELSE task[r].state
<1>1. ASSUME NEW r \in Rounds
      PROVE  /\ Sweeped[r] \in TaskRow
             /\ Sweeped[r].round = task[r].round /\ Sweeped[r].owner = task[r].owner
             /\ Sweeped[r].state = IF task[r].state = "running" /\ ~Alive(task[r].owner)
                                   THEN "suspended" ELSE task[r].state
  <2>1. PICK w \in TaskRow : w = task[r]
    BY DEF TypeOK
  <2>2. [w EXCEPT !.state = "suspended"] \in TaskRow
    BY DEF TaskRow, TaskStates
  <2>3. /\ [w EXCEPT !.state = "suspended"].round = w.round
        /\ [w EXCEPT !.state = "suspended"].owner = w.owner
        /\ [w EXCEPT !.state = "suspended"].state = "suspended"
    BY DEF TaskRow
  <2>4. Sweeped[r] = IF task[r].state = "running" /\ ~Alive(task[r].owner)
                     THEN [w EXCEPT !.state = "suspended"] ELSE w
    BY <2>1 DEF Sweeped
  <2> QED BY <2>1, <2>2, <2>3, <2>4
<1> QED BY <1>1 DEF Sweeped

-----------------------------------------------------------------------------
\* A step of a worker keeps the types.
LEMMA WorkerStepTypes ==
    ASSUME TypeOK, StepInv, NEW p \in Pids, WorkerStep(p)
    PROVE  RestTypes'
<1> USE RestOfTypes
<1>0. /\ worker[p] \in Generation /\ worker[p].run \in 0..MaxRounds
      /\ worker[p].round \in 0..MaxRounds /\ worker[p].place \in Places
      /\ worker[p].run # 0 => worker[p].run \in Rounds
      /\ worker[p].round # 0 => worker[p].round \in Rounds
  BY WorkerTypes, BoundIsNat DEF TypeOK
<1>a. /\ Blank("alive") \in Generation /\ Blank("dead") \in Generation
      /\ End \in Places /\ Steps \subseteq Steps /\ 0 \in 0..MaxRounds
      /\ Rest(history, worker[p].place) \in Places
  <2>1. Blank("alive") \in Generation /\ Blank("dead") \in Generation
    BY BlankTypes
  <2>2. End \in Places /\ 0 \in 0..MaxRounds
    BY BoundIsNat DEF Places
  <2>3. Rest(history, worker[p].place) \in Places
    BY <1>0, PlaceTypes
  <2> QED BY <2>1, <2>2, <2>3
<1>b. worker[p].step # "idle" => worker[p].life = "alive" /\ worker[p].run # 0
  BY DEF StepInv
<1>1. CASE Begin(p)
  <2> DEFINE r == worker[p].run
  <2>1. r \in Rounds
    BY <1>0, <1>1, <1>b DEF Begin, At
  <2>2. PICK f \in BeginManagers(p) :
          /\ f.ok => /\ Generates(p, [worker[p] EXCEPT !.step = "begun",
                                  !.place = IF ask[r].place = End THEN f.place ELSE ask[r].place])
                     /\ task' = [task EXCEPT ![r] = [state |-> "running", owner |-> p, round |-> 0]]
          /\ ~f.ok => Idle(p) /\ UNCHANGED task
    BY <1>1 DEF Begin
  <2>3. f.place \in Places
    <3>1. CASE worker[p].kept
      BY <1>0, <2>2, <3>1 DEF BeginManagers
    <3>2. CASE ~worker[p].kept
      <4>1. f \in Recover(End)
        BY <2>2, <3>2 DEF BeginManagers
      <4> QED BY <1>a, <4>1, Recovering
    <3> QED BY <3>1, <3>2
  <2>4. PICK place \in Places : place = IF ask[r].place = End THEN f.place ELSE ask[r].place
    BY <2>1, <2>3, TaskTypes
  <2>5. UNCHANGED <<ask, proxy, main, op, saved>>
    BY <1>1 DEF Begin
  <2>6. CASE f.ok
    <3>1. Generates(p, [worker[p] EXCEPT !.step = "begun", !.place = place])
      BY <2>2, <2>4, <2>6
    <3>2. "begun" \in Steps /\ "running" \in TaskStates
      BY DEF Steps, TaskStates
    <3>3. [worker[p] EXCEPT !.step = "begun", !.place = place] \in Generation
      BY <1>a, <3>2, ExceptTypes
    <3>4. [state |-> "running", owner |-> p, round |-> 0] \in TaskRow
      BY <1>a, <2>1, <3>2, RowTypes
    <3>5. task' \in [Rounds -> TaskRow]
      <4> HIDE DEF r
      <4>1. PICK row \in TaskRow : row = [state |-> "running", owner |-> p, round |-> 0]
        BY <3>4
      <4>2. task' = [task EXCEPT ![r] = row]
        BY <2>2, <2>6, <4>1
      <4> QED BY <2>1, <4>2, TaskSet
    <3>6. worker' \in [Pids -> Generation]
      BY <3>1, <3>3, Generated
    <3> QED BY <2>5, <3>5, <3>6 DEF RestTypes
  <2>7. CASE ~f.ok
    <3>1. worker' \in [Pids -> Generation]
      BY <1>a, <2>2, <2>7, Generated DEF Idle
    <3> QED BY <2>2, <2>5, <2>7, <3>1 DEF RestTypes
  <2> QED BY <2>6, <2>7
<1>2. CASE BeginResumed(p)
  <2> DEFINE r == worker[p].run
             place == IF ask[r].place = End THEN worker[p].place ELSE ask[r].place
             round == IF pend # NoPend THEN pend.id ELSE task[r].round
             pid == IF pend # NoPend THEN pend.pid ELSE p
  <2>1. r \in Rounds
    BY <1>0, <1>2, <1>b DEF BeginResumed, At
  <2>2. place \in Places /\ round \in 0..MaxRounds /\ pid \in Pids
    BY <1>0, <2>1, TaskTypes, PendTypes, BoundIsNat
  <2>5. UNCHANGED <<ask, proxy, main, op, saved>>
    BY <1>2 DEF BeginResumed
  <2>6. CASE task[r].state = "running"
    <3>1. Generates(p, [worker[p] EXCEPT !.step = "open", !.place = place, !.round = round, !.pid = pid])
      BY <1>2, <2>6 DEF BeginResumed
    <3> HIDE DEF place, round, pid
    <3>3. [worker[p] EXCEPT !.step = "open", !.place = place, !.round = round, !.pid = pid]
             \in Generation
      <4>1. "open" \in Steps
        BY DEF Steps
      <4> QED BY <2>2, <4>1, ExceptTypes
    <3>4. worker' \in [Pids -> Generation]
      BY <3>1, <3>3, Generated
    <3>5. task' = [task EXCEPT ![r] = [task[r] EXCEPT !.owner = p]]
      BY <1>2, <2>6 DEF BeginResumed
    <3>6. [task[r] EXCEPT !.owner = p] \in TaskRow
      <4> HIDE DEF r
      <4>1. "none" \in TaskStates
        BY DEF TaskStates
      <4> QED BY <1>a, <2>1, <4>1, RowTypes
    <3>7. task' \in [Rounds -> TaskRow]
      <4> HIDE DEF r
      <4>1. PICK row \in TaskRow : row = [task[r] EXCEPT !.owner = p]
        BY <3>6
      <4>2. task' = [task EXCEPT ![r] = row]
        BY <3>5, <4>1
      <4> QED BY <2>1, <4>2, TaskSet
    <3> QED BY <2>5, <3>4, <3>7 DEF RestTypes
  <2>7. CASE task[r].state # "running"
    <3>1. Idle(p) /\ UNCHANGED task
      BY <1>2, <2>7 DEF BeginResumed
    <3>2. worker' \in [Pids -> Generation]
      BY <1>a, <3>1, Generated DEF Idle
    <3> QED BY <2>5, <3>1, <3>2 DEF RestTypes
  <2> QED BY <2>6, <2>7
<1>3. CASE Open(p)
  <2>1. worker[p].run \in Rounds /\ "open" \in Steps
    BY <1>0, <1>3, <1>b DEF Open, At, Steps
  <2>2. Generates(p, [worker[p] EXCEPT !.step = "open", !.round = worker[p].run, !.pid = p])
    BY <1>3 DEF Open
  <2>3. [worker[p] EXCEPT !.step = "open", !.round = worker[p].run, !.pid = p] \in Generation
    BY <1>0, <2>1, ExceptTypes
  <2>4. worker' \in [Pids -> Generation]
    BY <2>2, <2>3, Generated
  <2>5. saved' \subseteq Rounds
    BY <1>3, <2>1 DEF Open, TypeOK
  <2>6. UNCHANGED <<task, ask, proxy, main, op>>
    BY <1>3 DEF Open
  <2> QED BY <2>4, <2>5, <2>6 DEF RestTypes
<1>4. CASE Event(p)
  <2>1. worker[p].round \in Rounds
    BY <1>0, <1>4 DEF Event
  <2> QED BY <1>4, <2>1 DEF Event, RestTypes
<1>5. CASE SaveTask(p)
  <2> DEFINE r == worker[p].run
  <2>1. r \in Rounds
    BY <1>0, <1>5, <1>b DEF SaveTask, At
  <2>2. task' = [task EXCEPT ![r] = [task[r] EXCEPT !.round = worker[p].round]]
    BY <1>5 DEF SaveTask
  <2> HIDE DEF r
  <2>3. [task[r] EXCEPT !.round = worker[p].round] \in TaskRow
    <3>1. "none" \in TaskStates
      BY DEF TaskStates
    <3> QED BY <1>0, <2>1, <3>1, RowTypes
  <2>4. task' \in [Rounds -> TaskRow]
    <3>1. PICK row \in TaskRow : row = [task[r] EXCEPT !.round = worker[p].round]
      BY <2>3
    <3>2. task' = [task EXCEPT ![r] = row]
      BY <2>2, <3>1
    <3> QED BY <2>1, <3>2, TaskSet
  <2>5. UNCHANGED <<ask, worker, proxy, main, op, saved>>
    BY <1>5 DEF SaveTask
  <2> QED BY <2>4, <2>5 DEF RestTypes
<1>6. ASSUME NEW round \in 0..MaxRounds, NEW place \in Places, Ending(p, round, place)
      PROVE  worker' \in [Pids -> Generation]
  <2>1. [worker[p] EXCEPT !.step = "closing", !.round = round, !.place = place] \in Generation
    <3>1. "closing" \in Steps
      BY DEF Steps
    <3> QED BY <1>6, <3>1, ExceptTypes
  <2> QED BY <1>6, <2>1, Generated DEF Ending
<1>7. CASE Complete(p) \/ Halt(p)
  <2>1. PICK place \in Places : place = Rest(history, worker[p].place)
    BY <1>a
  <2>2. Ending(p, 0, place) /\ UNCHANGED <<task, ask, proxy, main, op, saved>>
    BY <1>7, <2>1 DEF Complete, Halt
  <2>3. worker' \in [Pids -> Generation]
    BY <1>6, <1>a, <2>2
  <2> QED BY <2>2, <2>3 DEF RestTypes
<1>8. CASE Quit(p)
  <2>3. worker' \in [Pids -> Generation]
    BY <1>0, <1>6, <1>8 DEF Quit
  <2> QED BY <1>8, <2>3 DEF Quit, RestTypes
<1>9. CASE Suspend(p)
  <2> DEFINE r == worker[p].run
  <2>1. r \in Rounds
    BY <1>0, <1>9, <1>b DEF Suspend
  <2>2. worker' \in [Pids -> Generation]
    BY <1>0, <1>6, <1>9 DEF Suspend
  <2>3. task' = [task EXCEPT ![r] = [task[r] EXCEPT !.state = "suspended"]]
    BY <1>9 DEF Suspend
  <2>4. UNCHANGED <<ask, proxy, main, op, saved>>
    BY <1>9 DEF Suspend
  <2> HIDE DEF r
  <2>5. [task[r] EXCEPT !.state = "suspended"] \in TaskRow
    <3>1. "suspended" \in TaskStates
      BY DEF TaskStates
    <3> QED BY <1>a, <2>1, <3>1, RowTypes
  <2>6. task' \in [Rounds -> TaskRow]
    <3>1. PICK row \in TaskRow : row = [task[r] EXCEPT !.state = "suspended"]
      BY <2>5
    <3>2. task' = [task EXCEPT ![r] = row]
      BY <2>3, <3>1
    <3> QED BY <2>1, <3>2, TaskSet
  <2> QED BY <2>2, <2>4, <2>6 DEF RestTypes
<1>10. CASE Close(p)
  <2> DEFINE r == worker[p].run
             state == IF task[r].state = "suspended" THEN task[r].state ELSE "ended"
  <2>1. r \in Rounds
    BY <1>0, <1>10, <1>b DEF Close, At
  <2>2. worker' \in [Pids -> Generation]
    <3>1. CASE Idle(p)
      BY <1>a, <3>1, Generated DEF Idle
    <3>2. CASE Generates(p, [worker[p] EXCEPT !.step = "closed"])
      <4>1. "closed" \in Steps
        BY DEF Steps
      <4>2. [worker[p] EXCEPT !.step = "closed"] \in Generation
        BY <1>a, <4>1, ExceptTypes
      <4> QED BY <3>2, <4>2, Generated
    <3> QED BY <1>10, <3>1, <3>2 DEF Close
  <2>3. task' = [task EXCEPT ![r] = [task[r] EXCEPT !.state = state]]
    BY <1>10 DEF Close
  <2>4. UNCHANGED <<ask, proxy, main, op, saved>>
    BY <1>10 DEF Close
  <2>5. state \in TaskStates
    BY DEF TaskStates
  <2> HIDE DEF r, state
  <2>6. [task[r] EXCEPT !.state = state] \in TaskRow
    BY <1>a, <2>1, <2>5, RowTypes
  <2>7. task' \in [Rounds -> TaskRow]
    <3>1. PICK row \in TaskRow : row = [task[r] EXCEPT !.state = state]
      BY <2>6
    <3>2. task' = [task EXCEPT ![r] = row]
      BY <2>3, <3>1
    <3> QED BY <2>1, <3>2, TaskSet
  <2> QED BY <2>2, <2>4, <2>7 DEF RestTypes
<1>11. CASE Clean(p)
  <2>1. PICK place \in Places : place = Rest(history, worker[p].place)
    BY <1>a
  <2>2. /\ Idle(p) \/ Generates(p, [Blank("alive") EXCEPT !.kept = TRUE, !.place = place])
        /\ UNCHANGED <<task, ask, proxy, main, op, saved>>
    BY <1>11, <2>1 DEF Clean
  <2>3. "idle" \in Steps
    BY DEF Steps
  <2>4. [Blank("alive") EXCEPT !.kept = TRUE, !.place = place] \in Generation
    BY <1>a, <2>3, ExceptTypes
  <2>5. worker' \in [Pids -> Generation]
    BY <1>a, <2>2, <2>4, Generated DEF Idle
  <2> QED BY <2>2, <2>5 DEF RestTypes
<1>12. CASE Leave(p) \/ Crash(p)
  <2>1. worker' \in [Pids -> Generation]
    BY <1>12, <1>a, Generated DEF Leave, Crash
  <2> QED BY <1>12, <2>1 DEF Leave, Crash, RestTypes
<1> QED BY <1>1, <1>2, <1>3, <1>4, <1>5, <1>7, <1>8, <1>9, <1>10, <1>11, <1>12 DEF WorkerStep

-----------------------------------------------------------------------------
\* A request that is dispatched keeps the types.
LEMMA Dispatched ==
    ASSUME TypeOK, NEW p \in Pids, NEW r \in Rounds, NEW resumed \in BOOLEAN, Dispatch(p, r, resumed)
    PROVE  /\ proxy' = p /\ worker' \in [Pids -> Generation]
           /\ \A q \in Pids : q # p => worker'[q] = worker[q]
           /\ worker'[p] = [worker[p] EXCEPT !.life = "alive", !.step = "begin",
                                             !.run = r, !.resumed = resumed]
<1>1. PICK w \in Generation : w = worker[p]
  BY DEF TypeOK
<1>2. r \in 0..MaxRounds /\ "begin" \in Steps
  BY BoundIsNat DEF Steps
<1>3. [w EXCEPT !.life = "alive", !.step = "begin", !.run = r, !.resumed = resumed] \in Generation
  BY <1>2 DEF Generation
<1>4. worker' = [worker EXCEPT ![p] = [w EXCEPT !.life = "alive", !.step = "begin",
                                          !.run = r, !.resumed = resumed]]
  BY <1>1 DEF Dispatch
<1>5. worker \in [Pids -> Generation]
  BY DEF TypeOK
<1> QED BY <1>1, <1>3, <1>4, <1>5 DEF Dispatch

\* The rounds that a deletion is shown are rounds.
LEMMA ShownTypes ==
    ASSUME TypeOK, NEW n \in 1..Len(Shown)
    PROVE  Shown[n].id \in Rounds
<1>1. history \in Seq(Entry) /\ Len(history) \in Nat
  BY LenProperties DEF TypeOK
<1> DEFINE extra == {r \in Unfinished : ~Recorded(r)}
<1>2. CASE extra = {}
  <2>1. Shown = history
    BY <1>2 DEF Shown
  <2>2. history[n] \in Entry
    BY <1>1, <2>1, ElementOfSeq
  <2> QED BY <2>1, <2>2 DEF Entry
<1>3. CASE extra # {}
  <2>1. extra \subseteq Rounds
    BY TaskTypes, BoundIsNat DEF Unfinished
  <2>2. \E x \in extra : \A y \in extra : x >= y
    <3>1. extra \subseteq 1..MaxRounds /\ MaxRounds \in Nat
      BY <2>1, BoundIsNat DEF Rounds
    <3> HIDE DEF extra
    <3> QED BY <1>3, <3>1, Largest
  <2> DEFINE c == CHOOSE r \in extra : \A q \in extra : r >= q
  <2>3. Shown = Append(history, [id |-> c, at |-> 1])
    BY <1>3 DEF Shown
  <2> HIDE DEF extra
  <2>4. c \in Rounds
    BY <2>1, <2>2
  <2> HIDE DEF c
  <2>5. 1 \in Rounds
    BY <2>4, BoundIsNat
  <2>6. [id |-> c, at |-> 1] \in Entry
    BY <2>4, <2>5 DEF Entry
  <2>7. Shown \in Seq(Entry)
    <3>1. PICK e \in Entry : e = [id |-> c, at |-> 1]
      BY <2>6
    <3> QED BY <1>1, <2>3, <3>1, AppendProperties
  <2>8. Shown[n] \in Entry
    BY <2>7, ElementOfSeq
  <2> QED BY <2>8 DEF Entry
<1> QED BY <1>2, <1>3

\* A step of the backend keeps the types.
LEMMA BackendStepTypes ==
    ASSUME TypeOK, StepInv, BackendStep
    PROVE  RestTypes'
<1> USE RestOfTypes
<1>0. /\ op.run \in 0..MaxRounds /\ op.done \in 0..MaxRounds /\ op.cut \in Cuts
      /\ main.made \in BOOLEAN /\ main.place \in Places /\ End \in Places
      /\ op \in Operation /\ main \in [made : BOOLEAN, place : Places]
      /\ NoManager \in [made : BOOLEAN, place : Places]
  BY DEF TypeOK, Operation, Places, NoManager
<1>a. \A b \in BOOLEAN, place \in Places :
        [made |-> b, place |-> place] \in [made : BOOLEAN, place : Places]
  OBVIOUS
<1>b. \A place \in Places :
        [main EXCEPT !.place = place] \in [made : BOOLEAN, place : Places]
  BY <1>0
<1>c. /\ \A t \in 0..MaxRounds : [op EXCEPT !.done = t] \in Operation
      /\ [op EXCEPT !.kind = "cut"] \in Operation
  BY <1>0 DEF Operation
<1>1. CASE Look
  <2>1. PICK f \in Recover(End) : main' = IF f.ok THEN [made |-> TRUE, place |-> f.place] ELSE main
    BY <1>1 DEF Look
  <2>2. f.place \in Places
    BY <1>0, <2>1, Recovering
  <2>3. main' \in [made : BOOLEAN, place : Places]
    BY <1>0, <1>a, <2>1, <2>2
  <2>4. UNCHANGED <<task, ask, worker, proxy, op, saved>>
    BY <1>1 DEF Look
  <2> QED BY <2>3, <2>4 DEF RestTypes
<1>2. CASE Cancel
  <2> DEFINE r == op.done
  <2>1. r \in Rounds
    BY <1>0, <1>2, BoundIsNat DEF Cancel
  <2>2. task' = [task EXCEPT ![r] = [task[r] EXCEPT !.state = "ended"]]
    BY <1>2 DEF Cancel
  <2>3. op' \in Operation
    BY <1>2, <1>c, BoundIsNat DEF Cancel
  <2>4. UNCHANGED <<ask, worker, proxy, main, saved>>
    BY <1>2 DEF Cancel
  <2> HIDE DEF r
  <2>5. [task[r] EXCEPT !.state = "ended"] \in TaskRow
    <3>1. "ended" \in TaskStates /\ 0 \in 0..MaxRounds
      BY BoundIsNat DEF TaskStates
    <3> QED BY <2>1, <3>1, RowTypes
  <2>6. task' \in [Rounds -> TaskRow]
    <3>1. PICK row \in TaskRow : row = [task[r] EXCEPT !.state = "ended"]
      BY <2>5
    <3>2. task' = [task EXCEPT ![r] = row]
      BY <2>2, <3>1
    <3> QED BY <2>1, <3>2, TaskSet
  <2> QED BY <2>3, <2>4, <2>6 DEF RestTypes
<1>3. CASE Stop
  <2>1. task' \in [Rounds -> TaskRow]
    BY <1>3, SweptTypes DEF Stop
  <2>2. op' \in Operation
    BY <1>3, OperationTypes DEF Stop
  <2>3. UNCHANGED <<ask, worker, proxy, main, saved>>
    BY <1>3 DEF Stop
  <2> QED BY <2>1, <2>2, <2>3 DEF RestTypes
<1>4. CASE StopRound
  <2>1. PICK f \in Recoveries(main.place, FALSE) : main' = [main EXCEPT !.place = f.place]
    BY <1>4 DEF StopRound
  <2>2. f.place \in Places
    BY <1>0, <2>1, StopRecovering
  <2>3. main' \in [made : BOOLEAN, place : Places]
    BY <1>b, <2>1, <2>2
  <2>4. op' \in Operation
    BY <1>4, <1>c, OperationTypes DEF StopRound
  <2>5. UNCHANGED <<task, ask, worker, proxy, saved>>
    BY <1>4 DEF StopRound
  <2> QED BY <2>3, <2>4, <2>5 DEF RestTypes
<1>5. CASE Cut
  BY <1>5, OperationTypes DEF Cut, RestTypes
<1>6. ASSUME NEW r \in Rounds, task' = [q \in Rounds |-> IF task[q].owner = "backend"
                                        THEN [task[q] EXCEPT !.owner = "nobody"] ELSE task[q]]
      PROVE  task' \in [Rounds -> TaskRow]
  <2>1. ASSUME NEW q \in Rounds PROVE [task[q] EXCEPT !.owner = "nobody"] \in TaskRow
    <3>1. PICK w \in TaskRow : w = task[q]
      BY DEF TypeOK
    <3>2. [w EXCEPT !.owner = "nobody"] \in TaskRow
      BY DEF TaskRow
    <3> QED BY <3>1, <3>2
  <2> QED BY <1>6, <2>1 DEF TypeOK
<1>7. CASE Restart
  <2>1. task' \in [Rounds -> TaskRow]
    <3>1. CASE Rounds = {}
      BY <1>7, <3>1 DEF Restart
    <3> QED BY <1>6, <1>7, <3>1 DEF Restart
  <2> QED BY <1>0, <1>7, <2>1, OperationTypes DEF Restart, RestTypes
<1>8. ASSUME NEW r \in Rounds, NEW place \in Places, Send(r, place)
      PROVE  RestTypes'
  <2>1. history \in Seq(Entry) /\ Len(history) \in Nat
    BY LenProperties DEF TypeOK
  <2>2. Aims(place) \in 0..MaxRounds
    <3>1. CASE place.how = "replace"
      <4>1. place.at \in 1..Len(history)
        BY <1>8, <3>1 DEF Send
      <4>2. PICK n \in 1..Len(history) : n = place.at
        BY <4>1
      <4>3. history[n] \in Entry
        BY <2>1, <4>2, ElementOfSeq
      <4>4. history[n].id \in 0..MaxRounds
        BY <4>3, BoundIsNat DEF Entry
      <4> QED BY <3>1, <4>2, <4>4 DEF Aims
    <3>2. CASE place.how # "replace"
      BY <3>2, BoundIsNat DEF Aims
    <3> QED BY <3>1, <3>2
  <2>3. PICK aim \in 0..MaxRounds : aim = Aims(place)
    BY <2>2
  <2>4. ask' = [ask EXCEPT ![r] = [place |-> place, aim |-> aim, asked |-> TRUE]]
    BY <1>8, <2>3 DEF Send
  <2>5. [place |-> place, aim |-> aim, asked |-> TRUE] \in Requested
    BY DEF Requested
  <2>6. ask' \in [Rounds -> Requested]
    BY <2>4, <2>5 DEF RestTypes
  <2>7. ASSUME NEW q \in Rounds
        PROVE  [Sweeped[q] EXCEPT !.owner = "backend"] \in TaskRow /\ Sweeped[q] \in TaskRow
    <3>1. PICK w \in TaskRow : w = Sweeped[q]
      BY SweptTypes
    <3>2. [w EXCEPT !.owner = "backend"] \in TaskRow
      BY DEF TaskRow
    <3> QED BY <3>1, <3>2
  <2>8. task' \in [Rounds -> TaskRow]
    BY <1>8, <2>7 DEF Send
  <2>9. op' \in Operation
    BY <1>8, OperationTypes DEF Send
  <2>10. UNCHANGED <<files, worker, proxy, main, saved>>
    BY <1>8 DEF Send
  <2> QED BY <2>6, <2>8, <2>9, <2>10 DEF RestTypes
<1>9. ASSUME NEW t \in Rounds, FinishSaved(t) PROVE RestTypes'
  <2>1. [op EXCEPT !.done = t] \in Operation
    BY <1>c, BoundIsNat
  <2>2. op' \in Operation
    BY <1>9, <2>1, OperationTypes DEF FinishSaved
  <2>3. Rest(history, SavedPlace(t)) \in Places
    BY <1>0, SavedPlaceTypes, PlaceTypes
  <2>4. main' \in [made : BOOLEAN, place : Places]
    <3>1. \/ main' = main \/ main' = [main EXCEPT !.place = Rest(history, SavedPlace(t))]
      BY <1>9 DEF FinishSaved
    <3> QED BY <1>0, <1>b, <2>3, <3>1
  <2>5. Released \in [Rounds -> TaskRow]
    <3>1. ASSUME NEW q \in Rounds
          PROVE  [task[q] EXCEPT !.state = "suspended", !.owner = "nobody"] \in TaskRow
      <4>1. "suspended" \in TaskStates /\ 0 \in 0..MaxRounds
        BY BoundIsNat DEF TaskStates
      <4> QED BY <4>1, RowTypes
    <3> QED BY <3>1 DEF Released, TypeOK
  <2>6. task' \in [Rounds -> TaskRow]
    <3>1. task' = task \/ task' = Released
      BY <1>9 DEF FinishSaved
    <3> QED BY <2>5, <3>1 DEF RestTypes
  <2>7. UNCHANGED <<ask, worker, proxy, saved>>
    BY <1>9 DEF FinishSaved
  <2> QED BY <2>2, <2>4, <2>6, <2>7 DEF RestTypes
<1>10. ASSUME NEW p \in Pids, Launch(p) PROVE RestTypes'
  <2>1. op.run \in Rounds
    BY <1>0, <1>10, BoundIsNat DEF Launch, StepInv
  <2>2. PICK r \in Rounds : r = op.run
    BY <2>1
  <2>3. proxy' = p /\ worker' \in [Pids -> Generation]
    BY <1>10, <2>2, Dispatched DEF Launch
  <2>4. PICK f \in Recover(main.place) : main' = [main EXCEPT !.place = f.place]
    BY <1>10 DEF Launch
  <2>5. f.place \in Places
    BY <1>0, <2>4, Recovering
  <2>6. main' \in [made : BOOLEAN, place : Places]
    BY <1>b, <2>4, <2>5
  <2>7. op' \in Operation /\ UNCHANGED <<task, ask, saved>>
    BY <1>10, OperationTypes DEF Launch
  <2> QED BY <2>3, <2>6, <2>7 DEF RestTypes
<1>11. ASSUME NEW t \in Rounds, NEW p \in Pids, Resume(t, p) PROVE RestTypes'
  <2>1. proxy' = p /\ worker' \in [Pids -> Generation]
    BY <1>11, Dispatched DEF Resume
  <2>2. task' = [Sweeped EXCEPT ![t] = [Sweeped[t] EXCEPT !.state = "running", !.owner = "backend"]]
    <3>1. PICK m \in [Rounds -> TaskRow] : m = Sweeped
      BY SweptTypes
    <3>2. task' = [m EXCEPT ![t].state = "running", ![t].owner = "backend"]
      BY <1>11, <3>1 DEF Resume
    <3>3. [m EXCEPT ![t].state = "running", ![t].owner = "backend"] =
          [m EXCEPT ![t] = [m[t] EXCEPT !.state = "running", !.owner = "backend"]]
      OBVIOUS
    <3> QED BY <3>1, <3>2, <3>3
  <2>3. [Sweeped[t] EXCEPT !.state = "running", !.owner = "backend"] \in TaskRow
    <3>1. PICK w \in TaskRow : w = Sweeped[t]
      BY SweptTypes
    <3>2. [w EXCEPT !.state = "running", !.owner = "backend"] \in TaskRow
      BY DEF TaskRow, TaskStates
    <3> QED BY <3>1, <3>2
  <2>4. task' \in [Rounds -> TaskRow]
    BY <2>2, <2>3, SweptTypes
  <2>5. UNCHANGED <<files, ask, main, op, saved>>
    BY <1>11 DEF Resume
  <2> QED BY <2>1, <2>4, <2>5 DEF RestTypes
<1>12. ASSUME NEW n \in 1..MaxRounds, NEW all \in BOOLEAN, Delete(n, all) PROVE RestTypes'
  <2>1. Shown[n].id \in Rounds
    BY <1>12, ShownTypes DEF Delete
  <2>2. [at |-> n, all |-> all, named |-> Shown[n].id] \in Cuts
    BY <2>1 DEF Cuts
  <2>3. op' \in Operation
    <3>1. PICK c \in Cuts : c = [at |-> n, all |-> all, named |-> Shown[n].id]
      BY <2>2
    <3>2. op' = [NoOp EXCEPT !.kind = IF Restorable THEN "stop" ELSE "cut", !.cut = c]
      BY <1>12, <3>1 DEF Delete
    <3>3. PICK kind \in {"stop", "cut"} : kind = IF Restorable THEN "stop" ELSE "cut"
      OBVIOUS
    <3> QED BY <3>2, <3>3, OperationTypes
  <2>4. task' \in [Rounds -> TaskRow]
    BY <1>12, SweptTypes DEF Delete, RestTypes
  <2> QED BY <1>12, <2>3, <2>4 DEF Delete, RestTypes
<1> QED BY <1>1, <1>2, <1>3, <1>4, <1>5, <1>7, <1>8, <1>9, <1>10, <1>11, <1>12 DEF BackendStep

\* Every step keeps the types.
LEMMA TypeStep ==
    ASSUME TypeOK, StepInv, [Next]_vars
    PROVE  TypeOK'
<1>1. RestTypes'
  <2>1. CASE UNCHANGED vars
    BY <2>1, RestOfTypes DEF vars, ghosts, RestTypes
  <2> QED BY <2>1, WorkerStepTypes, BackendStepTypes DEF Next
<1>2. history' \in Seq(Entry) /\ pend' \in Pends
  BY FileTypes
<1>3. weak' \in BOOLEAN /\ gone' \subseteq Rounds /\ stale' \in BOOLEAN /\ failed' \in BOOLEAN
  BY Marked, GhostTypes
<1> QED BY <1>1, <1>2, <1>3 DEF TypeOK, RestTypes, Requested, Operation

-----------------------------------------------------------------------------
(* What the steps of a worker do to its record and to its task's row.      *)

Others(p) == \A q \in Pids : q # p => worker'[q] = worker[q]

Drops(p, life) ==
    /\ Others(p)
    /\ worker'[p].life = life /\ worker'[p].step = "idle" /\ worker'[p].run = 0
    /\ worker'[p].resumed = FALSE /\ worker'[p].round = 0
    /\ worker'[p].pid = "nobody" /\ (worker'[p].kept => Clean(p))

Goes(p, step, round, place, pid) ==
    /\ Others(p)
    /\ worker'[p].life = worker[p].life /\ worker'[p].run = worker[p].run
    /\ worker'[p].resumed = worker[p].resumed
    /\ worker'[p].step = step /\ worker'[p].round = round
    /\ worker'[p].place = place /\ worker'[p].pid = pid /\ worker'[p].kept = worker[p].kept

Rows(r, state, owner, round) ==
    /\ task'[r].state = state /\ task'[r].owner = owner /\ task'[r].round = round
    /\ \A t \in Rounds : t # r => task'[t] = task[t]

\* The fields of a worker without a generation.
LEMMA BlankFields ==
    \A life : /\ Blank(life).life = life /\ Blank(life).step = "idle" /\ Blank(life).run = 0
              /\ Blank(life).resumed = FALSE /\ Blank(life).round = 0 /\ Blank(life).place = End
              /\ Blank(life).pid = "nobody" /\ Blank(life).kept = FALSE
  BY DEF Blank

\* A generation that is dropped.
LEMMA Dropped ==
    ASSUME TypeOK, NEW p \in Pids, NEW life, Generates(p, Blank(life))
    PROVE  Drops(p, life) /\ worker'[p].place = End
  BY Generated, BlankFields DEF Drops, Others

\* A generation that goes on, field by field.
LEMMA Gone ==
    ASSUME TypeOK, NEW p \in Pids, NEW step, NEW round, NEW place, NEW pid
    PROVE  /\ Generates(p, [worker[p] EXCEPT !.step = step, !.place = place])
                  => Goes(p, step, worker[p].round, place, worker[p].pid)
           /\ Generates(p, [worker[p] EXCEPT !.step = step, !.round = round, !.place = place])
                  => Goes(p, step, round, place, worker[p].pid)
           /\ Generates(p, [worker[p] EXCEPT !.step = step, !.round = round, !.pid = pid])
                  => Goes(p, step, round, worker[p].place, pid)
           /\ Generates(p, [worker[p] EXCEPT !.step = step, !.place = place, !.round = round,
                                             !.pid = pid])
                  => Goes(p, step, round, place, pid)
           /\ Generates(p, [worker[p] EXCEPT !.step = step])
                  => Goes(p, step, worker[p].round, worker[p].place, worker[p].pid)
<1>1. PICK w \in Generation : w = worker[p]
  BY DEF TypeOK
<1>2. \A g : Generates(p, g) => worker'[p] = g /\ Others(p)
  BY Generated DEF Others
<1>3. Generates(p, [w EXCEPT !.step = step, !.place = place])
          => Goes(p, step, worker[p].round, place, worker[p].pid)
  <2> DEFINE g == [w EXCEPT !.step = step, !.place = place]
  <2>1. /\ g.life = w.life /\ g.run = w.run /\ g.resumed = w.resumed /\ g.step = step
        /\ g.round = w.round /\ g.place = place /\ g.pid = w.pid /\ g.kept = w.kept
    BY DEF Generation
  <2> QED BY <1>1, <1>2, <2>1 DEF Goes
<1>4. Generates(p, [w EXCEPT !.step = step, !.round = round, !.place = place])
          => Goes(p, step, round, place, worker[p].pid)
  <2> DEFINE g == [w EXCEPT !.step = step, !.round = round, !.place = place]
  <2>1. /\ g.life = w.life /\ g.run = w.run /\ g.resumed = w.resumed /\ g.step = step
        /\ g.round = round /\ g.place = place /\ g.pid = w.pid /\ g.kept = w.kept
    BY DEF Generation
  <2> QED BY <1>1, <1>2, <2>1 DEF Goes
<1>5. Generates(p, [w EXCEPT !.step = step, !.round = round, !.pid = pid])
          => Goes(p, step, round, worker[p].place, pid)
  <2> DEFINE g == [w EXCEPT !.step = step, !.round = round, !.pid = pid]
  <2>1. /\ g.life = w.life /\ g.run = w.run /\ g.resumed = w.resumed /\ g.step = step
        /\ g.round = round /\ g.place = w.place /\ g.pid = pid /\ g.kept = w.kept
    BY DEF Generation
  <2> QED BY <1>1, <1>2, <2>1 DEF Goes
<1>6. Generates(p, [w EXCEPT !.step = step, !.place = place, !.round = round, !.pid = pid])
          => Goes(p, step, round, place, pid)
  <2> DEFINE g == [w EXCEPT !.step = step, !.place = place, !.round = round, !.pid = pid]
  <2>1. /\ g.life = w.life /\ g.run = w.run /\ g.resumed = w.resumed /\ g.step = step
        /\ g.round = round /\ g.place = place /\ g.pid = pid /\ g.kept = w.kept
    BY DEF Generation
  <2> QED BY <1>1, <1>2, <2>1 DEF Goes
<1>7. Generates(p, [w EXCEPT !.step = step])
          => Goes(p, step, worker[p].round, worker[p].place, worker[p].pid)
  <2> DEFINE g == [w EXCEPT !.step = step]
  <2>1. /\ g.life = w.life /\ g.run = w.run /\ g.resumed = w.resumed /\ g.step = step
        /\ g.round = w.round /\ g.place = w.place /\ g.pid = w.pid /\ g.kept = w.kept
    BY DEF Generation
  <2> QED BY <1>1, <1>2, <2>1 DEF Goes
<1> QED BY <1>1, <1>3, <1>4, <1>5, <1>6, <1>7

\* A row of the ledger that is written, field by field.
LEMMA RowSet ==
    ASSUME TypeOK, NEW r \in Rounds, NEW state, NEW owner, NEW round
    PROVE  /\ task' = [task EXCEPT ![r].state = state] => Rows(r, state, task[r].owner, task[r].round)
           /\ task' = [task EXCEPT ![r].owner = owner] => Rows(r, task[r].state, owner, task[r].round)
           /\ task' = [task EXCEPT ![r].round = round] => Rows(r, task[r].state, task[r].owner, round)
           /\ task' = [task EXCEPT ![r] = [state |-> state, owner |-> owner, round |-> round]]
                  => Rows(r, state, owner, round)
<1>1. PICK w \in TaskRow : w = task[r]
  BY DEF TypeOK
<1>2. task \in [Rounds -> TaskRow]
  BY DEF TypeOK
<1>3. ASSUME NEW row, task' = [task EXCEPT ![r] = row]
      PROVE  task'[r] = row /\ \A t \in Rounds : t # r => task'[t] = task[t]
  BY <1>2, <1>3
<1>4. ASSUME task' = [task EXCEPT ![r].state = state] PROVE Rows(r, state, task[r].owner, task[r].round)
  <2>1. task' = [task EXCEPT ![r] = [w EXCEPT !.state = state]]
    BY <1>1, <1>4
  <2>2. /\ [w EXCEPT !.state = state].state = state /\ [w EXCEPT !.state = state].owner = w.owner
        /\ [w EXCEPT !.state = state].round = w.round
    BY DEF TaskRow
  <2> QED BY <1>1, <1>3, <2>1, <2>2 DEF Rows
<1>5. ASSUME task' = [task EXCEPT ![r].owner = owner] PROVE Rows(r, task[r].state, owner, task[r].round)
  <2>1. task' = [task EXCEPT ![r] = [w EXCEPT !.owner = owner]]
    BY <1>1, <1>5
  <2>2. /\ [w EXCEPT !.owner = owner].state = w.state /\ [w EXCEPT !.owner = owner].owner = owner
        /\ [w EXCEPT !.owner = owner].round = w.round
    BY DEF TaskRow
  <2> QED BY <1>1, <1>3, <2>1, <2>2 DEF Rows
<1>6. ASSUME task' = [task EXCEPT ![r].round = round] PROVE Rows(r, task[r].state, task[r].owner, round)
  <2>1. task' = [task EXCEPT ![r] = [w EXCEPT !.round = round]]
    BY <1>1, <1>6
  <2>2. /\ [w EXCEPT !.round = round].state = w.state /\ [w EXCEPT !.round = round].owner = w.owner
        /\ [w EXCEPT !.round = round].round = round
    BY DEF TaskRow
  <2> QED BY <1>1, <1>3, <2>1, <2>2 DEF Rows
<1>7. ASSUME task' = [task EXCEPT ![r] = [state |-> state, owner |-> owner, round |-> round]]
      PROVE  Rows(r, state, owner, round)
  BY <1>3, <1>7 DEF Rows
<1> QED BY <1>4, <1>5, <1>6, <1>7

\* A generation has a request, and a living worker.
LEMMA AtRun ==
    ASSUME TypeOK, StepInv, NEW p \in Pids, worker[p].step # "idle"
    PROVE  worker[p].run \in Rounds /\ worker[p].life = "alive"
  BY WorkerTypes, BoundIsNat DEF StepInv

\* The place a manager without one may have found.
Found(place) ==
    place = End \/ (pend # NoPend /\ place = Rest(history, Aim(pend.place, End)))

\* Begin drops the generation, or makes the row and takes the place of the request.
LEMMA BeginEffect ==
    ASSUME TypeOK, StepInv, NEW p \in Pids, Begin(p)
    PROVE  /\ worker[p].step = "begin" /\ New(p)
           /\ UNCHANGED <<ask, proxy, main, op, saved>>
           /\ \/ Drops(p, "alive") /\ worker'[p].place = End /\ task' = task
              \/ /\ \E place \in Places :
                      /\ place = worker[p].place \/ Found(place)
                      /\ Goes(p, "begun", worker[p].round,
                              IF ask[worker[p].run].place = End THEN place
                              ELSE ask[worker[p].run].place, worker[p].pid)
                 /\ Rows(worker[p].run, "running", p, 0)
<1> DEFINE r == worker[p].run
<1>1. /\ worker[p].step = "begin" /\ New(p) /\ r \in Rounds
      /\ UNCHANGED <<ask, proxy, main, op, saved>>
  BY AtRun DEF Begin, At, New
<1>2. PICK f \in BeginManagers(p) :
        /\ f.ok => /\ Generates(p, [worker[p] EXCEPT !.step = "begun",
                                !.place = IF ask[r].place = End THEN f.place ELSE ask[r].place])
                   /\ task' = [task EXCEPT ![r] = [state |-> "running", owner |-> p, round |-> 0]]
        /\ ~f.ok => Idle(p) /\ UNCHANGED task
  BY DEF Begin
<1>3. f.place \in Places /\ (f.place = worker[p].place \/ Found(f.place))
  <2>1. CASE worker[p].kept
    BY <1>2, <2>1, WorkerTypes DEF BeginManagers
  <2>2. CASE ~worker[p].kept
    <3>1. f \in Recover(End) /\ End \in Places
      BY <1>2, <2>2 DEF BeginManagers, Places
    <3> QED BY <3>1, Recovering DEF Found
  <2> QED BY <2>1, <2>2
<1>4. CASE f.ok
  <2>1. PICK place \in Places : place = f.place /\ (place = worker[p].place \/ Found(place))
    BY <1>3
  <2>2. Goes(p, "begun", worker[p].round,
             IF ask[r].place = End THEN place ELSE ask[r].place, worker[p].pid)
    <3>1. PICK at : at = IF ask[r].place = End THEN place ELSE ask[r].place
      OBVIOUS
    <3>2. Generates(p, [worker[p] EXCEPT !.step = "begun", !.place = at])
      BY <1>2, <1>4, <2>1, <3>1
    <3> QED BY <3>1, <3>2, Gone
  <2>3. Rows(r, "running", p, 0)
    BY <1>1, <1>2, <1>4, RowSet
  <2> QED BY <1>1, <2>1, <2>2, <2>3
<1>5. CASE ~f.ok
  BY <1>1, <1>2, <1>5, Dropped DEF Idle
<1> QED BY <1>4, <1>5

\* BeginResumed drops the generation, or takes the round of the checkpoint file.
LEMMA BeginResumedEffect ==
    ASSUME TypeOK, StepInv, NEW p \in Pids, BeginResumed(p)
    PROVE  /\ worker[p].step = "begin" /\ ~New(p) /\ worker[p].resumed
           /\ UNCHANGED <<files, ask, proxy, main, op, saved>>
           /\ \/ Drops(p, "alive") /\ worker'[p].place = End /\ task' = task
              \/ /\ Goes(p, "open", IF pend # NoPend THEN pend.id ELSE task[worker[p].run].round,
                         IF ask[worker[p].run].place = End THEN worker[p].place
                         ELSE ask[worker[p].run].place, IF pend # NoPend THEN pend.pid ELSE p)
                 /\ task[worker[p].run].state = "running"
                 /\ Rows(worker[p].run, "running", p, task[worker[p].run].round)
                 /\ ~weak' => /\ pend.id \in {0, task[worker[p].run].round}
                              /\ task[worker[p].run].round \notin Ids(history)
                              /\ \A q \in Pids : ~Held(q, task[worker[p].run].round)
<1> DEFINE r == worker[p].run
<1>1. /\ worker[p].step = "begin" /\ ~New(p) /\ worker[p].resumed /\ r \in Rounds
      /\ UNCHANGED <<files, ask, proxy, main, op, saved>>
  BY AtRun DEF BeginResumed, At, New
<1>2. CASE task[r].state = "running"
  <2>1. PICK place, round, pid :
          /\ place = (IF ask[r].place = End THEN worker[p].place ELSE ask[r].place)
          /\ round = (IF pend # NoPend THEN pend.id ELSE task[r].round)
          /\ pid = (IF pend # NoPend THEN pend.pid ELSE p)
    OBVIOUS
  <2>2. Generates(p, [worker[p] EXCEPT !.step = "open", !.place = place, !.round = round, !.pid = pid])
    BY <1>2, <2>1 DEF BeginResumed
  <2>3. Goes(p, "open", round, place, pid)
    BY <2>2, Gone
  <2>4. task' = [task EXCEPT ![r].owner = p]
    BY <1>2 DEF BeginResumed
  <2>5. Rows(r, "running", p, task[r].round)
    <3> HIDE DEF r
    <3> QED BY <1>1, <1>2, <2>4, RowSet
  <2>6. ~weak' => /\ pend.id \in {0, task[r].round}
                  /\ task[r].round \notin Ids(history)
                  /\ \A q \in Pids : ~Held(q, task[r].round)
    BY <1>2 DEF BeginResumed, Weak
  <2> QED BY <1>1, <1>2, <2>1, <2>3, <2>5, <2>6
<1>3. CASE task[r].state # "running"
  BY <1>1, <1>3, Dropped DEF BeginResumed, Idle
<1> QED BY <1>2, <1>3

\* Open takes the round of the request, and may have written its checkpoint.
LEMMA OpenEffect ==
    ASSUME TypeOK, StepInv, NEW p \in Pids, Open(p)
    PROVE  /\ worker[p].step = "begun" /\ New(p) /\ worker[p].run \in Rounds
           /\ UNCHANGED <<history, task, ask, proxy, main, op>>
           /\ Goes(p, "open", worker[p].run, worker[p].place, p)
           /\ \/ /\ pend' = [id |-> worker[p].run, pid |-> p, place |-> worker[p].place]
                 /\ saved' = saved \union {worker[p].run}
                 /\ ~weak' => ~Other(0)
              \/ UNCHANGED <<pend, saved>>
<1>1. /\ worker[p].step = "begun" /\ New(p) /\ worker[p].run \in Rounds
      /\ UNCHANGED <<history, task, ask, proxy, main, op>>
  BY AtRun DEF Open, At, New, StepInv
<1>2. Goes(p, "open", worker[p].run, worker[p].place, p)
  <2>1. Generates(p, [worker[p] EXCEPT !.step = "open", !.round = worker[p].run, !.pid = p])
    BY DEF Open
  <2>2. PICK r : r = worker[p].run
    OBVIOUS
  <2> QED BY <2>1, <2>2, Gone
<1> QED BY <1>1, <1>2 DEF Open, Checkpoint, Weak

\* Event writes the checkpoint of the round again.
LEMMA EventEffect ==
    ASSUME TypeOK, StepInv, NEW p \in Pids, Event(p)
    PROVE  /\ worker[p].step = "open" /\ worker[p].life = "alive" /\ worker[p].round \in Rounds
           /\ UNCHANGED <<history, task, ask, worker, proxy, main, op>>
           /\ pend' = [id |-> worker[p].round, pid |-> worker[p].pid, place |-> worker[p].place]
           /\ saved' = saved \union {worker[p].round}
           /\ ~weak' => ~Other(worker[p].round)
  BY WorkerTypes, BoundIsNat DEF Event, At, Checkpoint, Weak

\* SaveTask puts the round into the row of the task.
LEMMA SaveTaskEffect ==
    ASSUME TypeOK, StepInv, NEW p \in Pids, SaveTask(p)
    PROVE  /\ worker[p].step = "open" /\ worker[p].round \in Rounds /\ worker[p].run \in Rounds
           /\ task[worker[p].run].state \in {"running", "suspended"}
           /\ UNCHANGED <<files, ask, worker, proxy, main, op, saved>>
           /\ Rows(worker[p].run, task[worker[p].run].state, task[worker[p].run].owner,
                   worker[p].round)
<1>1. PICK r \in Rounds : r = worker[p].run
  BY AtRun DEF SaveTask, At
<1>2. PICK round \in Rounds : round = worker[p].round
  BY WorkerTypes, BoundIsNat DEF SaveTask, At
<1>3. task' = [task EXCEPT ![r].round = round]
  BY <1>1, <1>2 DEF SaveTask
<1>4. Rows(r, task[r].state, task[r].owner, round)
  BY <1>3, RowSet
<1> QED BY <1>1, <1>2, <1>4 DEF SaveTask, At

\* Complete and Halt drop the round and what is left of its place.
LEMMA EndEffect ==
    ASSUME TypeOK, StepInv, NEW p \in Pids, Complete(p) \/ Halt(p)
    PROVE  /\ worker[p].step = "open" /\ worker[p].run \in Rounds
           /\ UNCHANGED <<task, ask, proxy, main, op, saved>>
           /\ Goes(p, "closing", 0, Rest(history, worker[p].place), worker[p].pid)
<1>1. worker[p].step = "open" /\ worker[p].run \in Rounds /\ UNCHANGED <<task, ask, proxy, main, op, saved>>
  BY AtRun DEF Complete, Halt, At
<1>2. PICK place : place = Rest(history, worker[p].place)
  OBVIOUS
<1>3. Ending(p, 0, place)
  BY <1>2 DEF Complete, Halt
<1> QED BY <1>1, <1>2, <1>3, Gone DEF Ending

\* Quit and Suspend keep round and place.
LEMMA LeaveOffEffect ==
    ASSUME TypeOK, StepInv, NEW p \in Pids, Quit(p) \/ Suspend(p)
    PROVE  /\ worker[p].step \in {"begun", "open"} /\ worker[p].run \in Rounds
           /\ UNCHANGED <<files, ask, proxy, main, op, saved>>
           /\ Goes(p, "closing", worker[p].round, worker[p].place, worker[p].pid)
           /\ task' = task \/ Rows(worker[p].run, "suspended", task[worker[p].run].owner,
                                   task[worker[p].run].round)
<1>1. /\ worker[p].step \in {"begun", "open"} /\ worker[p].run \in Rounds
      /\ UNCHANGED <<files, ask, proxy, main, op, saved>>
  BY AtRun DEF Quit, Suspend
<1>2. PICK place, round : place = worker[p].place /\ round = worker[p].round
  OBVIOUS
<1>3. Ending(p, round, place)
  BY <1>2 DEF Quit, Suspend
<1>4. Goes(p, "closing", round, place, worker[p].pid)
  BY <1>3, Gone DEF Ending
<1>5. task' = task \/ task' = [task EXCEPT ![worker[p].run].state = "suspended"]
  BY DEF Quit, Suspend
<1>6. PICK r \in Rounds : r = worker[p].run
  BY <1>1
<1>7. task' = task \/ Rows(r, "suspended", task[r].owner, task[r].round)
  BY <1>5, <1>6, RowSet
<1> QED BY <1>1, <1>2, <1>4, <1>6, <1>7

\* Close drops the generation or leaves its round to Clean.
LEMMA CloseEffect ==
    ASSUME TypeOK, StepInv, NEW p \in Pids, Close(p)
    PROVE  /\ worker[p].step = "closing" /\ worker[p].run \in Rounds
           /\ UNCHANGED <<files, ask, proxy, main, op, saved>>
           /\ \/ Drops(p, "alive") /\ worker'[p].place = End
              \/ /\ Goes(p, "closed", worker[p].round, worker[p].place, worker[p].pid)
                 /\ worker[p].round # 0
           /\ \E state \in {"suspended", "ended"} :
                /\ state = "suspended" => task[worker[p].run].state = "suspended"
                /\ Rows(worker[p].run, state, task[worker[p].run].owner, task[worker[p].run].round)
<1>1. PICK r \in Rounds : r = worker[p].run
  BY AtRun DEF Close, At
<1>2. worker[p].step = "closing" /\ UNCHANGED <<files, ask, proxy, main, op, saved>>
  BY DEF Close, At
<1>3. PICK state \in {"suspended", "ended"} :
        state = IF task[r].state = "suspended" THEN "suspended" ELSE "ended"
  OBVIOUS
<1>4. task' = [task EXCEPT ![r].state = state]
  BY <1>1, <1>3 DEF Close
<1>5. Rows(r, state, task[r].owner, task[r].round)
  BY <1>4, RowSet
<1>6. Idle(p) \/ (Generates(p, [worker[p] EXCEPT !.step = "closed"]) /\ worker[p].round # 0)
  BY DEF Close
<1>7. \/ Drops(p, "alive") /\ worker'[p].place = End
      \/ /\ Goes(p, "closed", worker[p].round, worker[p].place, worker[p].pid)
         /\ worker[p].round # 0
  BY <1>6, Dropped, Gone DEF Idle
<1> QED BY <1>1, <1>2, <1>3, <1>5, <1>7

\* Clean drops the generation.
LEMMA CleanEffect ==
    ASSUME TypeOK, StepInv, NEW p \in Pids, Clean(p)
    PROVE  /\ worker[p].step = "closed" /\ worker[p].run \in Rounds
           /\ UNCHANGED <<task, ask, proxy, main, op, saved>>
           /\ Drops(p, "alive")
           /\ worker'[p].place \in {End, Rest(history, worker[p].place)}
<1>1. worker[p].step = "closed" /\ worker[p].run \in Rounds /\ UNCHANGED <<task, ask, proxy, main, op, saved>>
  BY AtRun DEF Clean, At
<1>2. PICK place : place = Rest(history, worker[p].place)
  OBVIOUS
<1>3. Idle(p) \/ Generates(p, [Blank("alive") EXCEPT !.kept = TRUE, !.place = place])
  BY <1>2 DEF Clean
<1>4. CASE Idle(p)
  BY <1>1, <1>4, Dropped DEF Idle
<1>5. CASE Generates(p, [Blank("alive") EXCEPT !.kept = TRUE, !.place = place])
  <2>1. PICK b \in Generation : b = Blank("alive")
    BY BlankTypes
  <2> DEFINE g == [b EXCEPT !.kept = TRUE, !.place = place]
  <2>2. /\ g.life = b.life /\ g.step = b.step /\ g.run = b.run /\ g.resumed = b.resumed
        /\ g.round = b.round /\ g.place = place /\ g.pid = b.pid
    BY DEF Generation
  <2>3. worker'[p] = g /\ Others(p)
    BY <1>5, <2>1, Generated DEF Others
  <2> HIDE DEF g
  <2>4. /\ b.life = "alive" /\ b.step = "idle" /\ b.run = 0 /\ b.resumed = FALSE /\ b.round = 0
        /\ b.pid = "nobody"
    BY <2>1, BlankFields
  <2> QED BY <1>1, <1>2, <2>2, <2>3, <2>4 DEF Drops
<1> QED BY <1>3, <1>4, <1>5

\* A worker that leaves or dies has nothing any more.
LEMMA DeathEffect ==
    ASSUME TypeOK, NEW p \in Pids, Leave(p) \/ Crash(p)
    PROVE  /\ UNCHANGED <<files, task, ask, proxy, main, op, saved>>
           /\ Drops(p, "dead") /\ worker'[p].place = End
  BY Dropped DEF Leave, Crash

-----------------------------------------------------------------------------
(* What the steps of the backend do to the ledger.                         *)

\* A row that the backend writes keeps its round, its living writer, its end.
Treated(q) ==
    /\ task'[q].round = task[q].round
    /\ Alive(task[q].owner) /\ task[q].owner # "backend" => task'[q].owner = task[q].owner
    /\ task'[q].state \in {"running", "suspended"} => task[q].state \in {"running", "suspended"}
    /\ task[q].state # "none" => task'[q].state # "none"
    /\ task[q] = NoTask /\ op.done # q => task'[q] = NoTask

\* A row that is not written is treated well.
LEMMA Same ==
    ASSUME NEW q, task'[q] = task[q] PROVE Treated(q)
  BY DEF Treated

\* The fields of a row that is not there.
LEMMA NoTaskFields == NoTask.state = "none" /\ NoTask.owner = "nobody" /\ NoTask.round = 0
  BY DEF NoTask

\* No worker is named backend or nobody.
LEMMA Owners == "backend" \notin Pids /\ "nobody" \notin Pids
  BY RoundAssumption

\* The backend treats every row well.
LEMMA BackendTasks ==
    ASSUME TypeOK, StepInv, BackendStep
    PROVE  \A q \in Rounds : Treated(q)
<1> TAKE q \in Rounds
<1>0. PICK w \in TaskRow : w = task[q]
  BY DEF TypeOK
<1>a. /\ Sweeped[q].round = w.round /\ Sweeped[q].owner = w.owner
      /\ Sweeped[q].state = IF w.state = "running" /\ ~Alive(w.owner) THEN "suspended" ELSE w.state
      /\ Sweeped[q] \in TaskRow
      /\ ~(w.state = "running" /\ ~Alive(w.owner)) => Sweeped[q] = w
  BY <1>0, SweptTypes DEF Sweeped
<1>1. ASSUME task'[q] = Sweeped[q] PROVE Treated(q)
  BY <1>0, <1>a, <1>1, NoTaskFields DEF Treated
<1>2. CASE Look \/ StopRound \/ Cut
  BY <1>2, Same DEF Look, StopRound, Cut
<1>3. CASE Cancel
  <2>1. CASE op.done = q
    <3>1. task' = [task EXCEPT ![q].state = "ended"]
      BY <1>3, <2>1 DEF Cancel
    <3>2. Rows(q, "ended", task[q].owner, task[q].round)
      BY <3>1, RowSet
    <3> QED BY <2>1, <3>2 DEF Rows, Treated
  <2>2. CASE op.done # q
    <3>1. op.done \in 0..MaxRounds /\ op.done # 0
      BY <1>3 DEF Cancel, TypeOK
    <3>2. PICK t \in Rounds : t = op.done
      BY <3>1, BoundIsNat
    <3>3. task' = [task EXCEPT ![t].state = "ended"]
      BY <1>3, <3>2 DEF Cancel
    <3>4. task'[q] = task[q]
      BY <2>2, <3>2, <3>3, RowSet DEF Rows
    <3> QED BY <3>4, Same
  <2> QED BY <2>1, <2>2
<1>4. CASE Stop
  BY <1>1, <1>4 DEF Stop
<1>5. CASE Restart
  <2>1. CASE w.owner = "backend"
    <3>1. task'[q] = [w EXCEPT !.owner = "nobody"]
      BY <1>0, <1>5, <2>1 DEF Restart
    <3>2. [w EXCEPT !.owner = "nobody"].state = w.state /\ [w EXCEPT !.owner = "nobody"].round = w.round
      BY DEF TaskRow
    <3> QED BY <1>0, <2>1, <3>1, <3>2, NoTaskFields DEF Treated
  <2>2. CASE w.owner # "backend"
    <3>1. task'[q] = task[q]
      BY <1>0, <1>5, <2>2 DEF Restart
    <3> QED BY <3>1, Same
  <2> QED BY <2>1, <2>2
<1>6. ASSUME NEW r \in Rounds, NEW place \in Places, Send(r, place) PROVE Treated(q)
  <2>1. task'[q] = IF Sweeped[q].state = "suspended"
                   THEN [Sweeped[q] EXCEPT !.owner = "backend"] ELSE Sweeped[q]
    BY <1>6 DEF Send
  <2>2. CASE Sweeped[q].state = "suspended"
    <3>1. PICK s \in TaskRow : s = Sweeped[q]
      BY <1>a
    <3>2. /\ [s EXCEPT !.owner = "backend"].state = s.state
          /\ [s EXCEPT !.owner = "backend"].round = s.round
      BY DEF TaskRow
    <3>3. ~Alive(w.owner)
      BY <1>0, <1>6, <2>2 DEF Send
    <3>4. task'[q].state = "suspended" /\ task'[q].round = w.round
      BY <1>a, <2>1, <2>2, <3>1, <3>2
    <3>5. w.state \in {"running", "suspended"}
      BY <1>a, <2>2
    <3> QED BY <1>0, <3>3, <3>4, <3>5, NoTaskFields DEF Treated
  <2>3. CASE Sweeped[q].state # "suspended"
    BY <1>1, <2>1, <2>3
  <2> QED BY <2>2, <2>3
<1>7. ASSUME NEW t \in Rounds, FinishSaved(t) PROVE Treated(q)
  <2>1. task' = task \/ task' = Released
    BY <1>7 DEF FinishSaved
  <2>2. CASE task'[q] = task[q]
    BY <2>2, Same
  <2>3. CASE task' = Released /\ w.owner = "backend" /\ w.state \in {"running", "suspended"}
    <3>1. task'[q] = [w EXCEPT !.state = "suspended", !.owner = "nobody"]
      BY <1>0, <2>3 DEF Released
    <3>2. /\ [w EXCEPT !.state = "suspended", !.owner = "nobody"].state = "suspended"
          /\ [w EXCEPT !.state = "suspended", !.owner = "nobody"].round = w.round
      BY DEF TaskRow
    <3> QED BY <1>0, <2>3, <3>1, <3>2, NoTaskFields DEF Treated
  <2> QED BY <1>0, <2>1, <2>2, <2>3 DEF Released
<1>8. ASSUME NEW p \in Pids, Launch(p) PROVE Treated(q)
  BY <1>8, Same DEF Launch
<1>9. ASSUME NEW t \in Rounds, NEW p \in Pids, Resume(t, p) PROVE Treated(q)
  <2>1. PICK m \in [Rounds -> TaskRow] : m = Sweeped
    BY SweptTypes
  <2>2. task' = [m EXCEPT ![t].state = "running", ![t].owner = "backend"]
    BY <1>9, <2>1 DEF Resume
  <2>3. CASE q # t
    <3>1. task'[q] = m[q]
      BY <2>2, <2>3
    <3> QED BY <1>1, <2>1, <3>1
  <2>4. CASE q = t
    <3>1. task'[q].round = m[q].round /\ task'[q].state = "running"
      <4>1. PICK s \in TaskRow : s = m[q]
        OBVIOUS
      <4>2. task'[q] = [s EXCEPT !.state = "running", !.owner = "backend"]
        BY <2>2, <2>4, <4>1
      <4>3. /\ [s EXCEPT !.state = "running", !.owner = "backend"].state = "running"
            /\ [s EXCEPT !.state = "running", !.owner = "backend"].round = s.round
        BY DEF TaskRow
      <4> QED BY <4>1, <4>2, <4>3
    <3>2. m[q].state = "suspended" /\ ~Alive(w.owner)
      BY <1>0, <1>9, <2>1, <2>4 DEF Resume
    <3>3. w.state \in {"running", "suspended"}
      BY <1>a, <2>1, <3>2
    <3> QED BY <1>0, <1>a, <2>1, <3>1, <3>2, <3>3, NoTaskFields DEF Treated
  <2> QED BY <2>3, <2>4
<1>10. ASSUME NEW n \in 1..MaxRounds, NEW all \in BOOLEAN, Delete(n, all) PROVE Treated(q)
  <2>1. task' = Sweeped \/ task' = task
    BY <1>10 DEF Delete
  <2> QED BY <1>1, <2>1, Same
<1> QED BY <1>2, <1>3, <1>4, <1>5, <1>6, <1>7, <1>8, <1>9, <1>10 DEF BackendStep

\* A worker is given a request.
Given(p, r, resumed) ==
    /\ proxy' = p /\ Others(p)
    /\ worker[p].step = "idle"
    /\ worker'[p].life = "alive" /\ worker'[p].step = "begin" /\ worker'[p].run = r
    /\ worker'[p].resumed = resumed /\ worker'[p].round = 0
    /\ worker'[p].place = worker[p].place /\ worker'[p].pid = worker[p].pid
    /\ worker'[p].kept = worker[p].kept

\* The worker of a request has no other one.
LEMMA DispatchEffect ==
    ASSUME TypeOK, StepInv, NEW p \in Pids, NEW r \in Rounds, NEW resumed \in BOOLEAN,
           Dispatch(p, r, resumed), op # NoOp \/ ~Busy
    PROVE  Given(p, r, resumed)
<1>5. /\ proxy' = p /\ worker \in [Pids -> Generation]
      /\ worker' = [worker EXCEPT ![p] = [worker[p] EXCEPT !.life = "alive", !.step = "begin",
                                             !.run = r, !.resumed = resumed]]
  BY DEF Dispatch, TypeOK
<1>1. worker[p].step = "idle" /\ worker[p].round = 0
  <2>1. CASE proxy # "nobody" /\ Alive(proxy)
    BY <2>1 DEF Dispatch, StepInv, Busy
  <2>2. CASE ~(proxy # "nobody" /\ Alive(proxy))
    BY <2>2 DEF Dispatch, StepInv
  <2> QED BY <2>1, <2>2 DEF StepInv
<1>2. PICK w \in Generation : w = worker[p]
  BY DEF TypeOK
<1> DEFINE g == [w EXCEPT !.life = "alive", !.step = "begin", !.run = r, !.resumed = resumed]
<1>3. /\ g.life = "alive" /\ g.step = "begin" /\ g.run = r /\ g.resumed = resumed
      /\ g.round = w.round /\ g.place = w.place /\ g.pid = w.pid /\ g.kept = w.kept
  BY DEF Generation
<1>4. proxy' = p /\ Others(p) /\ worker'[p] = g
  <2>1. worker' = [worker EXCEPT ![p] = g]
    BY <1>2, <1>5
  <2> HIDE DEF g
  <2> QED BY <1>5, <2>1 DEF Others
<1> HIDE DEF g
<1> QED BY <1>1, <1>2, <1>3, <1>4 DEF Given

\* The fields of no operation.
LEMMA NoOpFields == NoOp.kind = "none" /\ NoOp.run = 0 /\ NoOp.done = 0 /\ NoOp.cut = NoCut
  BY DEF NoOp

\* Launch gives the request of the send to a worker.
LEMMA LaunchEffect ==
    ASSUME TypeOK, StepInv, NEW p \in Pids, Launch(p)
    PROVE  /\ op.kind = "send" /\ op.run \in Rounds /\ op.done = 0 /\ op' = NoOp
           /\ Given(p, op.run, FALSE) /\ UNCHANGED <<task, ask, saved>>
           /\ main'.place = main.place \/ (pend # NoPend /\ main'.place = Rest(history, Aim(pend.place, main.place)))
<1>1. PICK r \in Rounds : r = op.run
  BY BoundIsNat DEF Launch, StepInv, TypeOK
<1>2. Given(p, r, FALSE)
  <2>1. Dispatch(p, r, FALSE) /\ op # NoOp
    BY <1>1, NoOpFields DEF Launch
  <2> QED BY <2>1, DispatchEffect
<1>3. PICK f \in Recover(main.place) : main' = [main EXCEPT !.place = f.place]
  BY DEF Launch
<1>4. main \in [made : BOOLEAN, place : Places]
  BY DEF TypeOK
<1>5. main'.place = f.place
  BY <1>3, <1>4
<1>6. f.place = main.place \/ (pend # NoPend /\ f.place = Rest(history, Aim(pend.place, main.place)))
  BY <1>3, <1>4, Recovering
<1> QED BY <1>1, <1>2, <1>5, <1>6 DEF Launch

\* Resume gives a task that has not ended to a worker.
LEMMA ResumeEffect ==
    ASSUME TypeOK, StepInv, NEW t \in Rounds, NEW p \in Pids, Resume(t, p)
    PROVE  /\ op = NoOp /\ Given(p, t, TRUE) /\ UNCHANGED <<files, ask, main, op, saved>>
           /\ task[t].round # 0 /\ task[t].state \in {"running", "suspended"}
<1>1. op = NoOp /\ ~Busy
  BY DEF Resume, Busy
<1>2. Given(p, t, TRUE)
  BY <1>1, DispatchEffect DEF Resume
<1>3. task[t].state \in {"running", "suspended"}
  BY SweptTypes DEF Resume
<1> QED BY <1>1, <1>2, <1>3 DEF Resume

\* The backend gives a worker a request, or leaves the workers alone.
LEMMA BackendWorkers ==
    ASSUME BackendStep
    PROVE  \/ UNCHANGED worker
           \/ \E p \in Pids : Launch(p)
           \/ \E t \in Rounds, p \in Pids : Resume(t, p)
  BY DEF BackendStep, Look, Cancel, Stop, StopRound, Cut, Restart, Send, FinishSaved, Delete

\* What the backend does next.
LEMMA OperationEffect ==
    ASSUME TypeOK, StepInv, BackendStep
    PROVE  \/ op' = NoOp
           \/ op' = op
           \/ /\ op'.kind = op.kind /\ op'.run = op.run /\ op'.cut = op.cut
              /\ op # NoOp
              /\ \/ op'.done = 0
                 \/ op'.done \in Left
           \/ /\ op'.kind = "cut" /\ op'.run = op.run /\ op'.cut = op.cut /\ op'.cut # NoCut
              /\ op'.done = op.done /\ op # NoOp /\ op.done = 0
           \/ /\ op = NoOp /\ op'.kind = "send" /\ op'.done = 0 /\ op'.cut = NoCut
              /\ op'.run \in Rounds /\ op'.run > Old /\ ~ask[op'.run].asked
              /\ \E place \in Places : Send(op'.run, place)
           \/ /\ op = NoOp /\ op'.kind \in {"stop", "cut"} /\ op'.done = 0 /\ op'.run = 0
              /\ \/ op'.cut = NoCut /\ op'.kind = "stop"
                 \/ \E n \in 1..Len(Shown) : op'.cut.at = n /\ op'.cut.named = Shown[n].id /\ op'.cut # NoCut
<1>0. op \in Operation /\ NoOp \in Operation
  BY OperationTypes DEF TypeOK, Operation
<1>1. CASE Look \/ Cut \/ Restart \/ (\E p \in Pids : Launch(p)) \/ (\E t \in Rounds, p \in Pids : Resume(t, p))
  BY <1>1 DEF Look, Cut, Restart, Launch, Resume
<1>2. ASSUME NEW d, op' = [op EXCEPT !.done = d]
      PROVE  op'.kind = op.kind /\ op'.run = op.run /\ op'.cut = op.cut /\ op'.done = d
  BY <1>0, <1>2 DEF Operation
<1>3. CASE Cancel
  <2>1. op # NoOp /\ op' = [op EXCEPT !.done = 0]
    BY <1>3, NoOpFields DEF Cancel
  <2> QED BY <1>2, <2>1
<1>4. CASE StopRound
  <2>1. op.kind = "stop" /\ op # NoOp /\ op.done = 0
    BY <1>4, NoOpFields DEF StopRound
  <2>2. CASE op' = [op EXCEPT !.kind = "cut"] /\ op.cut # NoCut
    <3>1. op'.kind = "cut" /\ op'.run = op.run /\ op'.cut = op.cut /\ op'.done = op.done
      BY <1>0, <2>2 DEF Operation
    <3> QED BY <2>1, <2>2, <3>1
  <2> QED BY <1>4, <2>2 DEF StopRound
<1>5. CASE Stop
  <2>1. op = NoOp /\ op' = [NoOp EXCEPT !.kind = "stop"]
    BY <1>5 DEF Stop, Busy
  <2>2. op'.kind = "stop" /\ op'.run = 0 /\ op'.cut = NoCut /\ op'.done = 0
    BY <1>0, <2>1, NoOpFields DEF Operation
  <2> QED BY <2>1, <2>2
<1>6. ASSUME NEW r \in Rounds, NEW place \in Places, Send(r, place)
      PROVE  /\ op = NoOp /\ op'.kind = "send" /\ op'.done = 0 /\ op'.cut = NoCut
             /\ op'.run = r /\ r > Old /\ ~ask[r].asked
  <2>1. op = NoOp /\ op' = [NoOp EXCEPT !.kind = "send", !.run = r]
    BY <1>6 DEF Send, Busy
  <2>2. op'.kind = "send" /\ op'.run = r /\ op'.cut = NoCut /\ op'.done = 0
    BY <1>0, <2>1, NoOpFields DEF Operation
  <2> QED BY <1>6, <2>1, <2>2 DEF Send
<1>7. ASSUME NEW t \in Rounds, FinishSaved(t)
      PROVE  \/ op' = NoOp
             \/ /\ op'.kind = op.kind /\ op'.run = op.run /\ op'.cut = op.cut
                /\ op # NoOp /\ op'.done \in Left
  <2>1. op # NoOp /\ t \in Left
    BY <1>7, NoOpFields DEF FinishSaved
  <2>2. op' = NoOp \/ op' = [op EXCEPT !.done = t]
    BY <1>7 DEF FinishSaved
  <2> QED BY <1>2, <2>1, <2>2
<1>8. ASSUME NEW n \in 1..MaxRounds, NEW all \in BOOLEAN, Delete(n, all)
      PROVE  /\ op = NoOp /\ op'.kind \in {"stop", "cut"} /\ op'.done = 0 /\ op'.run = 0
             /\ n \in 1..Len(Shown) /\ op'.cut.at = n /\ op'.cut.named = Shown[n].id /\ op'.cut # NoCut
  <2>1. /\ op = NoOp /\ n \in 1..Len(Shown)
        /\ op' = [NoOp EXCEPT !.kind = IF Restorable THEN "stop" ELSE "cut",
                              !.cut = [at |-> n, all |-> all, named |-> Shown[n].id]]
    BY <1>8 DEF Delete, Busy
  <2>2. PICK c : c = [at |-> n, all |-> all, named |-> Shown[n].id]
    OBVIOUS
  <2>3. c.at = n /\ c.named = Shown[n].id
    BY <2>2
  <2>4. c # NoCut
    <3>1. NoCut.at = 0 /\ n # 0
      BY BoundIsNat DEF NoCut
    <3> QED BY <2>3, <3>1
  <2>5. PICK kind \in {"stop", "cut"} : kind = IF Restorable THEN "stop" ELSE "cut"
    OBVIOUS
  <2>6. op' = [NoOp EXCEPT !.kind = kind, !.cut = c]
    BY <2>1, <2>2, <2>5
  <2>7. op'.kind = kind /\ op'.run = 0 /\ op'.cut = c /\ op'.done = 0
    BY <1>0, <2>6, NoOpFields DEF Operation
  <2> QED BY <2>1, <2>3, <2>4, <2>7
<1> QED BY <1>1, <1>3, <1>4, <1>5, <1>6, <1>7, <1>8 DEF BackendStep

-----------------------------------------------------------------------------
(* Steps.                                                                  *)

\* What StepInv says of one worker.
Steady(p) ==
    /\ worker[p].step # "idle" => worker[p].life = "alive" /\ worker[p].run # 0
    /\ worker[p].step = "idle" => worker[p].run = 0 /\ worker[p].round = 0
    /\ worker[p].step \in {"open", "closed"} => worker[p].round # 0
    /\ worker[p].step = "open" => worker[p].pid \in Pids
    /\ worker[p].step \in {"begin", "begun"} => worker[p].round = 0
    /\ worker[p].step = "begun" => ~worker[p].resumed
    /\ worker[p].step = "begin" /\ worker[p].resumed => task[worker[p].run].round # 0

\* A worker that does not move stays steady.
LEMMA SteadyKept ==
    ASSUME NEW q \in Pids, Steady(q), worker'[q] = worker[q],
           worker[q].step = "begin" /\ worker[q].resumed => task'[worker[q].run].round # 0
    PROVE  Steady(q)'
  BY DEF Steady

\* A step of a worker keeps its parts together.
LEMMA WorkerSteps ==
    ASSUME TypeOK, StepInv, FreshInv, NEW p \in Pids, WorkerStep(p)
    PROVE  \A q \in Pids : Steady(q)'
<1>0. \A q \in Pids : Steady(q)
  BY DEF StepInv, Steady
<1>a. ASSUME NEW q \in Pids, worker[q].step = "begin" /\ worker[q].resumed
      PROVE  worker[q].run \in Rounds /\ task[worker[q].run].round # 0
  BY <1>a, AtRun DEF StepInv
<1>b. ASSUME task' = task, Others(p), Steady(p)' PROVE \A q \in Pids : Steady(q)'
  <2> TAKE q \in Pids
  <2>1. CASE q # p
    <3>1. worker'[q] = worker[q]
      BY <1>b, <2>1 DEF Others
    <3> QED BY <1>0, <1>a, <1>b, <3>1, SteadyKept
  <2> QED BY <1>b, <2>1
<1>c. ASSUME NEW life \in {"alive", "dead"}, Drops(p, life) PROVE Steady(p)' /\ Others(p)
  BY <1>c DEF Drops, Steady
<1>d. ASSUME NEW r \in Rounds, NEW state, NEW owner, NEW round, Rows(r, state, owner, round),
             round # 0 \/ round = task[r].round \/ \A q \in Pids \ {p} : worker[q].run # r,
             Others(p), Steady(p)'
      PROVE  \A q \in Pids : Steady(q)'
  <2> TAKE q \in Pids
  <2>1. CASE q # p
    <3>1. worker'[q] = worker[q]
      BY <1>d, <2>1 DEF Others
    <3>2. ASSUME worker[q].step = "begin" /\ worker[q].resumed
          PROVE  task'[worker[q].run].round # 0
      <4>1. worker[q].run \in Rounds /\ task[worker[q].run].round # 0
        BY <1>a, <3>2
      <4>2. CASE worker[q].run = r
        BY <1>d, <2>1, <4>1, <4>2 DEF Rows
      <4>3. CASE worker[q].run # r
        BY <1>d, <4>1, <4>3 DEF Rows
      <4> QED BY <4>2, <4>3
    <3> QED BY <1>0, <3>1, <3>2, SteadyKept
  <2> QED BY <1>d, <2>1
<1>1. CASE Begin(p)
  <2>1. worker[p].step = "begin" /\ New(p) /\ worker[p].run \in Rounds /\ worker[p].life = "alive"
    BY <1>1, BeginEffect, AtRun
  <2>2. \A q \in Pids \ {p} : worker[q].run # worker[p].run
    BY <2>1 DEF FreshInv
  <2>3. CASE Drops(p, "alive") /\ task' = task
    BY <1>b, <1>c, <2>3
  <2>4. ASSUME NEW place, Goes(p, "begun", worker[p].round, place, worker[p].pid),
               Rows(worker[p].run, "running", p, 0)
        PROVE  \A q \in Pids : Steady(q)'
    <3>1. Steady(p)' /\ Others(p)
      <4>1. worker[p].round = 0 /\ worker[p].run # 0 /\ ~worker[p].resumed
        BY <2>1 DEF StepInv, New
      <4> QED BY <2>1, <2>4, <4>1 DEF Goes, Steady
    <3>2. PICK r \in Rounds : r = worker[p].run
      BY <2>1
    <3> QED BY <1>d, <2>2, <2>4, <3>1, <3>2
  <2> QED BY <1>1, <2>3, <2>4, BeginEffect
<1>2. CASE BeginResumed(p)
  <2>1. /\ worker[p].step = "begin" /\ worker[p].run \in Rounds /\ worker[p].life = "alive"
        /\ worker[p].run # 0 /\ worker[p].resumed /\ task[worker[p].run].round # 0
    BY <1>2, BeginResumedEffect, AtRun DEF StepInv
  <2>2. CASE Drops(p, "alive") /\ task' = task
    BY <1>b, <1>c, <2>2
  <2>3. ASSUME NEW place, NEW round, NEW pid \in Pids, Goes(p, "open", round, place, pid), round # 0,
               Rows(worker[p].run, "running", p, task[worker[p].run].round)
        PROVE  \A q \in Pids : Steady(q)'
    <3>1. Steady(p)' /\ Others(p)
      BY <2>1, <2>3 DEF Goes, Steady
    <3>2. PICK r \in Rounds : r = worker[p].run
      BY <2>1
    <3> QED BY <1>d, <2>3, <3>1, <3>2
  <2>4. /\ (IF pend # NoPend THEN pend.id ELSE task[worker[p].run].round) # 0
        /\ (IF pend # NoPend THEN pend.pid ELSE p) \in Pids
    BY <2>1, PendTypes, BoundIsNat
  <2> QED BY <1>2, <2>2, <2>3, <2>4, BeginResumedEffect
<1>3. CASE Open(p)
  <2>1. worker[p].run # 0 /\ worker[p].life = "alive"
    BY <1>3, OpenEffect DEF StepInv
  <2>2. Steady(p)' /\ Others(p) /\ task' = task
    BY <1>3, <2>1, OpenEffect DEF Goes, Steady
  <2> QED BY <1>b, <2>2
<1>4. CASE Event(p)
  <2>1. worker' = worker /\ task' = task
    BY <1>4, EventEffect
  <2> QED BY <1>0, <2>1 DEF Steady
<1>5. CASE SaveTask(p)
  <2>1. /\ worker[p].run \in Rounds /\ worker[p].round # 0 /\ worker' = worker /\ worker[p].step = "open"
        /\ Rows(worker[p].run, task[worker[p].run].state, task[worker[p].run].owner, worker[p].round)
    BY <1>5, SaveTaskEffect, BoundIsNat
  <2>2. Steady(p)' /\ Others(p)
    BY <1>0, <2>1 DEF Steady, Others
  <2>3. PICK r \in Rounds : r = worker[p].run
    BY <2>1
  <2>4. PICK round : round = worker[p].round
    OBVIOUS
  <2> QED BY <1>d, <2>1, <2>2, <2>3, <2>4
<1>6. CASE Complete(p) \/ Halt(p)
  <2>1. worker[p].run # 0 /\ worker[p].life = "alive"
    BY <1>6, EndEffect DEF StepInv
  <2>2. Steady(p)' /\ Others(p) /\ task' = task
    BY <1>6, <2>1, EndEffect DEF Goes, Steady
  <2> QED BY <1>b, <2>2
<1>7. CASE Quit(p) \/ Suspend(p)
  <2>1. worker[p].run # 0 /\ worker[p].life = "alive" /\ worker[p].run \in Rounds
    BY <1>7, LeaveOffEffect DEF StepInv
  <2>2. Steady(p)' /\ Others(p)
    BY <1>7, <2>1, LeaveOffEffect DEF Goes, Steady
  <2>3. PICK r \in Rounds : r = worker[p].run
    BY <2>1
  <2> QED BY <1>7, <1>b, <1>d, <2>2, <2>3, LeaveOffEffect
<1>8. CASE Close(p)
  <2>1. worker[p].run # 0 /\ worker[p].life = "alive" /\ worker[p].run \in Rounds
    BY <1>8, CloseEffect DEF StepInv
  <2>2. Steady(p)' /\ Others(p)
    <3>1. CASE Drops(p, "alive")
      BY <1>c, <3>1
    <3>2. CASE /\ Goes(p, "closed", worker[p].round, worker[p].place, worker[p].pid)
               /\ worker[p].round # 0
      BY <2>1, <3>2 DEF Goes, Steady
    <3> QED BY <1>8, <3>1, <3>2, CloseEffect
  <2>3. PICK r \in Rounds : r = worker[p].run
    BY <2>1
  <2>4. PICK state : Rows(r, state, task[r].owner, task[r].round)
    BY <1>8, <2>3, CloseEffect
  <2> QED BY <1>d, <2>2, <2>3, <2>4
<1>9. CASE Clean(p)
  BY <1>9, <1>b, <1>c, CleanEffect
<1>10. CASE Leave(p) \/ Crash(p)
  BY <1>10, <1>b, <1>c, DeathEffect
<1> QED BY <1>1, <1>2, <1>3, <1>4, <1>5, <1>6, <1>7, <1>8, <1>9, <1>10 DEF WorkerStep

\* A step of the backend keeps the parts of every worker together.
LEMMA BackendSteps ==
    ASSUME TypeOK, StepInv, FreshInv, BackendStep
    PROVE  \A q \in Pids : Steady(q)'
<1>0. \A q \in Pids : Steady(q)
  BY DEF StepInv, Steady
<1>1. \A q \in Rounds : task'[q].round = task[q].round
  BY BackendTasks DEF Treated
<1>a. ASSUME NEW q \in Pids, worker[q].step = "begin" /\ worker[q].resumed
      PROVE  worker[q].run \in Rounds /\ task[worker[q].run].round # 0
  BY <1>a, AtRun DEF StepInv
<1>2. ASSUME NEW q \in Pids, worker'[q] = worker[q] PROVE Steady(q)'
  BY <1>0, <1>1, <1>2, <1>a, SteadyKept
<1>3. ASSUME NEW p \in Pids, NEW r \in Rounds, NEW resumed \in BOOLEAN, Given(p, r, resumed),
             resumed => task[r].round # 0
      PROVE  \A q \in Pids : Steady(q)'
  <2>1. r # 0 /\ (resumed => task'[r].round # 0)
    BY <1>1, <1>3, BoundIsNat
  <2>2. Steady(p)'
    BY <1>3, <2>1 DEF Given, Steady
  <2> QED BY <1>2, <1>3, <2>2 DEF Given, Others
<1>4. ASSUME NEW p \in Pids, Launch(p) PROVE \A q \in Pids : Steady(q)'
  <2>1. PICK r \in Rounds : r = op.run /\ Given(p, r, FALSE)
    BY <1>4, LaunchEffect
  <2> QED BY <1>3, <2>1
<1>5. ASSUME NEW t \in Rounds, NEW p \in Pids, Resume(t, p) PROVE \A q \in Pids : Steady(q)'
  BY <1>3, <1>5, ResumeEffect
<1> QED BY <1>2, <1>4, <1>5, BackendWorkers

\* Nothing runs in the backend's worker while the backend does something else.
LEMMA ProxyStep ==
    ASSUME TypeOK, StepInv, [Next]_vars
    PROVE  op' # NoOp /\ proxy' # "nobody" => worker'[proxy'].step = "idle"
<1>0. proxy \in Pids \union {"nobody"} /\ op \in Operation /\ "nobody" \notin Pids
  BY Owners DEF TypeOK, Operation
<1>1. CASE BackendStep
  <2>1. CASE UNCHANGED worker
    <3>1. UNCHANGED proxy \/ op' = NoOp
      BY <1>1 DEF BackendStep, Look, Cancel, Stop, StopRound, Cut, Restart, Send, FinishSaved,
                  Launch, Resume, Delete, Busy
    <3>2. op # NoOp \/ ~Busy \/ op' = op \/ op' = NoOp
      <4>1. \A r, place : Send(r, place) => ~Busy
        BY DEF Send
      <4>2. \A n, all : Delete(n, all) => ~Busy
        BY DEF Delete
      <4>3. Stop => ~Busy
        BY DEF Stop
      <4>4. Look \/ (\E t \in Rounds, p \in Pids : Resume(t, p)) => op' = op
        BY DEF Look, Resume
      <4>5. Cut \/ Restart \/ (\E p \in Pids : Launch(p)) => op' = NoOp
        BY DEF Cut, Restart, Launch
      <4>6. Cancel \/ StopRound \/ (\E t \in Rounds : FinishSaved(t)) => op # NoOp
        BY NoOpFields DEF Cancel, StopRound, FinishSaved
      <4> QED BY <1>1, <4>1, <4>2, <4>3, <4>4, <4>5, <4>6 DEF BackendStep
    <3>3. ~Busy /\ proxy \in Pids => worker[proxy].step = "idle"
      BY <1>0 DEF Busy, StepInv, Alive
    <3> QED BY <1>0, <2>1, <3>1, <3>2, <3>3 DEF StepInv
  <2>2. ASSUME NEW p \in Pids, Launch(p) PROVE op' = NoOp
    BY <2>2, LaunchEffect
  <2>3. ASSUME NEW t \in Rounds, NEW p \in Pids, Resume(t, p) PROVE op' = NoOp
    BY <2>3, ResumeEffect
  <2> QED BY <1>1, <2>1, <2>2, <2>3, BackendWorkers
<1>2. ASSUME NEW p \in Pids, WorkerStep(p)
      PROVE  op' # NoOp /\ proxy' # "nobody" => worker'[proxy'].step = "idle"
  <2>1. UNCHANGED <<proxy, op>>
    BY <1>2 DEF WorkerStep, Begin, BeginResumed, Open, Event, SaveTask, Complete, Halt, Quit,
                Suspend, Close, Clean, Leave, Crash
  <2>2. \/ worker[p].step # "idle" /\ (Others(p) \/ UNCHANGED worker)
        \/ Others(p) /\ worker'[p].step = "idle"
    <3>1. CASE Begin(p) \/ BeginResumed(p)
      BY <3>1, BeginEffect, BeginResumedEffect DEF Drops, Goes
    <3>2. CASE Open(p) \/ Event(p) \/ SaveTask(p)
      BY <3>2, OpenEffect, EventEffect, SaveTaskEffect DEF Goes
    <3>3. CASE Complete(p) \/ Halt(p) \/ Quit(p) \/ Suspend(p)
      BY <3>3, EndEffect, LeaveOffEffect DEF Goes
    <3>4. CASE Close(p) \/ Clean(p) \/ Leave(p) \/ Crash(p)
      BY <3>4, CloseEffect, CleanEffect, DeathEffect DEF Drops, Goes
    <3> QED BY <1>2, <3>1, <3>2, <3>3, <3>4 DEF WorkerStep
  <2> QED BY <1>0, <2>1, <2>2 DEF StepInv, Others
<1>3. CASE UNCHANGED vars
  BY <1>3 DEF vars, StepInv
<1> QED BY <1>1, <1>2, <1>3 DEF Next

\* StepInv is kept.
LEMMA StepStep ==
    ASSUME TypeOK, StepInv, FreshInv, [Next]_vars
    PROVE  StepInv'
<1>1. \A q \in Pids : Steady(q)'
  <2>1. CASE UNCHANGED vars
    <3>1. \A q \in Pids : Steady(q)
      BY DEF StepInv, Steady
    <3> QED BY <2>1, <3>1 DEF vars, Steady
  <2> QED BY <2>1, WorkerSteps, BackendSteps DEF Next
<1>2. (op.kind = "send" => op.run # 0)' /\ (op.kind = "cut" => op.cut # NoCut)'
  <2>1. (op.kind = "send" => op.run # 0) /\ (op.kind = "cut" => op.cut # NoCut)
    BY DEF StepInv
  <2>2. CASE BackendStep
    BY <2>1, <2>2, OperationEffect, NoOpFields, BoundIsNat
  <2>3. CASE UNCHANGED op
    BY <2>1, <2>3
  <2>4. ASSUME NEW p \in Pids, WorkerStep(p) PROVE UNCHANGED op
    BY <2>4 DEF WorkerStep, Begin, BeginResumed, Open, Event, SaveTask, Complete, Halt, Quit,
                Suspend, Close, Clean, Leave, Crash
  <2>5. UNCHANGED vars => UNCHANGED op
    BY DEF vars
  <2> QED BY <2>2, <2>3, <2>4, <2>5 DEF Next
<1>3. (op # NoOp /\ proxy # "nobody" => worker[proxy].step = "idle")'
  BY ProxyStep
<1> QED BY <1>1, <1>2, <1>3 DEF StepInv, Steady

-----------------------------------------------------------------------------
(* The requests before their first event.                                  *)

\* What FreshInv says, part by part.
RunInv ==
    op.run # 0 => ask[op.run].asked /\ task[op.run] = NoTask /\
                  \A p \in Pids : worker[p].run # op.run

DoneInv == op.done # 0 => task[op.done].state # "none"

UnaskedInv ==
    \A r \in Rounds : ~ask[r].asked => task[r] = NoTask /\ \A p \in Pids : worker[p].run # r

NewInv ==
    \A p \in Pids : New(p) =>
        /\ \A q \in Pids \ {p} : worker[q].run # worker[p].run
        /\ worker[p].step = "begin" => task[worker[p].run] = NoTask
        /\ worker[p].step = "begun" => task[worker[p].run].owner = p

NowhereInv ==
    \A r \in Fresh :
        /\ r \notin Ids(history) /\ pend.id # r
        /\ \A t \in Rounds : task[t].round # r
        /\ \A p \in Pids : worker[p].round # r
        /\ task[r].round = 0

\* The parts are the whole.
LEMMA FreshParts == FreshInv <=> RunInv /\ DoneInv /\ UnaskedInv /\ NewInv /\ NowhereInv
  BY DEF FreshInv, RunInv, DoneInv, UnaskedInv, NewInv, NowhereInv

\* A fresh round is a round.
LEMMA FreshAreRounds ==
    ASSUME TypeOK PROVE Fresh \subseteq Rounds
<1>1. op.run \in 0..MaxRounds /\ \A p \in Pids : worker[p].run \in 0..MaxRounds
  BY WorkerTypes DEF TypeOK
<1> QED BY <1>1, BoundIsNat DEF Fresh

\* The round of a request that is not new is not fresh.
LEMMA RunNotFresh ==
    ASSUME TypeOK, FreshInv, NEW p \in Pids, ~New(p)
    PROVE  worker[p].run \notin Fresh
<1>1. worker[p].run # 0 => worker[p].run \in Rounds
  BY WorkerTypes, BoundIsNat
<1> QED BY <1>1, FreshParts DEF RunInv, UnaskedInv, NewInv, Fresh

-----------------------------------------------------------------------------

\* What one step of a worker may do to what FreshInv is about.
Moves(p) ==
    /\ UNCHANGED <<op, ask>>
    /\ Others(p) /\ worker'[p].run \in {worker[p].run, 0}
    /\ New(p)' => New(p) /\ worker'[p].step = "begun" /\ worker'[p].run = worker[p].run
                         /\ task'[worker[p].run].owner = p
    /\ \A t \in Rounds : t # worker[p].run => task'[t] = task[t]
    /\ \A t \in Rounds : task[t].state # "none" => task'[t].state # "none"
    /\ \A t \in Rounds : \/ task'[t].round \in {0, task[t].round}
                         \/ task'[t].round = worker[p].round /\ t = worker[p].run /\ ~New(p)
    /\ \/ worker'[p].round \in {0, worker[p].round, pend.id} \union {task[t].round : t \in Rounds}
       \/ worker'[p].round = worker[p].run /\ ~New(p)'

\* Every step of a worker is such a move.
LEMMA WorkerMoves ==
    ASSUME TypeOK, StepInv, NEW p \in Pids, WorkerStep(p)
    PROVE  Moves(p)
<1>a. ASSUME NEW r \in Rounds, r = worker[p].run, NEW state, NEW owner, NEW round,
             Rows(r, state, owner, round), state # "none" \/ state = task[r].state,
             round \in {0, task[r].round} \/ (round = worker[p].round /\ ~New(p))
      PROVE  /\ \A t \in Rounds : t # worker[p].run => task'[t] = task[t]
             /\ \A t \in Rounds : task[t].state # "none" => task'[t].state # "none"
             /\ \A t \in Rounds : \/ task'[t].round \in {0, task[t].round}
                                  \/ task'[t].round = worker[p].round /\ t = worker[p].run /\ ~New(p)
  BY <1>a DEF Rows
<1>b. ASSUME NEW life, Drops(p, life)
      PROVE  Others(p) /\ worker'[p].run = 0 /\ ~New(p)' /\ worker'[p].round = 0
  BY <1>b DEF Drops, New
<1>1. CASE Begin(p)
  <2>1. worker[p].step = "begin" /\ New(p) /\ UNCHANGED <<op, ask>> /\ worker[p].run \in Rounds
    BY <1>1, BeginEffect, AtRun
  <2>2. CASE Drops(p, "alive") /\ task' = task
    BY <1>b, <2>1, <2>2 DEF Moves
  <2>3. ASSUME NEW place, Goes(p, "begun", worker[p].round, place, worker[p].pid),
               Rows(worker[p].run, "running", p, 0)
        PROVE  Moves(p)
    <3>1. PICK r \in Rounds : r = worker[p].run
      BY <2>1
    <3>2. task'[r].owner = p /\ Rows(r, "running", p, 0)
      BY <2>3, <3>1 DEF Rows
    <3> QED BY <1>a, <2>1, <2>3, <3>1, <3>2 DEF Moves, Goes, New
  <2> QED BY <1>1, <2>2, <2>3, BeginEffect
<1>2. CASE BeginResumed(p)
  <2>1. worker[p].step = "begin" /\ ~New(p) /\ UNCHANGED <<op, ask>> /\ worker[p].run \in Rounds
    BY <1>2, BeginResumedEffect, AtRun
  <2>2. CASE Drops(p, "alive") /\ task' = task
    BY <1>b, <2>1, <2>2 DEF Moves
  <2>3. ASSUME NEW place, NEW round, NEW pid, Goes(p, "open", round, place, pid),
               round \in {pend.id} \union {task[t].round : t \in Rounds},
               Rows(worker[p].run, "running", p, task[worker[p].run].round)
        PROVE  Moves(p)
    <3>1. PICK r \in Rounds : r = worker[p].run
      BY <2>1
    <3>2. Rows(r, "running", p, task[r].round)
      BY <2>3, <3>1
    <3>3. ~New(p)'
      BY <2>3 DEF Goes, New
    <3> QED BY <1>a, <2>1, <2>3, <3>1, <3>2, <3>3 DEF Moves, Goes
  <2> QED BY <1>2, <2>1, <2>2, <2>3, BeginResumedEffect
<1>3. CASE Open(p)
  <2>1. ~New(p)'
    BY <1>3, OpenEffect DEF Goes, New
  <2> QED BY <1>3, <2>1, OpenEffect DEF Moves, Goes
<1>4. CASE Event(p)
  <2>1. ~New(p)'
    BY <1>4, EventEffect DEF New
  <2> QED BY <1>4, <2>1, EventEffect DEF Moves, Others
<1>5. CASE SaveTask(p)
  <2>1. ~New(p)' /\ ~New(p)
    BY <1>5, SaveTaskEffect DEF New
  <2>2. PICK r \in Rounds : r = worker[p].run
    BY <1>5, SaveTaskEffect
  <2>3. Rows(r, task[r].state, task[r].owner, worker[p].round)
    BY <1>5, <2>2, SaveTaskEffect
  <2> QED BY <1>5, <1>a, <2>1, <2>2, <2>3, SaveTaskEffect DEF Moves, Others
<1>6. CASE Complete(p) \/ Halt(p)
  <2>1. ~New(p)'
    BY <1>6, EndEffect DEF New, Goes
  <2> QED BY <1>6, <2>1, EndEffect DEF Moves, Goes
<1>7. CASE Quit(p) \/ Suspend(p)
  <2>1. ~New(p)'
    BY <1>7, LeaveOffEffect DEF New, Goes
  <2>2. PICK r \in Rounds : r = worker[p].run
    BY <1>7, LeaveOffEffect
  <2>3. task' = task \/ Rows(r, "suspended", task[r].owner, task[r].round)
    BY <1>7, <2>2, LeaveOffEffect
  <2> QED BY <1>7, <1>a, <2>1, <2>2, <2>3, LeaveOffEffect DEF Moves, Goes
<1>8. CASE Close(p)
  <2>1. Others(p) /\ ~New(p)' /\ worker'[p].run \in {worker[p].run, 0} /\ worker'[p].round \in {worker[p].round, 0}
    BY <1>8, <1>b, CloseEffect DEF New, Goes
  <2>2. PICK r \in Rounds : r = worker[p].run
    BY <1>8, CloseEffect
  <2>3. PICK state \in {"suspended", "ended"} : Rows(r, state, task[r].owner, task[r].round)
    BY <1>8, <2>2, CloseEffect
  <2> QED BY <1>8, <1>a, <2>1, <2>2, <2>3, CloseEffect DEF Moves
<1>9. CASE Clean(p)
  BY <1>9, <1>b, CleanEffect DEF Moves
<1>10. CASE Leave(p) \/ Crash(p)
  BY <1>10, <1>b, DeathEffect DEF Moves
<1> QED BY <1>1, <1>2, <1>3, <1>4, <1>5, <1>6, <1>7, <1>8, <1>9, <1>10 DEF WorkerStep

\* The rounds that come into the files were known before, or have their first event.
LEMMA FilesFresh ==
    ASSUME TypeOK, StepInv, [Next]_vars, NEW r \in Rounds, r \in Ids(history') \/ pend'.id = r
    PROVE  \/ r \in Ids(history) \/ pend.id = r
           \/ \E p \in Pids : worker[p].round = r
           \/ \E t \in Rounds : task[t].round = r
           \/ \E p \in Pids : Open(p) /\ worker[p].run = r
<1>0. NoPend.id = 0 /\ r # 0
  BY BoundIsNat DEF NoPend
<1>a. ASSUME NEW x, NEW place, Written(Now, x, place)
      PROVE  /\ Ids(history') \subseteq Ids(history) \union {x}
             /\ pend' = NoPend \/ pend' = pend
  BY <1>a, WrittenTypes DEF Now, Written
<1>1. CASE UNCHANGED files
  <2>1. Ids(history') = Ids(history) /\ pend' = pend
    BY <1>1 DEF files, Ids
  <2> QED BY <2>1
<1>2. CASE ByCheckpoint
  <2>1. CASE Cleared(Now)
    <3>1. Ids(history') = Ids(history) /\ pend' = NoPend
      BY <2>1 DEF Cleared, Now, Ids
    <3> QED BY <1>0, <3>1
  <2>2. ASSUME NEW place, Written(Now, pend.id, place)
        PROVE  r \in Ids(history) \/ pend.id = r
    BY <1>0, <1>a, <2>2
  <2> QED BY <1>2, <2>1, <2>2 DEF ByCheckpoint
<1>3. ASSUME NEW p \in Pids, Open(p)
      PROVE  r \in Ids(history) \/ pend.id = r \/ worker[p].run = r
  <2>1. history' = history /\ (pend' = pend \/ pend'.id = worker[p].run)
    BY <1>3, OpenEffect
  <2>2. Ids(history') = Ids(history)
    BY <2>1 DEF Ids
  <2> QED BY <2>1, <2>2
<1>4. ASSUME NEW p \in Pids, Event(p)
      PROVE  r \in Ids(history) \/ worker[p].round = r
  <2>1. history' = history /\ pend'.id = worker[p].round
    BY <1>4, EventEffect
  <2>2. Ids(history') = Ids(history)
    BY <2>1 DEF Ids
  <2> QED BY <2>1, <2>2
<1>5. ASSUME NEW p \in Pids, ByWorker(p)
      PROVE  r \in Ids(history) \/ pend.id = r \/ worker[p].round = r
  <2>1. Written(Now, worker[p].round, worker[p].place)
    BY <1>5 DEF ByWorker
  <2> QED BY <1>0, <1>a, <2>1
<1>6. ASSUME NEW t \in Rounds, BySaved(t)
      PROVE  r \in Ids(history) \/ pend.id = r \/ task[t].round = r
  <2>1. Written(Now, task[t].round, SavedPlace(t))
    BY <1>6 DEF BySaved
  <2> QED BY <1>0, <1>a, <2>1
<1>7. CASE Cut /\ UNCHANGED pend
  BY <1>7, CutTypes
<1>8. CASE UNCHANGED history /\ pend' = NoPend
  <2>1. Ids(history') = Ids(history)
    BY <1>8 DEF Ids
  <2> QED BY <1>0, <1>8, <2>1
<1> QED BY <1>1, <1>2, <1>3, <1>4, <1>5, <1>6, <1>7, <1>8, FilesChange

\* A step of a worker keeps FreshInv.
LEMMA WorkerFresh ==
    ASSUME TypeOK, StepInv, FreshInv, NEW p \in Pids, WorkerStep(p)
    PROVE  FreshInv'
<1>0. Moves(p)
  BY WorkerMoves
<1>1. RunInv /\ DoneInv /\ UnaskedInv /\ NewInv /\ NowhereInv
  BY FreshParts
<1>2. /\ op.run # 0 => op.run \in Rounds
      /\ op.done # 0 => op.done \in Rounds
      /\ \A q \in Pids : New(q) => worker[q].run \in Rounds /\ worker[q].run # 0
  BY AtRun, BoundIsNat DEF TypeOK, New, StepInv
<1>3. ASSUME NEW q \in Pids, q # p PROVE worker'[q] = worker[q] /\ (New(q)' <=> New(q))
  BY <1>0, <1>3 DEF Moves, Others, New
<1>4. RunInv'
  BY <1>0, <1>1, <1>2, <1>3 DEF Moves, RunInv
<1>5. DoneInv'
  BY <1>0, <1>1, <1>2 DEF Moves, DoneInv
<1>6. UnaskedInv'
  <2> SUFFICES ASSUME NEW r \in Rounds, ~ask[r].asked
               PROVE  task'[r] = NoTask /\ \A q \in Pids : worker'[q].run # r
    BY <1>0 DEF Moves, UnaskedInv
  <2>1. task[r] = NoTask /\ (\A q \in Pids : worker[q].run # r) /\ r # 0
    BY <1>1, BoundIsNat DEF UnaskedInv
  <2> QED BY <1>0, <1>3, <2>1 DEF Moves
<1>7. NewInv'
  <2> SUFFICES ASSUME NEW q \in Pids, New(q)'
               PROVE  /\ \A s \in Pids \ {q} : worker'[s].run # worker'[q].run
                      /\ worker'[q].step = "begin" => task'[worker'[q].run] = NoTask
                      /\ worker'[q].step = "begun" => task'[worker'[q].run].owner = q
    BY DEF NewInv
  <2>1. CASE q = p
    <3>1. /\ New(p) /\ worker'[p].step = "begun" /\ worker'[p].run = worker[p].run
          /\ task'[worker[p].run].owner = p
      BY <1>0, <2>1 DEF Moves
    <3>2. \A s \in Pids \ {p} : worker[s].run # worker[p].run
      BY <1>1, <3>1 DEF NewInv
    <3> QED BY <1>3, <2>1, <3>1, <3>2
  <2>2. CASE q # p
    <3>1. New(q) /\ worker'[q] = worker[q] /\ worker[q].run # 0 /\ worker[q].run \in Rounds
      BY <1>2, <1>3, <2>2
    <3>2. \A s \in Pids \ {q} : worker[s].run # worker[q].run
      BY <1>1, <3>1 DEF NewInv
    <3>3. worker'[p].run # worker[q].run /\ worker[p].run # worker[q].run
      BY <1>0, <2>2, <3>1, <3>2 DEF Moves
    <3>4. task'[worker[q].run] = task[worker[q].run]
      BY <1>0, <3>1, <3>3 DEF Moves
    <3>5. \A s \in Pids \ {q} : worker'[s].run # worker[q].run
      BY <1>3, <3>2, <3>3
    <3>6. /\ worker[q].step = "begin" => task[worker[q].run] = NoTask
          /\ worker[q].step = "begun" => task[worker[q].run].owner = q
      BY <1>1, <3>1 DEF NewInv
    <3> QED BY <3>1, <3>4, <3>5, <3>6
  <2> QED BY <2>1, <2>2
<1>8. Fresh' \subseteq Fresh /\ (~New(p)' => worker[p].run \notin Fresh')
  <2>1. {worker'[q].run : q \in {s \in Pids : New(s)'}} \subseteq
        {worker[q].run : q \in {s \in Pids : New(s)}}
    BY <1>0, <1>3 DEF Moves
  <2>2. UNCHANGED <<op, ask>>
    BY <1>0 DEF Moves
  <2>3. Fresh' = ({op'.run} \union {r \in Rounds : ~ask'[r].asked}
                  \union {worker'[q].run : q \in {s \in Pids : New(s)'}}) \ {0}
    BY DEF Fresh
  <2>4. ASSUME ~New(p)', worker[p].run # 0
        PROVE  worker[p].run \notin {worker'[q].run : q \in {s \in Pids : New(s)'}}
    BY <1>1, <1>3, <2>4 DEF NewInv
  <2>5. worker[p].run # 0 => worker[p].run \in Rounds
    BY WorkerTypes, BoundIsNat
  <2>6. worker[p].run # 0 => worker[p].run # op.run /\ ask[worker[p].run].asked
    BY <1>1, <2>5 DEF RunInv, UnaskedInv
  <2> QED BY <2>1, <2>2, <2>3, <2>4, <2>6 DEF Fresh
<1>9. NowhereInv'
  <2> SUFFICES ASSUME NEW r \in Fresh'
               PROVE  /\ r \notin Ids(history') /\ pend'.id # r
                      /\ \A t \in Rounds : task'[t].round # r
                      /\ \A q \in Pids : worker'[q].round # r
                      /\ task'[r].round = 0
    BY DEF NowhereInv
  <2>1. /\ r \in Fresh /\ r \in Rounds /\ r # 0
        /\ r \notin Ids(history) /\ pend.id # r
        /\ \A t \in Rounds : task[t].round # r
        /\ \A q \in Pids : worker[q].round # r
        /\ task[r].round = 0
    BY <1>1, <1>8, FreshAreRounds, BoundIsNat DEF NowhereInv
  <2>2. ~New(p) => r # worker[p].run
    BY <2>1, RunNotFresh
  <2>3. ~New(p)' => r # worker[p].run
    BY <1>8
  <2>4. \A q \in Pids : Open(q) => worker[q].run # r
    <3>1. ASSUME NEW q \in Pids, Open(q) PROVE worker[q].run # r
      <4>1. CASE q = p
        <5>1. ~New(p)'
          BY <3>1, <4>1, OpenEffect DEF Goes, New
        <5> QED BY <2>3, <4>1, <5>1
      <4>2. CASE q # p
        <5>1. worker'[q].step = "open" /\ worker[q].step = "begun"
          BY <3>1, OpenEffect DEF Goes
        <5> QED BY <1>3, <4>2, <5>1
      <4> QED BY <4>1, <4>2
    <3> QED BY <3>1
  <2>5. r \notin Ids(history') /\ pend'.id # r
    <3>1. [Next]_vars
      BY DEF Next
    <3> QED BY <2>1, <2>4, <3>1, FilesFresh
  <2>6. \A t \in Rounds : task'[t].round # r
    BY <1>0, <2>1 DEF Moves
  <2>7. task'[r].round = 0
    BY <1>0, <2>1, <2>2 DEF Moves
  <2>8. \A q \in Pids : worker'[q].round # r
    BY <1>0, <1>3, <2>1, <2>3 DEF Moves
  <2> QED BY <2>5, <2>6, <2>7, <2>8
<1> QED BY <1>4, <1>5, <1>6, <1>7, <1>9, FreshParts DEF FreshInv, RunInv, DoneInv, UnaskedInv, NewInv, NowhereInv

-----------------------------------------------------------------------------
\* Only a send makes a request.
LEMMA AskEffect ==
    ASSUME TypeOK, BackendStep
    PROVE  \/ UNCHANGED ask
           \/ \E r \in Rounds, place \in Places :
                /\ Send(r, place) /\ ~ask[r].asked
                /\ ask'[r].asked /\ ask'[r].place = place /\ ask'[r].aim = Aims(place)
                /\ \A q \in Rounds : q # r => ask'[q] = ask[q]
<1>1. ASSUME NEW r \in Rounds, NEW place \in Places, Send(r, place)
      PROVE  /\ Send(r, place) /\ ~ask[r].asked
             /\ ask'[r].asked /\ ask'[r].place = place /\ ask'[r].aim = Aims(place)
             /\ \A q \in Rounds : q # r => ask'[q] = ask[q]
  <2>1. /\ ask' = [ask EXCEPT ![r] = [place |-> place, aim |-> Aims(place), asked |-> TRUE]]
        /\ ~ask[r].asked
    BY <1>1 DEF Send
  <2>2. ask \in [Rounds -> Requested]
    BY DEF TypeOK, Requested
  <2>3. ask'[r] = [place |-> place, aim |-> Aims(place), asked |-> TRUE]
    BY <2>1, <2>2
  <2>4. \A q \in Rounds : q # r => ask'[q] = ask[q]
    BY <2>1, <2>2
  <2>5. ask'[r].asked = TRUE /\ ask'[r].place = place /\ ask'[r].aim = Aims(place)
    BY <2>3
  <2> QED BY <1>1, <2>1, <2>4, <2>5
<1>2. CASE Look \/ Cancel \/ Stop \/ StopRound \/ Cut \/ Restart
  BY <1>2 DEF Look, Cancel, Stop, StopRound, Cut, Restart
<1>3. ASSUME NEW t \in Rounds, FinishSaved(t) PROVE UNCHANGED ask
  BY <1>3 DEF FinishSaved
<1>4. ASSUME NEW p \in Pids, Launch(p) PROVE UNCHANGED ask
  BY <1>4 DEF Launch
<1>5. ASSUME NEW t \in Rounds, NEW p \in Pids, Resume(t, p) PROVE UNCHANGED ask
  BY <1>5 DEF Resume
<1>6. ASSUME NEW n, NEW all, Delete(n, all) PROVE UNCHANGED ask
  BY <1>6 DEF Delete
<1> QED BY <1>1, <1>2, <1>3, <1>4, <1>5, <1>6 DEF BackendStep

\* Who gets a request gets one that has not got its task yet, or a task to resume.
LEMMA BackendGives ==
    ASSUME TypeOK, StepInv, FreshInv, BackendStep
    PROVE  \/ UNCHANGED worker
           \/ \E p \in Pids :
                \/ /\ op' = NoOp /\ UNCHANGED <<task, ask>> /\ op.run \in Rounds /\ op.run # 0
                   /\ op.done = 0 /\ op.kind = "send" /\ Given(p, op.run, FALSE)
                   /\ Launch(p)
                \/ \E t \in Rounds :
                     /\ op = NoOp /\ op' = NoOp /\ UNCHANGED <<files, ask>>
                     /\ task[t].round # 0 /\ Given(p, t, TRUE)
                     /\ task[t].state \in {"running", "suspended"}
                     /\ Resume(t, p)
<1>1. ASSUME NEW p \in Pids, Launch(p)
      PROVE  /\ op' = NoOp /\ UNCHANGED <<task, ask>> /\ op.run \in Rounds /\ op.run # 0
             /\ op.done = 0 /\ op.kind = "send" /\ Given(p, op.run, FALSE)
  BY <1>1, LaunchEffect, BoundIsNat
<1>2. ASSUME NEW t \in Rounds, NEW p \in Pids, Resume(t, p)
      PROVE  /\ op = NoOp /\ op' = NoOp /\ UNCHANGED <<files, ask>>
             /\ task[t].round # 0 /\ Given(p, t, TRUE)
             /\ task[t].state \in {"running", "suspended"}
  BY <1>2, ResumeEffect
<1> QED BY <1>1, <1>2, BackendWorkers

\* A step of the backend keeps FreshInv.
LEMMA BackendFresh ==
    ASSUME TypeOK, StepInv, FreshInv, BackendStep
    PROVE  FreshInv'
<1>1. RunInv /\ DoneInv /\ UnaskedInv /\ NewInv /\ NowhereInv
  BY FreshParts
<1>2. /\ op.run # 0 => op.run \in Rounds
      /\ op.done # 0 => op.done \in Rounds
      /\ \A q \in Pids : New(q) => worker[q].run \in Rounds /\ worker[q].run # 0
      /\ 0 \notin Rounds
  BY AtRun, BoundIsNat DEF TypeOK, New, StepInv
<1>3. \A q \in Rounds : Treated(q)
  BY BackendTasks
<1>a. NoTask.state = "none" /\ NoTask.round = 0
  BY NoTaskFields
<1>4. \A r \in Rounds : task[r] = NoTask => task'[r] = NoTask
  <2>1. ASSUME NEW r \in Rounds, task[r] = NoTask PROVE op.done # r
    BY <1>1, <1>2, <1>a, <2>1 DEF DoneInv
  <2> QED BY <1>3, <2>1 DEF Treated
<1>5. \A r \in Rounds : ~ask'[r].asked => ~ask[r].asked
  BY AskEffect
<1>b. \A r \in Rounds : ask[r].asked => ask'[r].asked
  BY AskEffect
<1>6. op'.run \in {0, op.run} \/ (op = NoOp /\ UNCHANGED worker /\ op'.run \in Rounds
                                  /\ ~ask[op'.run].asked /\ ask'[op'.run].asked)
  <2>1. ASSUME NEW r \in Rounds, NEW place \in Places, Send(r, place)
        PROVE  UNCHANGED worker /\ op'.run = r /\ ask'[r].asked
    <3>1. ask \in [Rounds -> Requested] /\ op' = [NoOp EXCEPT !.kind = "send", !.run = r]
      BY <2>1 DEF TypeOK, Requested, Send
    <3>2. op'.run = r
      BY <3>1, OperationTypes DEF Operation
    <3>3. ask' = [ask EXCEPT ![r] = [place |-> place, aim |-> Aims(place), asked |-> TRUE]]
      BY <2>1 DEF Send
    <3> QED BY <2>1, <3>1, <3>2, <3>3 DEF Send
  <2> QED BY <2>1, OperationEffect, NoOpFields
<1>7. RunInv'
  <2> SUFFICES ASSUME op'.run # 0
               PROVE  ask'[op'.run].asked /\ task'[op'.run] = NoTask
                      /\ \A p \in Pids : worker'[p].run # op'.run
    BY DEF RunInv
  <2>1. CASE op'.run = op.run
    <3>1. /\ op.run \in Rounds /\ ask[op.run].asked /\ task[op.run] = NoTask
          /\ \A p \in Pids : worker[p].run # op.run
      BY <1>1, <1>2, <2>1 DEF RunInv
    <3>2. UNCHANGED worker
      BY <2>1, BackendGives, NoOpFields
    <3> QED BY <1>4, <1>b, <2>1, <3>1, <3>2
  <2>2. CASE op = NoOp /\ UNCHANGED worker /\ op'.run \in Rounds
             /\ ~ask[op'.run].asked /\ ask'[op'.run].asked
    BY <1>1, <1>4, <2>2 DEF UnaskedInv
  <2> QED BY <1>6, <2>1, <2>2
<1>8. DoneInv'
  <2> SUFFICES ASSUME op'.done # 0 PROVE task'[op'.done].state # "none"
    BY DEF DoneInv
  <2>1. op'.done = op.done \/ op'.done \in Left
    BY OperationEffect, NoOpFields
  <2>2. CASE op'.done = op.done
    BY <1>1, <1>2, <1>3, <2>2 DEF DoneInv, Treated
  <2>3. CASE op'.done \in Left
    <3>1. op'.done \in Rounds /\ task[op'.done].state # "none"
      BY <2>3 DEF Left
    <3> QED BY <1>3, <3>1 DEF Treated
  <2> QED BY <2>1, <2>2, <2>3
<1>9. UnaskedInv'
  <2> SUFFICES ASSUME NEW r \in Rounds, ~ask'[r].asked
               PROVE  task'[r] = NoTask /\ \A q \in Pids : worker'[q].run # r
    BY DEF UnaskedInv
  <2>1. ~ask[r].asked /\ task[r] = NoTask /\ (\A q \in Pids : worker[q].run # r) /\ r # 0
    BY <1>1, <1>2, <1>5 DEF UnaskedInv
  <2>2. op.run # 0 => ask[op.run].asked
    BY <1>1 DEF RunInv
  <2>3. ASSUME NEW p \in Pids, NEW t, NEW resumed, Given(p, t, resumed), t # r
        PROVE  \A q \in Pids : worker'[q].run # r
    BY <2>1, <2>3 DEF Given, Others
  <2>4. \A q \in Pids : worker'[q].run # r
    <3>1. CASE UNCHANGED worker
      BY <2>1, <3>1
    <3>2. ASSUME NEW p \in Pids, Given(p, op.run, FALSE), op.run # 0
          PROVE  \A q \in Pids : worker'[q].run # r
      BY <2>1, <2>2, <2>3, <3>2
    <3>3. ASSUME NEW p \in Pids, NEW t \in Rounds, Given(p, t, TRUE), task[t].round # 0
          PROVE  \A q \in Pids : worker'[q].run # r
      BY <1>a, <2>1, <2>3, <3>3
    <3> QED BY <3>1, <3>2, <3>3, BackendGives
  <2> QED BY <1>4, <2>1, <2>4
<1>c. ASSUME NEW q \in Pids, New(q)', worker'[q] = worker[q]
      PROVE  /\ New(q) /\ worker[q].run \in Rounds
             /\ \A s \in Pids \ {q} : worker[s].run # worker[q].run
             /\ worker'[q].step = "begin" => task'[worker'[q].run] = NoTask
             /\ worker'[q].step = "begun" => task'[worker'[q].run].owner = q
             /\ task[worker[q].run].round = 0
  <2>1. New(q) /\ worker[q].run \in Rounds /\ worker[q].run # 0 /\ worker[q].life = "alive"
    BY <1>2, <1>c, AtRun DEF New
  <2>2. worker[q].run \in Fresh
    BY <2>1 DEF Fresh
  <2>3. /\ \A s \in Pids \ {q} : worker[s].run # worker[q].run
        /\ worker[q].step = "begin" => task[worker[q].run] = NoTask
        /\ worker[q].step = "begun" => task[worker[q].run].owner = q
    BY <1>1, <2>1 DEF NewInv
  <2>4. worker[q].step = "begun" => task'[worker[q].run].owner = q
    BY <1>3, <2>1, <2>3, Owners DEF Treated, Alive
  <2> QED BY <1>1, <1>4, <1>c, <2>1, <2>2, <2>3, <2>4 DEF NowhereInv
<1>10. NewInv'
  <2> SUFFICES ASSUME NEW q \in Pids, New(q)'
               PROVE  /\ \A s \in Pids \ {q} : worker'[s].run # worker'[q].run
                      /\ worker'[q].step = "begin" => task'[worker'[q].run] = NoTask
                      /\ worker'[q].step = "begun" => task'[worker'[q].run].owner = q
    BY DEF NewInv
  <2>1. CASE UNCHANGED worker
    BY <1>c, <2>1
  <2>2. ASSUME NEW p \in Pids, Given(p, op.run, FALSE), UNCHANGED task, op.run # 0
        PROVE  /\ \A s \in Pids \ {q} : worker'[s].run # worker'[q].run
               /\ worker'[q].step = "begin" => task'[worker'[q].run] = NoTask
               /\ worker'[q].step = "begun" => task'[worker'[q].run].owner = q
    <3>1. task[op.run] = NoTask /\ \A s \in Pids : worker[s].run # op.run
      BY <1>1, <2>2 DEF RunInv
    <3>2. CASE q = p
      BY <2>2, <3>1, <3>2 DEF Given, Others
    <3>3. CASE q # p
      <4>1. worker'[q] = worker[q] /\ worker'[p].run = op.run
        BY <2>2, <3>3 DEF Given, Others
      <4>2. \A s \in Pids \ {q} : s # p => worker'[s] = worker[s]
        BY <2>2 DEF Given, Others
      <4> QED BY <1>c, <3>1, <4>1, <4>2
    <3> QED BY <3>2, <3>3
  <2>3. ASSUME NEW p \in Pids, NEW t \in Rounds, Given(p, t, TRUE), task[t].round # 0
        PROVE  /\ \A s \in Pids \ {q} : worker'[s].run # worker'[q].run
               /\ worker'[q].step = "begin" => task'[worker'[q].run] = NoTask
               /\ worker'[q].step = "begun" => task'[worker'[q].run].owner = q
    <3>1. q # p
      BY <2>3, StepStep DEF Given, New
    <3>2. worker'[q] = worker[q] /\ worker'[p].run = t
      BY <2>3, <3>1 DEF Given, Others
    <3>3. \A s \in Pids \ {q} : s # p => worker'[s] = worker[s]
      BY <2>3 DEF Given, Others
    <3>4. worker[q].run # t
      BY <1>c, <2>3, <3>2
    <3> QED BY <1>c, <3>2, <3>3, <3>4
  <2> QED BY <2>1, <2>2, <2>3, BackendGives
<1>11. Fresh' \subseteq Fresh
  <2>1. {r \in Rounds : ~ask'[r].asked} \subseteq {r \in Rounds : ~ask[r].asked}
    BY <1>5
  <2>2. op'.run \in {0, op.run} \union {r \in Rounds : ~ask[r].asked}
    BY <1>6
  <2>3. ASSUME NEW q \in Pids, New(q)'
        PROVE  worker'[q].run \in Fresh
    <3>1. CASE worker'[q] = worker[q]
      BY <1>2, <1>c, <2>3, <3>1 DEF Fresh
    <3>2. ASSUME NEW p \in Pids, Given(p, op.run, FALSE), op.run # 0 PROVE worker'[q].run \in Fresh
      <4>1. CASE q = p
        BY <3>2, <4>1 DEF Given, Fresh
      <4>2. CASE q # p
        BY <3>1, <3>2, <4>2 DEF Given, Others
      <4> QED BY <4>1, <4>2
    <3>3. ASSUME NEW p \in Pids, NEW t \in Rounds, Given(p, t, TRUE) PROVE worker'[q].run \in Fresh
      <4>1. CASE q = p
        BY <2>3, <3>3, <4>1 DEF Given, New
      <4>2. CASE q # p
        BY <3>1, <3>3, <4>2 DEF Given, Others
      <4> QED BY <4>1, <4>2
    <3> QED BY <3>1, <3>2, <3>3, BackendGives
  <2>4. Fresh' = ({op'.run} \union {r \in Rounds : ~ask'[r].asked}
                  \union {worker'[q].run : q \in {s \in Pids : New(s)'}}) \ {0}
    BY DEF Fresh
  <2> QED BY <2>1, <2>2, <2>3, <2>4 DEF Fresh
<1>12. NowhereInv'
  <2> SUFFICES ASSUME NEW r \in Fresh'
               PROVE  /\ r \notin Ids(history') /\ pend'.id # r
                      /\ \A t \in Rounds : task'[t].round # r
                      /\ \A q \in Pids : worker'[q].round # r
                      /\ task'[r].round = 0
    BY DEF NowhereInv
  <2>1. /\ r \in Fresh /\ r \in Rounds /\ r # 0
        /\ r \notin Ids(history) /\ pend.id # r
        /\ \A t \in Rounds : task[t].round # r
        /\ \A q \in Pids : worker[q].round # r
        /\ task[r].round = 0
    BY <1>1, <1>2, <1>11, FreshAreRounds DEF NowhereInv
  <2>2. \A t \in Rounds : task'[t].round = task[t].round
    BY <1>3 DEF Treated
  <2>3. \A q \in Pids : worker'[q].round # r
    BY <2>1, BackendGives DEF Given, Others
  <2>4. \A q \in Pids : Open(q) => worker[q].run # r
    <3>1. ASSUME NEW q \in Pids, Open(q) PROVE worker[q].run # r
      <4>1. worker'[q].round = worker[q].run
        BY <3>1, OpenEffect DEF Goes
      <4> QED BY <2>3, <4>1
    <3> QED BY <3>1
  <2>5. r \notin Ids(history') /\ pend'.id # r
    <3>1. [Next]_vars
      BY DEF Next
    <3> QED BY <2>1, <2>4, <3>1, FilesFresh
  <2> QED BY <2>1, <2>2, <2>3, <2>5
<1> QED BY <1>7, <1>8, <1>9, <1>10, <1>12 DEF FreshInv, RunInv, DoneInv, UnaskedInv, NewInv, NowhereInv

\* FreshInv is kept.
LEMMA FreshStep ==
    ASSUME TypeOK, StepInv, FreshInv, [Next]_vars
    PROVE  FreshInv'
<1>1. CASE UNCHANGED vars
  <2>1. Fresh' = Fresh
    BY <1>1 DEF vars, Fresh, New
  <2>2. Ids(history') = Ids(history)
    BY <1>1 DEF vars, files, Ids
  <2>3. \A p \in Pids : New(p)' <=> New(p)
    BY <1>1 DEF vars, New
  <2>4. /\ history' = history /\ pend' = pend /\ task' = task /\ ask' = ask /\ worker' = worker
        /\ op' = op
    BY <1>1 DEF vars, files
  <2> QED BY <2>1, <2>2, <2>3, <2>4 DEF FreshInv
<1> QED BY <1>1, WorkerFresh, BackendFresh DEF Next

-----------------------------------------------------------------------------
(* What was saved, and the initial states.                                 *)

\* Only an event writes a checkpoint for the first time.
LEMMA SavedEffect ==
    ASSUME [Next]_vars
    PROVE  UNCHANGED saved \/ \E p \in Pids : Open(p) \/ Event(p)
<1>1. CASE BackendStep
  BY <1>1 DEF BackendStep, Look, Cancel, Stop, StopRound, Cut, Restart, Send, FinishSaved,
              Launch, Resume, Delete
<1>2. ASSUME NEW p \in Pids, WorkerStep(p) PROVE UNCHANGED saved \/ Open(p) \/ Event(p)
  BY <1>2 DEF WorkerStep, Begin, BeginResumed, SaveTask, Complete, Halt, Quit,
              Suspend, Close, Clean, Leave, Crash
<1> QED BY <1>1, <1>2 DEF Next, vars, ghosts

\* A checkpoint that is not in the way is that of a round of the history.
LEMMA NotOther ==
    ASSUME TypeOK, NEW r, ~Other(r), pend.id # 0, pend.id # r
    PROVE  pend.id \in Ids(history)
<1>1. pend # NoPend
  BY DEF NoPend
<1>2. Recorded(pend.id)
  BY <1>1 DEF Other
<1> QED BY <1>2 DEF Recorded, Ids

\* SavedInv is kept: a checkpoint goes when its round is in the history.
LEMMA SavedStep ==
    ASSUME TypeOK, StepInv, SavedInv, [Next]_vars
    PROVE  SavedInv'
<1> SUFFICES ASSUME Sure'
             PROVE  saved' \subseteq gone' \union Ids(history') \union {pend'.id}
  BY DEF SavedInv, InFiles, Done
<1>1. /\ saved \subseteq gone \union Ids(history) \union {pend.id}
      /\ gone \union Ids(history) \subseteq gone' \union Ids(history')
      /\ ~weak' /\ saved \subseteq Rounds /\ 0 \notin Rounds /\ NoPend.id = 0
  BY Surely, GhostTypes, BoundIsNat DEF SavedInv, InFiles, Done, Sure, TypeOK, NoPend
<1>2. ASSUME NEW p \in Pids, Open(p) \/ Event(p)
      PROVE  saved' \subseteq gone' \union Ids(history') \union {pend'.id}
  <2>1. CASE UNCHANGED <<pend, saved>>
    BY <1>1, <2>1
  <2>2. ASSUME NEW r, NEW x, pend'.id = r, saved' = saved \union {r}, ~Other(x), x \in {0, r}
        PROVE  saved' \subseteq gone' \union Ids(history') \union {pend'.id}
    <3>1. pend.id \in {0, r} \union Ids(history)
      BY <2>2, NotOther
    <3> QED BY <1>1, <2>2, <3>1
  <2>3. CASE Event(p)
    <3>1. PICK r : r = worker[p].round
      OBVIOUS
    <3>2. pend'.id = r /\ saved' = saved \union {r} /\ ~Other(r)
      BY <1>1, <2>3, <3>1, EventEffect
    <3> QED BY <2>2, <3>2
  <2>4. CASE Open(p)
    <3>1. PICK r : r = worker[p].run
      OBVIOUS
    <3>2. \/ pend'.id = r /\ saved' = saved \union {r} /\ ~Other(0)
          \/ UNCHANGED <<pend, saved>>
      BY <1>1, <2>4, <3>1, OpenEffect
    <3> QED BY <2>1, <2>2, <3>2
  <2> QED BY <1>2, <2>3, <2>4
<1>3. CASE UNCHANGED saved /\ ~\E p \in Pids : Open(p) \/ Event(p)
  <2>0. ASSUME pend.id \in {0} \union Ids(history') \union gone' \union {pend'.id}
        PROVE  saved' \subseteq gone' \union Ids(history') \union {pend'.id}
    BY <1>1, <1>3, <2>0
  <2>1. CASE UNCHANGED files
    BY <2>0, <2>1 DEF files
  <2>a. ASSUME NEW r, NEW place, Written(Now, r, place), pend.id \in {r} \union Ids(history) \union {0}
        PROVE  pend.id \in {0} \union Ids(history') \union gone' \union {pend'.id}
    <3>1. r \in Ids(history')
      BY <2>a, WrittenTypes DEF Now
    <3> QED BY <1>1, <2>a, <3>1
  <2>2. CASE ByCheckpoint
    <3>1. CASE Cleared(Now)
      <4>1. pend.id \in Ids(history')
        BY <3>1 DEF Cleared, Now, Recorded, Ids
      <4> QED BY <2>0, <4>1
    <3>2. ASSUME NEW place, Written(Now, pend.id, place)
          PROVE  saved' \subseteq gone' \union Ids(history') \union {pend'.id}
      BY <2>0, <2>a, <3>2
    <3> QED BY <2>2, <3>1, <3>2 DEF ByCheckpoint
  <2>3. ASSUME NEW p \in Pids, ByWorker(p)
        PROVE  saved' \subseteq gone' \union Ids(history') \union {pend'.id}
    <3>1. PICK r : r = worker[p].round
      OBVIOUS
    <3>2. Written(Now, r, worker[p].place) /\ ~Other(r)
      BY <1>1, <2>3, <3>1 DEF ByWorker
    <3>3. pend.id \in {0, r} \union Ids(history)
      BY <3>2, NotOther
    <3> QED BY <2>0, <2>a, <3>2, <3>3
  <2>4. ASSUME NEW t \in Rounds, BySaved(t)
        PROVE  saved' \subseteq gone' \union Ids(history') \union {pend'.id}
    <3>1. PICK r : r = task[t].round
      OBVIOUS
    <3>2. Written(Now, r, SavedPlace(t)) /\ ~Other(r)
      BY <1>1, <2>4, <3>1 DEF BySaved
    <3>3. pend.id \in {0, r} \union Ids(history)
      BY <3>2, NotOther
    <3> QED BY <2>0, <2>a, <3>2, <3>3
  <2>5. CASE Cut /\ UNCHANGED pend
    BY <2>0, <2>5
  <2> QED BY <1>1, <1>3, <2>1, <2>2, <2>3, <2>4, <2>5, FilesChange
<1> QED BY <1>2, <1>3, SavedEffect

-----------------------------------------------------------------------------

\* What does not depend on the marks holds at first.
LEMMA AtFirst ==
    ASSUME Init
    PROVE  TypeOK /\ StepInv /\ FreshInv /\ SavedInv
<1>0. /\ Old \in Nat /\ MaxRounds \in Nat /\ Old <= MaxRounds /\ 0 \notin Rounds
      /\ End \in Places /\ \A r \in Rounds : r \in 0..MaxRounds
  BY RoundAssumption DEF Rounds, Places
<1>1. /\ \A i \in 1..Old : i \in Rounds
      /\ history = [i \in 1..Old |-> [id |-> i, at |-> i]]
  BY <1>0 DEF Init, Rounds
<1>2. history \in Seq(Entry) /\ Len(history) = Old
  <2>1. \A i \in 1..Old : [id |-> i, at |-> i] \in Entry
    BY <1>1 DEF Entry
  <2>2. history \in [1..Old -> Entry]
    BY <1>1, <2>1
  <2>3. history \in Seq(Entry)
    BY <1>0, <2>2, SeqDef
  <2> QED BY <1>0, <1>1, <2>3, LenProperties
<1>3. /\ pend = NoPend /\ \A r \in Rounds : task[r] = NoTask
      /\ \A p \in Pids : worker[p] = Blank("new")
      /\ proxy = "nobody" /\ main = NoManager /\ op = NoOp
      /\ saved = {} /\ gone = {} /\ stale = FALSE /\ weak = FALSE /\ failed = FALSE
  BY DEF Init
<1>4. task \in [Rounds -> TaskRow]
  <2>1. NoTask \in TaskRow
    BY <1>0 DEF NoTask, TaskRow, TaskStates
  <2> QED BY <2>1 DEF Init
<1>5. ask \in [Rounds -> Requested] /\ \A r \in Rounds : ask[r].asked = (r <= Old)
  <2>1. NoAsk \in [place : Places, aim : 0..MaxRounds, asked : BOOLEAN]
    BY <1>0 DEF NoAsk
  <2>2. PICK n \in Requested : n = NoAsk
    BY <2>1 DEF Requested
  <2>3. \A b \in BOOLEAN : [n EXCEPT !.asked = b] \in Requested /\ [n EXCEPT !.asked = b].asked = b
    BY DEF Requested
  <2>4. ask = [r \in Rounds |-> [n EXCEPT !.asked = (r <= Old)]]
    BY <2>2 DEF Init
  <2>5. \A r \in Rounds : (r <= Old) \in BOOLEAN
    OBVIOUS
  <2> QED BY <2>3, <2>4, <2>5
<1>6. worker \in [Pids -> Generation]
  <2>1. Blank("new") \in Generation
    BY BlankTypes
  <2> QED BY <2>1 DEF Init
<1>7. op \in Operation
  BY <1>3, OperationTypes
<1>8. main \in [made : BOOLEAN, place : Places]
  BY <1>0, <1>3 DEF NoManager
<1>9. TypeOK
  BY <1>2, <1>3, <1>4, <1>5, <1>6, <1>7, <1>8 DEF TypeOK, Requested, Operation, Pends
<1>10. \A p \in Pids : worker[p].step = "idle" /\ worker[p].run = 0 /\ worker[p].round = 0
  BY <1>3, BlankFields
<1>11. op.kind = "none" /\ op.run = 0 /\ op.done = 0 /\ op = NoOp /\ pend.id = 0
  BY <1>3, NoOpFields DEF NoPend
<1>12. StepInv
  BY <1>10, <1>11, <1>3 DEF StepInv
<1>13. \A r \in Rounds : task[r].round = 0
  BY <1>3, NoTaskFields
<1>14. \A r \in Fresh : r \in Rounds /\ r \notin Ids(history)
  <2>1. \A r \in Fresh : r \in Rounds /\ ~(r <= Old)
    BY <1>5, <1>10, <1>11 DEF Fresh, New
  <2>2. \A i \in 1..Len(history) : history[i].id <= Old
    <3>1. \A i \in 1..Old : history[i] = [id |-> i, at |-> i] /\ i <= Old
      BY <1>0, <1>1
    <3> QED BY <1>2, <3>1
  <2> QED BY <2>1, <2>2 DEF Ids
<1>15. FreshInv
  BY <1>0, <1>3, <1>10, <1>11, <1>13, <1>14 DEF FreshInv, New
<1>16. SavedInv
  BY <1>3 DEF SavedInv, InFiles
<1> QED BY <1>9, <1>12, <1>15, <1>16

-----------------------------------------------------------------------------
(* The places.                                                             *)

\* What OwnInv says of one worker.
Own(p) ==
    /\ worker[p].round \in {0, worker[p].run}
    /\ worker[p].step \in {"idle", "begin"} => worker[p].place = End
    /\ worker[p].step \in {"begun", "open"} => worker[p].place = ask[worker[p].run].place
    /\ worker[p].step \in {"closing", "closed"} =>
           \/ worker[p].place = ask[worker[p].run].place
           \/ worker[p].place = End /\ worker[p].round = 0

\* The parts are the whole.
LEMMA OwnParts ==
    OwnInv <=> /\ \A p \in Pids : Own(p)
               /\ \A t \in Rounds : task[t].round \in {0, t}
               /\ pend # NoPend => pend.place = ask[pend.id].place
               /\ main.place = End
  BY DEF OwnInv, Own

\* The place at the end is nothing to keep.
LEMMA EndIsEnd == End.how = "end" /\ End.at = 0 /\ \A h : Rest(h, End) = End
  BY DEF End, Rest

\* The place of a round that may still be written can be used.
LEMMA Fitting ==
    ASSUME PlaceInv, NEW r \in Rounds, Active(r)
    PROVE  /\ ask[r].place.how = "replace" =>
                /\ Fits(history, ask[r].place) /\ ask[r].place.at \in 1..Len(history)
                /\ \/ history[ask[r].place.at].id = r
                   \/ history[ask[r].place.at].id = ask[r].aim /\ r \notin Ids(history)
           /\ Rest(history, ask[r].place) = End
<1>1. ask[r].place.how = "replace" =>
                /\ ask[r].place.at \in 1..Len(history)
                /\ \/ history[ask[r].place.at].id = r
                   \/ history[ask[r].place.at].id = ask[r].aim /\ r \notin Ids(history)
  BY DEF PlaceInv
<1>2. ask[r].place.how = "replace" => Fits(history, ask[r].place)
  BY <1>1 DEF Fits
<1> QED BY <1>1, <1>2 DEF Rest

\* The checkpoint is finished at the place its round was asked for.
LEMMA Aimed ==
    ASSUME OwnInv, pend # NoPend
    PROVE  Aim(pend.place, End) = ask[pend.id].place
           \/ (Aim(pend.place, End) = End /\ ask[pend.id].place.how \notin {"replace", "insert"})
<1>1. pend.place = ask[pend.id].place
  BY OwnParts
<1> QED BY <1>1, EndIsEnd DEF Aim

\* A recovery leaves no place behind.
LEMMA FoundIsEnd ==
    ASSUME TypeOK, OwnInv, PlaceInv, NEW place, Found(place)
    PROVE  place = End
<1>1. ASSUME pend # NoPend PROVE Rest(history, Aim(pend.place, End)) = End
  <2>1. pend.id \in Rounds /\ Active(pend.id)
    BY <1>1, PendTypes DEF Active
  <2> QED BY <1>1, <2>1, Aimed, Fitting, EndIsEnd
<1> QED BY <1>1 DEF Found

\* A saved round is finished at the place its request was asked for.
LEMMA SavedPlaceIs ==
    ASSUME TypeOK, OwnInv, NEW t \in Rounds, task[t].round # 0
    PROVE  SavedPlace(t) = ask[t].place /\ task[t].round = t
<1>1. task[t].round = t /\ main.place = End /\ t # 0
  BY OwnParts, BoundIsNat
<1>2. pend.id = t => pend.place = ask[t].place
  BY <1>1, OwnParts DEF NoPend
<1> QED BY <1>1, <1>2 DEF SavedPlace

\* A request that was made does not change.
LEMMA AskKept ==
    ASSUME TypeOK, FreshInv, [Next]_vars, NEW r \in Rounds, ask[r].asked
    PROVE  ask'[r] = ask[r]
<1>1. CASE BackendStep
  BY <1>1, AskEffect
<1>2. ASSUME NEW p \in Pids, WorkerStep(p) PROVE ask'[r] = ask[r]
  BY <1>2 DEF WorkerStep, Begin, BeginResumed, Open, Event, SaveTask, Complete, Halt, Quit,
              Suspend, Close, Clean, Leave, Crash
<1> QED BY <1>1, <1>2 DEF Next, vars

\* A worker that does not move keeps its round and place.
LEMMA OwnKept ==
    ASSUME TypeOK, StepInv, FreshInv, [Next]_vars, NEW q \in Pids, Own(q), worker'[q] = worker[q]
    PROVE  Own(q)'
<1>1. CASE worker[q].step = "idle"
  BY <1>1 DEF Own
<1>2. CASE worker[q].step # "idle"
  <2>1. worker[q].run \in Rounds /\ ask[worker[q].run].asked
    BY <1>2, AtRun, FreshParts DEF UnaskedInv
  <2>2. ask'[worker[q].run] = ask[worker[q].run]
    BY <2>1, AskKept
  <2> QED BY <2>2 DEF Own
<1> QED BY <1>1, <1>2

\* A step of a worker keeps OwnInv.
LEMMA WorkerOwn ==
    ASSUME TypeOK, StepInv, FreshInv, OwnInv, PlaceInv, ~weak', NEW p \in Pids, WorkerStep(p)
    PROVE  OwnInv'
<1> [Next]_vars
  BY DEF Next
<1>0. /\ \A q \in Pids : Own(q)
      /\ \A t \in Rounds : task[t].round \in {0, t}
      /\ pend # NoPend => pend.place = ask[pend.id].place
      /\ main.place = End
  BY OwnParts
<1>1. main'.place = End /\ ask' = ask
  BY <1>0 DEF WorkerStep, Begin, BeginResumed, Open, Event, SaveTask, Complete, Halt, Quit,
              Suspend, Close, Clean, Leave, Crash
<1>2. \A q \in Pids : q # p => Own(q)'
  <2>1. Moves(p)
    BY WorkerMoves
  <2> QED BY <1>0, <2>1, OwnKept DEF Moves, Others
<1>3. \A t \in Rounds : task'[t].round \in {0, t}
  <2>1. Moves(p) /\ worker[p].round \in {0, worker[p].run}
    BY <1>0, WorkerMoves DEF Own
  <2> QED BY <1>0, <2>1 DEF Moves
<1>4. pend' # NoPend => pend'.place = ask'[pend'.id].place
  <2>1. CASE pend' = pend \/ pend' = NoPend
    BY <1>0, <1>1, <2>1
  <2>2. CASE Open(p)
    <3>1. worker[p].place = ask[worker[p].run].place
      BY <1>0, <2>2, OpenEffect DEF Own
    <3> QED BY <1>1, <2>1, <2>2, <3>1, OpenEffect
  <2>3. CASE Event(p)
    <3>1. worker[p].round = worker[p].run /\ worker[p].place = ask[worker[p].run].place
      BY <1>0, <2>3, EventEffect, BoundIsNat DEF Own
    <3> QED BY <1>1, <2>3, <3>1, EventEffect
  <2>4. CASE ~Open(p) /\ ~Event(p)
    <3>1. CASE Begin(p)
      <4>1. PICK f \in BeginManagers(p) : Files(f)
        BY <3>1 DEF Begin
      <4>2. CASE worker[p].kept
        BY <2>1, <4>1, <4>2 DEF BeginManagers, Files
      <4>3. CASE ~worker[p].kept
        <5>1. f \in Recover(End) /\ End \in Places
          BY <4>1, <4>3 DEF BeginManagers, Places
        <5>2. Recovers(f, End, TRUE)
          BY <5>1, Recovering
        <5> QED BY <2>1, <4>1, <5>2 DEF Recovers, Unwritten, Cleared, Written, Files
      <4> QED BY <4>2, <4>3
    <3>2. CASE Complete(p) \/ Halt(p) \/ Clean(p)
      <4>1. pend' = pend \/ pend' = NoPend
        BY <3>2, WorkerWrites DEF ByWorker, Written, Now, files
      <4> QED BY <2>1, <4>1
    <3>3. CASE ~(Begin(p) \/ Complete(p) \/ Halt(p) \/ Clean(p))
      <4>1. pend' = pend
        BY <2>4, <3>3 DEF WorkerStep, BeginResumed, SaveTask, Quit, Suspend, Close, Leave, Crash, files
      <4> QED BY <2>1, <4>1
    <3> QED BY <3>1, <3>2, <3>3
  <2> QED BY <2>2, <2>3, <2>4
<1>5. Own(p)'
  <2>0. /\ worker[p].round \in {0, worker[p].run}
        /\ worker[p].step \in {"idle", "begin"} => worker[p].place = End
        /\ worker[p].step \in {"begun", "open"} => worker[p].place = ask[worker[p].run].place
        /\ worker[p].step \in {"closing", "closed"} =>
               \/ worker[p].place = ask[worker[p].run].place
               \/ worker[p].place = End /\ worker[p].round = 0
    BY <1>0 DEF Own
  <2>a. ASSUME NEW life, Drops(p, life), worker'[p].place = End PROVE Own(p)'
    BY <2>a DEF Drops, Own
  <2>b. ASSUME worker[p].run \in Rounds, worker[p].step \in {"open", "closed"}
        PROVE  Rest(history, worker[p].place) = End
    <3>1. worker[p].place = ask[worker[p].run].place
      BY <2>0, <2>b DEF StepInv
    <3>2. CASE worker[p].place.how = "replace"
      <4>1. Active(worker[p].run)
        BY <2>b, <3>2 DEF Active
      <4> QED BY <2>b, <3>1, <4>1, Fitting
    <3>3. CASE worker[p].place.how # "replace"
      BY <3>3 DEF Rest
    <3> QED BY <3>2, <3>3
  <2>1. CASE Begin(p)
    <3>1. CASE Drops(p, "alive") /\ worker'[p].place = End
      BY <2>a, <3>1
    <3>2. ASSUME NEW place, place = worker[p].place \/ Found(place),
                 Goes(p, "begun", worker[p].round,
                      IF ask[worker[p].run].place = End THEN place
                      ELSE ask[worker[p].run].place, worker[p].pid)
          PROVE  Own(p)'
      <4>1. place = End
        BY <2>0, <2>1, <3>2, BeginEffect, FoundIsEnd
      <4> QED BY <1>1, <2>0, <3>2, <4>1 DEF Goes, Own
    <3> QED BY <2>1, <3>1, <3>2, BeginEffect
  <2>2. CASE BeginResumed(p)
    <3>1. CASE Drops(p, "alive") /\ worker'[p].place = End
      BY <2>a, <3>1
    <3>2. CASE Goes(p, "open", IF pend # NoPend THEN pend.id ELSE task[worker[p].run].round,
                    IF ask[worker[p].run].place = End THEN worker[p].place
                    ELSE ask[worker[p].run].place, IF pend # NoPend THEN pend.pid ELSE p)
               /\ pend.id \in {0, task[worker[p].run].round}
      <4>1. worker[p].place = End /\ worker[p].run \in Rounds
        BY <2>0, <2>2, BeginResumedEffect, AtRun
      <4>2. task[worker[p].run].round \in {0, worker[p].run}
        BY <1>0, <4>1
      <4>3. (IF pend # NoPend THEN pend.id ELSE task[worker[p].run].round) \in {0, worker[p].run}
        BY <3>2, <4>2
      <4> QED BY <1>1, <3>2, <4>1, <4>3 DEF Goes, Own
    <3> QED BY <2>2, <3>1, <3>2, BeginResumedEffect
  <2>3. CASE Open(p)
    BY <1>1, <2>0, <2>3, OpenEffect DEF Goes, Own
  <2>4. CASE Event(p) \/ SaveTask(p)
    <3>1. worker' = worker
      BY <2>4, EventEffect, SaveTaskEffect
    <3> QED BY <1>1, <2>0, <3>1 DEF Own
  <2>5. CASE Complete(p) \/ Halt(p)
    <3>1. Rest(history, worker[p].place) = End
      BY <2>5, <2>b, EndEffect
    <3> QED BY <2>5, <3>1, EndEffect DEF Goes, Own
  <2>6. CASE Quit(p) \/ Suspend(p)
    BY <1>1, <2>0, <2>6, LeaveOffEffect DEF Goes, Own
  <2>7. CASE Close(p)
    <3>1. CASE Drops(p, "alive") /\ worker'[p].place = End
      BY <2>a, <3>1
    <3>2. CASE Goes(p, "closed", worker[p].round, worker[p].place, worker[p].pid)
      BY <1>1, <2>0, <2>7, <3>2, CloseEffect DEF Goes, Own
    <3> QED BY <2>7, <3>1, <3>2, CloseEffect
  <2>8. CASE Clean(p)
    <3>1. Rest(history, worker[p].place) = End
      BY <2>8, <2>b, CleanEffect
    <3> QED BY <2>8, <2>a, <3>1, CleanEffect
  <2>9. CASE Leave(p) \/ Crash(p)
    BY <2>9, <2>a, DeathEffect
  <2> QED BY <2>1, <2>2, <2>3, <2>4, <2>5, <2>6, <2>7, <2>8, <2>9 DEF WorkerStep
<1> QED BY <1>1, <1>2, <1>3, <1>4, <1>5 DEF OwnInv, Own

\* A step of the backend keeps OwnInv.
LEMMA BackendOwn ==
    ASSUME TypeOK, StepInv, FreshInv, OwnInv, PlaceInv, BackendStep
    PROVE  OwnInv'
<1> [Next]_vars
  BY DEF Next
<1>0. /\ \A q \in Pids : Own(q)
      /\ \A t \in Rounds : task[t].round \in {0, t}
      /\ pend # NoPend => pend.place = ask[pend.id].place
      /\ main.place = End
  BY OwnParts
<1>1. \A q \in Pids : Own(q)'
  <2>1. \A q \in Pids : worker'[q] = worker[q] => Own(q)'
    BY <1>0, OwnKept
  <2>2. ASSUME NEW p \in Pids, NEW r, NEW resumed, Given(p, r, resumed) PROVE \A q \in Pids : Own(q)'
    <3>1. worker[p].place = End
      BY <1>0, <2>2 DEF Own, Given
    <3>2. Own(p)'
      BY <2>2, <3>1 DEF Own, Given
    <3> QED BY <2>1, <2>2, <3>2 DEF Given, Others
  <2> QED BY <2>1, <2>2, BackendGives
<1>2. \A t \in Rounds : task'[t].round \in {0, t}
  BY <1>0, BackendTasks DEF Treated
<1>3. pend' # NoPend => pend'.place = ask'[pend'.id].place
  <2>1. ASSUME pend' = pend, pend # NoPend PROVE pend'.place = ask'[pend'.id].place
    <3>1. pend.id \in Rounds
      BY <2>1, PendTypes
    <3>2. ask[pend.id].asked
      <4>1. pend.id \notin Fresh
        BY FreshParts DEF NowhereInv
      <4> QED BY <3>1, <4>1, BoundIsNat DEF Fresh
    <3>3. ask'[pend.id] = ask[pend.id]
      BY <3>1, <3>2, AskKept
    <3> QED BY <1>0, <2>1, <3>3
  <2>2. pend' = pend \/ pend' = NoPend
    <3>1. ASSUME NEW f, NEW own \in Places, NEW dead, f \in Recover(own) \/ f \in Recoveries(own, FALSE), Files(f)
          PROVE  pend' = pend \/ pend' = NoPend
      <4>1. Recovers(f, own, TRUE) \/ Recovers(f, own, FALSE)
        BY <3>1, Recovering, StopRecovering
      <4> QED BY <3>1, <4>1 DEF Recovers, Unwritten, Cleared, Written, Files
    <3>2. End \in Places /\ main.place \in Places
      BY DEF TypeOK, Places
    <3>3. CASE Look \/ StopRound \/ \E p \in Pids : Launch(p)
      BY <3>1, <3>2, <3>3 DEF Look, StopRound, Launch
    <3>4. ASSUME NEW t \in Rounds, FinishSaved(t) PROVE pend' = pend \/ pend' = NoPend
      BY <3>4, SavedWrites DEF BySaved, Written, Now, files
    <3>5. CASE Cancel \/ Stop \/ Cut \/ Restart
      BY <3>5 DEF Cancel, Stop, Cut, Restart, files
    <3>6. ASSUME NEW r, NEW place, Send(r, place) PROVE pend' = pend
      BY <3>6 DEF Send, files
    <3>7. ASSUME NEW t, NEW p, Resume(t, p) PROVE pend' = pend
      BY <3>7 DEF Resume, files
    <3>8. ASSUME NEW n, NEW all, Delete(n, all) PROVE pend' = pend
      BY <3>8 DEF Delete, files
    <3> QED BY <3>3, <3>4, <3>5, <3>6, <3>7, <3>8 DEF BackendStep
  <2> QED BY <2>1, <2>2
<1>4. main'.place = End
  <2>0. main \in [made : BOOLEAN, place : Places] /\ End \in Places /\ main.place \in Places
    BY DEF TypeOK, Places
  <2>1. CASE Look
    <3>1. PICK f \in Recover(End) : main' = IF f.ok THEN [made |-> TRUE, place |-> f.place] ELSE main
      BY <2>1 DEF Look
    <3>2. f.place = End
      BY <2>0, <3>1, Recovering, FoundIsEnd DEF Found
    <3> QED BY <1>0, <3>1, <3>2
  <2>2. CASE StopRound
    <3>1. PICK f \in Recoveries(main.place, FALSE) : main' = [main EXCEPT !.place = f.place]
      BY <2>2 DEF StopRound
    <3>2. f.place = main.place \/ (pend # NoPend /\ f.place = Rest(history, Aim(pend.place, main.place)))
      BY <2>0, <3>1, StopRecovering
    <3>3. f.place = End
      BY <1>0, <3>2, FoundIsEnd DEF Found
    <3> QED BY <2>0, <3>1, <3>3
  <2>3. ASSUME NEW p \in Pids, Launch(p) PROVE main'.place = End
    BY <1>0, <2>3, LaunchEffect, FoundIsEnd DEF Found
  <2>4. ASSUME NEW t \in Rounds, FinishSaved(t) PROVE main'.place = End
    <3>1. CASE task[t].round = 0 \/ Recorded(task[t].round)
      BY <1>0, <2>4, <3>1 DEF FinishSaved
    <3>2. CASE ~(task[t].round = 0 \/ Recorded(task[t].round))
      <4>1. main' = [main EXCEPT !.place = Rest(history, SavedPlace(t))] /\ t \in Left
        BY <2>4, <3>2 DEF FinishSaved
      <4>2. SavedPlace(t) = ask[t].place
        BY <3>2, SavedPlaceIs
      <4>3. Active(t)
        BY <3>2, <4>1 DEF Left, Active
      <4>4. Rest(history, SavedPlace(t)) = End
        BY <4>2, <4>3, Fitting
      <4> QED BY <2>0, <4>1, <4>4
    <3> QED BY <3>1, <3>2
  <2>5. CASE Restart
    BY <2>5 DEF Restart, NoManager
  <2>6. CASE Cancel \/ Stop \/ Cut
    BY <1>0, <2>6 DEF Cancel, Stop, Cut
  <2>7. ASSUME NEW r, NEW place, Send(r, place) PROVE main'.place = End
    BY <1>0, <2>7 DEF Send
  <2>8. ASSUME NEW t, NEW p, Resume(t, p) PROVE main'.place = End
    BY <1>0, <2>8 DEF Resume
  <2>9. ASSUME NEW n, NEW all, Delete(n, all) PROVE main'.place = End
    BY <1>0, <2>9 DEF Delete
  <2> QED BY <2>1, <2>2, <2>3, <2>4, <2>5, <2>6, <2>7, <2>8, <2>9 DEF BackendStep
<1> QED BY <1>1, <1>2, <1>3, <1>4 DEF OwnInv, Own

\* OwnInv is kept, as long as no known weakness is met.
LEMMA OwnStep ==
    ASSUME TypeOK, StepInv, FreshInv, OwnInv, PlaceInv, [Next]_vars, ~weak'
    PROVE  OwnInv'
<1>1. CASE UNCHANGED vars
  BY <1>1 DEF vars, files, OwnInv
<1> QED BY <1>1, WorkerOwn, BackendOwn DEF Next

-----------------------------------------------------------------------------
(* Who holds a round.                                                      *)

\* Who writes a round into the history.
LEMMA Comes ==
    ASSUME TypeOK, StepInv, [Next]_vars, NEW r, r \in Ids(history') \ Ids(history)
    PROVE  \/ ByCheckpoint /\ pend # NoPend /\ pend.id = r
           \/ \E p \in Pids : ByWorker(p) /\ worker[p].round = r
           \/ \E t \in Rounds : BySaved(t) /\ task[t].round = r
<1>a. ASSUME NEW x, NEW place, Written(Now, x, place) PROVE r = x
  BY <1>a, WrittenTypes DEF Now
<1>b. history' # history
  BY DEF Ids
<1>1. ASSUME ByCheckpoint PROVE pend # NoPend /\ pend.id = r
  BY <1>a, <1>b, <1>1 DEF ByCheckpoint, Cleared, Now
<1>2. ASSUME NEW p \in Pids, ByWorker(p) PROVE worker[p].round = r
  BY <1>a, <1>2 DEF ByWorker
<1>3. ASSUME NEW t \in Rounds, BySaved(t) PROVE task[t].round = r
  BY <1>a, <1>3 DEF BySaved
<1>4. ~Cut
  BY CutTypes
<1>5. ~(\E p \in Pids : Open(p) \/ Event(p)) /\ ~UNCHANGED files
  BY <1>b, OpenEffect, EventEffect DEF files
<1> QED BY <1>b, <1>1, <1>2, <1>3, <1>4, <1>5, FilesChange

\* What the checkpoint file has then.
LEMMA PendChange ==
    ASSUME TypeOK, StepInv, [Next]_vars
    PROVE  pend' \in {pend, NoPend} \/ \E p \in Pids : Open(p) \/ Event(p)
<1>a. ASSUME NEW x, NEW place, Written(Now, x, place) PROVE pend' \in {pend, NoPend}
  BY <1>a DEF Now, Written
<1>1. ByCheckpoint => pend' \in {pend, NoPend}
  BY <1>a DEF ByCheckpoint, Cleared, Now
<1>2. \A p \in Pids : ByWorker(p) => pend' \in {pend, NoPend}
  BY <1>a DEF ByWorker
<1>3. \A t \in Rounds : BySaved(t) => pend' \in {pend, NoPend}
  BY <1>a DEF BySaved
<1> QED BY <1>1, <1>2, <1>3, FilesChange DEF files

\* Who holds a round has held it, has got its first event, or resumes its task.
LEMMA Holds ==
    ASSUME TypeOK, StepInv, [Next]_vars, NEW p \in Pids, NEW r \in Rounds, Held(p, r)'
    PROVE  \/ Held(p, r) /\ worker'[p].pid = worker[p].pid
           \/ Open(p) /\ worker[p].run = r
           \/ BeginResumed(p) /\ worker'[p].round = r
<1>0. worker'[p].life = "alive" /\ worker'[p].round = r /\ r # 0
  BY BoundIsNat DEF Held
<1>a. ASSUME worker'[p] = worker[p] PROVE Held(p, r) /\ worker'[p].pid = worker[p].pid
  BY <1>0, <1>a DEF Held
<1>b. ASSUME NEW step, NEW place, Goes(p, step, worker[p].round, place, worker[p].pid)
      PROVE  Held(p, r) /\ worker'[p].pid = worker[p].pid
  BY <1>0, <1>b DEF Goes, Held
<1>1. ASSUME NEW q \in Pids, NEW s, NEW resumed, Given(q, s, resumed) PROVE worker'[p] = worker[p]
  BY <1>0, <1>1 DEF Given, Others
<1>2. CASE BackendStep
  <2>1. (\E q \in Pids : Launch(q)) \/ (\E t \in Rounds, q \in Pids : Resume(t, q))
        => worker'[p] = worker[p]
    BY <1>1, LaunchEffect, ResumeEffect
  <2> QED BY <1>2, <1>a, <2>1, BackendWorkers
<1>3. ASSUME NEW q \in Pids, q # p, WorkerStep(q) PROVE worker'[p] = worker[p]
  BY <1>3, WorkerMoves DEF Moves, Others
<1>4. ASSUME WorkerStep(p)
      PROVE  \/ Held(p, r) /\ worker'[p].pid = worker[p].pid
             \/ Open(p) /\ worker[p].run = r
             \/ BeginResumed(p) /\ worker'[p].round = r
  <2>1. CASE Begin(p)
    BY <1>0, <1>b, <2>1, BeginEffect DEF Drops
  <2>2. CASE BeginResumed(p)
    BY <1>0, <2>2
  <2>3. CASE Open(p)
    BY <1>0, <2>3, OpenEffect DEF Goes
  <2>4. CASE Event(p) \/ SaveTask(p)
    BY <1>a, <2>4, EventEffect, SaveTaskEffect
  <2>5. CASE Complete(p) \/ Halt(p)
    BY <1>0, <2>5, EndEffect DEF Goes
  <2>6. CASE Quit(p) \/ Suspend(p)
    BY <1>b, <2>6, LeaveOffEffect
  <2>7. CASE Close(p)
    BY <1>0, <1>b, <2>7, CloseEffect DEF Drops
  <2>8. CASE Clean(p) \/ Leave(p) \/ Crash(p)
    BY <1>0, <2>8, CleanEffect, DeathEffect DEF Drops
  <2> QED BY <1>4, <2>1, <2>2, <2>3, <2>4, <2>5, <2>6, <2>7, <2>8 DEF WorkerStep
<1>5. CASE UNCHANGED vars
  BY <1>a, <1>5 DEF vars
<1> QED BY <1>a, <1>2, <1>3, <1>4, <1>5 DEF Next

\* A resumed task has the round of its row, which nobody has.
LEMMA Resumes ==
    ASSUME TypeOK, StepInv, OwnInv, NEW p \in Pids, NEW r \in Rounds, BeginResumed(p), ~weak',
           worker'[p].round = r
    PROVE  /\ worker[p].run = r /\ r \notin Ids(history) /\ \A q \in Pids : ~Held(q, r)
           /\ UNCHANGED files /\ Others(p)
           /\ task'[r].owner = p
           /\ pend.id = r => worker'[p].pid = pend.pid
<1>1. PICK s \in Rounds : s = worker[p].run
  BY AtRun, BeginResumedEffect
<1>2. ~Drops(p, "alive")
  BY BoundIsNat DEF Drops
<1>3. /\ Others(p) /\ UNCHANGED files
      /\ worker'[p].round = (IF pend # NoPend THEN pend.id ELSE task[s].round)
      /\ worker'[p].pid = (IF pend # NoPend THEN pend.pid ELSE p)
      /\ task'[s].owner = p
      /\ pend.id \in {0, task[s].round}
      /\ task[s].round \notin Ids(history)
      /\ \A q \in Pids : ~Held(q, task[s].round)
  BY <1>1, <1>2, BeginResumedEffect DEF Goes, Rows
<1>4. pend # NoPend => pend.id # 0
  BY PendTypes, BoundIsNat
<1>5. task[s].round = r
  BY <1>3, <1>4
<1>6. s = r
  BY <1>5, OwnParts, BoundIsNat
<1>7. pend.id = r => pend # NoPend
  BY BoundIsNat DEF NoPend
<1> QED BY <1>1, <1>3, <1>5, <1>6, <1>7

\* Only a beginning gives a task of a worker another owner.
LEMMA OwnersKept ==
    ASSUME TypeOK, StepInv, NEW q \in Pids, WorkerStep(q), ~Begin(q), ~BeginResumed(q), NEW t \in Rounds
    PROVE  task'[t].owner = task[t].owner
<1>a. ASSUME NEW r \in Rounds, NEW state, NEW round, Rows(r, state, task[r].owner, round)
      PROVE  task'[t].owner = task[t].owner
  BY <1>a DEF Rows
<1>1. CASE Open(q) \/ Event(q) \/ Complete(q) \/ Halt(q) \/ Clean(q) \/ Leave(q) \/ Crash(q)
  BY <1>1, OpenEffect, EventEffect, EndEffect, CleanEffect, DeathEffect
<1>2. CASE SaveTask(q)
  <2>1. PICK r \in Rounds : r = worker[q].run
    BY <1>2, SaveTaskEffect
  <2> QED BY <1>2, <1>a, <2>1, SaveTaskEffect
<1>3. CASE Quit(q) \/ Suspend(q)
  <2>1. PICK r \in Rounds : r = worker[q].run
    BY <1>3, LeaveOffEffect
  <2> QED BY <1>3, <1>a, <2>1, LeaveOffEffect
<1>4. CASE Close(q)
  <2>1. PICK r \in Rounds : r = worker[q].run
    BY <1>4, CloseEffect
  <2>2. \E state : Rows(r, state, task[r].owner, task[r].round)
    BY <1>4, <2>1, CloseEffect
  <2> QED BY <1>a, <2>2
<1> QED BY <1>1, <1>2, <1>3, <1>4 DEF WorkerStep

-----------------------------------------------------------------------------
\* What HeldInv says of one round.
LEMMA HeldParts ==
    ASSUME HeldInv, NEW p \in Pids, NEW r \in Rounds, Held(p, r)
    PROVE  /\ r \notin Ids(history)
           /\ \A q \in Pids : q # p => ~Held(q, r)
           /\ task[r].owner = p
           /\ pend.id = r => pend.pid = worker[p].pid
  BY DEF HeldInv

\* A round that is held has had its first event.
LEMMA HeldNotFresh ==
    ASSUME FreshInv, NEW p \in Pids, NEW r, Held(p, r)
    PROVE  r \notin Fresh
  BY FreshParts DEF NowhereInv, Held

\* A request before its first event has a fresh round.
LEMMA NewIsFresh ==
    ASSUME TypeOK, StepInv, FreshInv, NEW p \in Pids, New(p)
    PROVE  /\ worker[p].run \in Fresh /\ worker[p].run \in Rounds
           /\ worker[p].run \notin Ids(history) /\ pend.id # worker[p].run
           /\ \A q \in Pids : ~Held(q, worker[p].run)
<1>1. worker[p].run \in Rounds
  BY AtRun DEF New
<1>2. worker[p].run \in Fresh
  BY <1>1, BoundIsNat DEF Fresh
<1> QED BY <1>1, <1>2, FreshParts DEF NowhereInv, Held

\* A round that a worker holds goes into the history only by that worker.
LEMMA HeldOut ==
    ASSUME TypeOK, StepInv, FreshInv, OwnInv, HeldInv, [Next]_vars, ~weak',
           NEW p \in Pids, NEW r \in Rounds, Held(p, r)'
    PROVE  r \notin Ids(history')
<1>1. CASE Held(p, r)
  <2> SUFFICES ASSUME r \in Ids(history') PROVE FALSE
    OBVIOUS
  <2>1. /\ r \in Ids(history') \ Ids(history) /\ worker[p].life = "alive" /\ worker[p].round = r
        /\ \A q \in Pids : q # p => ~Held(q, r)
        /\ task[r].owner = p
        /\ pend.id = r => pend.pid = worker[p].pid
    BY <1>1, HeldParts DEF Held
  <2>2. CASE ByCheckpoint /\ pend # NoPend /\ pend.id = r
    <3>1. CASE ~Alive(pend.pid) /\ weak' = (weak \/ Foreign)
      <4>1. worker[p].pid = p
        BY <1>1, <2>2, <3>1 DEF Foreign
      <4>2. Alive(p)
        BY <2>1 DEF Alive
      <4> QED BY <2>1, <2>2, <3>1, <4>1, <4>2
    <3>2. CASE StopRound
      BY <1>1, <2>2, <3>2 DEF StopRound, Weak
    <3> QED BY <2>2, <3>1, <3>2 DEF ByCheckpoint
  <2>3. ASSUME NEW q \in Pids, ByWorker(q), worker[q].round = r PROVE FALSE
    <3>1. q = p
      BY <2>1, <2>3 DEF ByWorker, Held
    <3>2. worker'[p].round = 0
      BY <2>3, <3>1, EndEffect, CleanEffect DEF ByWorker, Goes, Drops
    <3> QED BY <3>2, BoundIsNat DEF Held
  <2>4. ASSUME NEW t \in Rounds, BySaved(t), task[t].round = r PROVE FALSE
    <3>1. t = r
      BY <2>4, OwnParts, BoundIsNat
    <3>2. FinishSaved(t) /\ t \in Left /\ ~(task[t].round = 0 \/ Recorded(task[t].round))
      BY <2>4 DEF BySaved
    <3>3. ~(op.kind = "stop" /\ Alive(task[t].owner))
      BY <3>2 DEF FinishSaved, Weak
    <3>4. Alive(task[t].owner) /\ task[t].owner # "backend"
      BY <2>1, <3>1, Owners DEF Alive
    <3> QED BY <3>2, <3>3, <3>4 DEF FinishSaved, Left
  <2> QED BY <2>1, <2>2, <2>3, <2>4, Comes
<1>2. CASE Open(p) /\ worker[p].run = r
  <2>1. history' = history /\ r \notin Ids(history)
    BY <1>2, OpenEffect, NewIsFresh
  <2> QED BY <2>1 DEF Ids
<1>3. CASE BeginResumed(p) /\ worker'[p].round = r
  <2>1. history' = history /\ r \notin Ids(history)
    BY <1>3, Resumes DEF files
  <2> QED BY <2>1 DEF Ids
<1> QED BY <1>1, <1>2, <1>3, Holds

\* Nobody else gets a round that is held.
LEMMA HeldAlone ==
    ASSUME TypeOK, StepInv, FreshInv, OwnInv, HeldInv, [Next]_vars, ~weak',
           NEW p \in Pids, NEW r \in Rounds, Held(p, r)', NEW q \in Pids, q # p
    PROVE  ~Held(q, r)'
<1> SUFFICES ASSUME Held(q, r)' PROVE FALSE
  OBVIOUS
<1>a. ASSUME NEW x \in Pids, NEW y \in Pids, x # y, Held(y, r)', Open(x) /\ worker[x].run = r
      PROVE  FALSE
  <2>1. Others(x) /\ ~Held(y, r)
    BY <1>a, OpenEffect, NewIsFresh DEF Goes
  <2> QED BY <1>a, <2>1 DEF Others, Held
<1>b. ASSUME NEW x \in Pids, NEW y \in Pids, x # y, Held(y, r)', BeginResumed(x), worker'[x].round = r
      PROVE  FALSE
  <2>1. Others(x) /\ ~Held(y, r)
    BY <1>b, Resumes
  <2> QED BY <1>b, <2>1 DEF Others, Held
<1>1. CASE Held(p, r) /\ Held(q, r)
  BY <1>1, HeldParts
<1>2. CASE ~Held(p, r)
  BY <1>2, <1>a, <1>b, Holds
<1>3. CASE ~Held(q, r)
  BY <1>3, <1>a, <1>b, Holds
<1> QED BY <1>1, <1>2, <1>3

\* The task of a round that is held stays with its holder.
LEMMA HeldOwner ==
    ASSUME TypeOK, StepInv, FreshInv, OwnInv, HeldInv, [Next]_vars, ~weak',
           NEW p \in Pids, NEW r \in Rounds, Held(p, r)'
    PROVE  task'[r].owner = p
<1>1. CASE Held(p, r)
  <2>0. /\ worker[p].life = "alive" /\ worker[p].round = r /\ r # 0 /\ worker[p].run = r
        /\ task[r].owner = p
    BY <1>1, HeldParts, OwnParts, BoundIsNat DEF Held, Own
  <2>1. CASE BackendStep
    <3>1. Alive(p) /\ p # "backend"
      BY <2>0, Owners DEF Alive
    <3> QED BY <2>0, <2>1, <3>1, BackendTasks DEF Treated
  <2>2. ASSUME NEW q \in Pids, WorkerStep(q) PROVE task'[r].owner = p
    <3>1. CASE worker[q].run # r
      BY <2>0, <2>2, <3>1, WorkerMoves DEF Moves
    <3>2. CASE worker[q].run = r /\ Begin(q)
      BY <1>1, <3>2, BeginEffect, NewIsFresh
    <3>3. CASE worker[q].run = r /\ BeginResumed(q)
      <4>1. task[r].round # 0
        BY <3>3, BeginResumedEffect DEF StepInv
      <4>2. task[r].round = r
        BY <4>1, OwnParts
      <4>3. task' = task
        BY <1>1, <3>3, <4>2, BeginResumedEffect
      <4> QED BY <2>0, <4>3
    <3>4. CASE ~Begin(q) /\ ~BeginResumed(q)
      BY <2>0, <2>2, <3>4, OwnersKept
    <3> QED BY <3>1, <3>2, <3>3, <3>4
  <2>3. CASE UNCHANGED vars
    BY <2>0, <2>3 DEF vars
  <2> QED BY <2>1, <2>2, <2>3 DEF Next
<1>2. CASE Open(p) /\ worker[p].run = r
  <2>1. New(p) /\ worker[p].step = "begun" /\ task' = task
    BY <1>2, OpenEffect
  <2>2. task[worker[p].run].owner = p
    BY <2>1, FreshParts DEF NewInv
  <2> QED BY <1>2, <2>1, <2>2
<1>3. CASE BeginResumed(p) /\ worker'[p].round = r
  BY <1>3, Resumes
<1> QED BY <1>1, <1>2, <1>3, Holds

\* The checkpoint of a round that is held has the name its holder writes.
LEMMA HeldPid ==
    ASSUME TypeOK, StepInv, FreshInv, OwnInv, HeldInv, [Next]_vars, ~weak',
           NEW p \in Pids, NEW r \in Rounds, Held(p, r)', pend'.id = r
    PROVE  pend'.pid = worker'[p].pid
<1>0. pend' # NoPend /\ worker'[p].round = r
  BY BoundIsNat DEF NoPend, Held
<1>1. ASSUME NEW q \in Pids, Open(q), pend' # pend PROVE pend'.pid = worker'[p].pid
  <2>1. /\ pend' = [id |-> worker[q].run, pid |-> q, place |-> worker[q].place]
        /\ Goes(q, "open", worker[q].run, worker[q].place, q)
        /\ worker[q].life = "alive"
    BY <1>1, OpenEffect, AtRun DEF New
  <2>2. pend'.id = worker[q].run /\ pend'.pid = q
    BY <2>1
  <2>3. Held(q, r)' /\ worker'[q].pid = q
    BY <2>1, <2>2 DEF Goes, Held
  <2>4. q = p
    BY <2>3, HeldAlone
  <2> QED BY <2>2, <2>3, <2>4
<1>2. ASSUME NEW q \in Pids, Event(q) PROVE pend'.pid = worker'[p].pid
  <2>1. /\ pend' = [id |-> worker[q].round, pid |-> worker[q].pid, place |-> worker[q].place]
        /\ worker' = worker /\ worker[q].life = "alive"
    BY <1>2, EventEffect
  <2>2. pend'.id = worker[q].round /\ pend'.pid = worker[q].pid
    BY <2>1
  <2>3. Held(q, r)'
    BY <2>1, <2>2 DEF Held
  <2>4. q = p
    BY <2>3, HeldAlone
  <2> QED BY <2>1, <2>2, <2>4
<1>3. CASE pend' = pend
  <2>1. CASE Held(p, r) /\ worker'[p].pid = worker[p].pid
    BY <1>3, <2>1, HeldParts
  <2>2. CASE Open(p) /\ worker[p].run = r
    BY <1>3, <2>2, OpenEffect, NewIsFresh
  <2>3. CASE BeginResumed(p) /\ worker'[p].round = r
    BY <1>3, <2>3, Resumes
  <2> QED BY <2>1, <2>2, <2>3, Holds
<1> QED BY <1>0, <1>1, <1>2, <1>3, PendChange

\* HeldInv is kept, as long as no known weakness is met.
LEMMA HeldStep ==
    ASSUME TypeOK, StepInv, FreshInv, OwnInv, HeldInv, [Next]_vars, ~weak'
    PROVE  HeldInv'
<1>1. \A p \in Pids, r \in Rounds : Held(p, r)' =>
        /\ r \notin Ids(history')
        /\ \A q \in Pids \ {p} : ~Held(q, r)'
        /\ task'[r].owner = p
        /\ pend'.id = r => pend'.pid = worker'[p].pid
  BY HeldOut, HeldAlone, HeldOwner, HeldPid
<1> QED BY <1>1 DEF HeldInv, Held

-----------------------------------------------------------------------------
(* Who stands where.                                                       *)

\* The place that a round is to take is watched.
LEMMA Waits ==
    ASSUME TypeOK', StepInv', OwnInv', NEW r \in Rounds, Active(r)', ask'[r].place.how = "replace"
    PROVE  [at |-> ask'[r].place.at, may |-> {r}] \in Waiting'
<1>0. r # 0 /\ "end" # "replace" /\ End.how = "end"
  BY BoundIsNat DEF End
<1>a. ASSUME op'.run = r \/ (\E p \in Pids : At(p, "begin")' /\ worker'[p].run = r)
             \/ (task'[r].state \in {"running", "suspended"} /\ task'[r].round # 0)
      PROVE  [at |-> ask'[r].place.at, may |-> {r}] \in Waiting'
  BY <1>a DEF Waiting
<1>1. CASE pend'.id = r
  <2>1. pend' # NoPend
    BY <1>0, <1>1 DEF NoPend
  <2>2. pend'.place = ask'[r].place
    BY <1>1, <2>1 DEF OwnInv
  <2>3. [at |-> pend'.place.at, may |-> {pend'.id}] \in Waiting'
    BY <2>2 DEF Waiting
  <2> QED BY <1>1, <2>2, <2>3
<1>2. ASSUME NEW p \in Pids, worker'[p].run = r, worker'[p].step = "begin"
      PROVE  At(p, "begin")'
  BY <1>2 DEF StepInv, At
<1>3. ASSUME NEW p \in Pids, worker'[p].run = r, worker'[p].place.how = "replace"
      PROVE  [at |-> ask'[r].place.at, may |-> {r}] \in Waiting'
  <2>1. worker'[p].step \in Steps
    BY DEF TypeOK, Generation
  <2>2. worker'[p].step # "idle"
    BY <1>0, <1>3 DEF StepInv
  <2>3. worker'[p].place # End
    BY <1>0, <1>3
  <2>4. worker'[p].place = ask'[r].place
    BY <1>3, <2>1, <2>2, <2>3 DEF OwnInv, Steps
  <2>5. [at |-> worker'[p].place.at, may |-> {worker'[p].run}] \in Waiting'
    BY <1>3, <2>2 DEF Waiting
  <2> QED BY <1>3, <2>4, <2>5
<1> QED BY <1>a, <1>1, <1>2, <1>3 DEF Active

\* What a step that is not too late may do to a watched place.
LEMMA Undisturbed ==
    ASSUME TypeOK, [Next]_vars, ~stale', NEW w, w \in Waiting'
    PROVE  \/ UNCHANGED vars
           \/ /\ Occupant(history', w.at) \subseteq w.may \union Occupant(history, w.at)
              /\ Occupant(history', w.at) = {} => Occupant(history, w.at) = {}
<1>1. CASE Noted
  <2>1. ~Displaced
    BY <1>1, GhostTypes DEF Noted, TypeOK
  <2> QED BY <2>1 DEF Displaced
<1> QED BY <1>1, GhostTypes

\* A round that may still be written was asked for.
LEMMA ActiveAsked ==
    ASSUME TypeOK, StepInv, FreshInv, NEW r \in Rounds, Active(r)
    PROVE  ask[r].asked
<1>1. r # 0 /\ NoTask.state = "none"
  BY BoundIsNat DEF NoTask
<1>2. CASE op.run = r
  BY <1>1, <1>2, FreshParts DEF RunInv
<1>3. CASE pend.id = r
  <2>1. r \notin Fresh
    BY <1>3, FreshParts DEF NowhereInv
  <2> QED BY <1>1, <2>1 DEF Fresh
<1>4. CASE op.run # r /\ pend.id # r
  BY <1>1, <1>4, FreshParts DEF UnaskedInv, Active
<1> QED BY <1>2, <1>3, <1>4

\* A round of a request whose worker has not ended the generation is active, if it
\* replaces another.
LEMMA ActiveRun ==
    ASSUME TypeOK, StepInv, OwnInv, NEW p \in Pids, NEW r, worker[p].run = r,
           worker[p].step \in {"begin", "begun", "open"}, ask[r].place.how = "replace"
    PROVE  Active(r)
<1>1. worker[p].step # "begin" => worker[p].place = ask[r].place
  BY OwnParts DEF Own
<1> QED BY <1>1 DEF Active

\* Nothing becomes active again.
LEMMA ActiveBefore ==
    ASSUME TypeOK, StepInv, FreshInv, OwnInv, [Next]_vars, NEW r \in Rounds, Active(r)',
           ask'[r].place.how = "replace"
    PROVE  Active(r) \/ \E place \in Places : Send(r, place)
<1>0. r # 0
  BY BoundIsNat
<1>p. ASSUME pend'.id = r PROVE Active(r)
  <2>1. ASSUME NEW p \in Pids, Open(p) PROVE Active(r)
    <3>1. ask' = ask /\ worker[p].step = "begun"
          /\ (pend' = pend \/ pend' = [id |-> worker[p].run, pid |-> p, place |-> worker[p].place])
      BY <2>1, OpenEffect
    <3>2. pend' = pend \/ pend'.id = worker[p].run
      BY <3>1
    <3>3. CASE pend' = pend
      BY <1>p, <3>3 DEF Active
    <3>4. CASE worker[p].run = r
      BY <3>1, <3>4, ActiveRun
    <3> QED BY <1>p, <3>2, <3>3, <3>4
  <2>2. ASSUME NEW p \in Pids, Event(p) PROVE Active(r)
    <3>1. /\ pend' = [id |-> worker[p].round, pid |-> worker[p].pid, place |-> worker[p].place]
          /\ worker[p].step = "open" /\ ask' = ask
      BY <2>2, EventEffect
    <3>2. worker[p].round = r
      BY <1>p, <3>1
    <3>3. worker[p].run = r
      BY <1>0, <3>2, OwnParts DEF Own
    <3> QED BY <3>1, <3>3, ActiveRun
  <2>3. CASE pend' \in {pend, NoPend}
    BY <1>0, <1>p, <2>3 DEF Active, NoPend
  <2> QED BY <2>1, <2>2, <2>3, PendChange
<1>1. CASE BackendStep
  <2>1. CASE op'.run = r
    <3>1. op.run = r \/ \E place \in Places : Send(r, place)
      BY <1>0, <1>1, <2>1, OperationEffect, NoOpFields
    <3> QED BY <3>1 DEF Active
  <2>3. CASE task'[r].state \in {"running", "suspended"} /\ task'[r].round # 0
    BY <1>1, <2>3, BackendTasks DEF Treated, Active
  <2>4. ASSUME NEW p \in Pids, worker'[p].run = r,
               worker'[p].step = "begin" \/ worker'[p].place.how = "replace"
        PROVE  Active(r)
    <3>1. CASE worker'[p] = worker[p]
      BY <2>4, <3>1 DEF Active
    <3>2. ASSUME NEW q \in Pids, Launch(q) PROVE Active(r)
      BY <2>4, <3>1, <3>2, LaunchEffect DEF Given, Others, Active
    <3>3. ASSUME NEW t \in Rounds, NEW q \in Pids, Resume(t, q) PROVE Active(r)
      <4>1. /\ Given(q, t, TRUE) /\ task[t].round # 0
            /\ task[t].state \in {"running", "suspended"}
        BY <3>3, ResumeEffect
      <4>2. CASE p = q
        BY <2>4, <4>1, <4>2 DEF Given, Active
      <4>3. CASE p # q
        BY <3>1, <4>1, <4>3 DEF Given, Others
      <4> QED BY <4>2, <4>3
    <3> QED BY <1>1, <3>1, <3>2, <3>3, BackendWorkers
  <2> QED BY <1>p, <2>1, <2>3, <2>4 DEF Active
<1>2. ASSUME NEW q \in Pids, WorkerStep(q) PROVE Active(r)
  <2>0. UNCHANGED <<op, ask>> /\ Others(q) /\ worker'[q].run \in {worker[q].run, 0}
        /\ \A t \in Rounds : t # worker[q].run => task'[t] = task[t]
    BY <1>2, WorkerMoves DEF Moves
  <2>1. CASE worker[q].run = r /\ worker[q].step \in {"begin", "begun", "open"}
    BY <2>0, <2>1, ActiveRun
  <2>2. CASE ~(worker[q].run = r /\ worker[q].step \in {"begin", "begun", "open"})
    <3>1. CASE op'.run = r
      BY <2>0, <3>1 DEF Active
    <3>3. CASE task'[r].state \in {"running", "suspended"} /\ task'[r].round # 0
      <4>1. CASE worker[q].run # r
        BY <2>0, <3>3, <4>1 DEF Active
      <4>2. CASE worker[q].run = r
        <5>1. CASE Close(q)
          <6>1. PICK state \in {"suspended", "ended"} :
                  /\ state = "suspended" => task[r].state = "suspended"
                  /\ Rows(r, state, task[r].owner, task[r].round)
            BY <4>2, <5>1, CloseEffect
          <6>2. task[r].state = "suspended" /\ task[r].round # 0
            BY <3>3, <6>1 DEF Rows
          <6> QED BY <6>2 DEF Active
        <5>2. CASE ~Close(q)
          <6>1. task' = task
            <7>1. ~Begin(q) /\ ~BeginResumed(q) /\ ~Open(q) /\ ~Event(q) /\ ~SaveTask(q)
                  /\ ~Quit(q) /\ ~Suspend(q) /\ ~Complete(q) /\ ~Halt(q)
              BY <2>2, <4>2, BeginEffect, BeginResumedEffect, OpenEffect, EventEffect,
                 SaveTaskEffect, LeaveOffEffect, EndEffect
            <7>2. Clean(q) \/ Leave(q) \/ Crash(q)
              BY <1>2, <5>2, <7>1 DEF WorkerStep
            <7> QED BY <7>2, CleanEffect, DeathEffect
          <6> QED BY <3>3, <6>1 DEF Active
        <5> QED BY <5>1, <5>2
      <4> QED BY <4>1, <4>2
    <3>4. ASSUME NEW p \in Pids, worker'[p].run = r,
                 worker'[p].step = "begin" \/ worker'[p].place.how = "replace"
          PROVE  Active(r)
      <4>1. CASE worker'[p] = worker[p]
        BY <3>4, <4>1 DEF Active
      <4>2. CASE p = q
        <5>1. worker[q].run = r
          BY <1>0, <2>0, <3>4, <4>2
        <5>2. ~Begin(q) /\ ~BeginResumed(q) /\ ~Open(q) /\ ~Event(q) /\ ~SaveTask(q)
              /\ ~Quit(q) /\ ~Suspend(q) /\ ~Complete(q) /\ ~Halt(q)
          BY <2>2, <5>1, BeginEffect, BeginResumedEffect, OpenEffect, EventEffect,
             SaveTaskEffect, LeaveOffEffect, EndEffect
        <5>3. ~Clean(q) /\ ~Leave(q) /\ ~Crash(q)
          BY <1>0, <3>4, <4>2, CleanEffect, DeathEffect DEF Drops
        <5>4. Close(q) /\ Goes(q, "closed", worker[q].round, worker[q].place, worker[q].pid)
          BY <1>0, <1>2, <3>4, <4>2, <5>2, <5>3, CloseEffect DEF WorkerStep, Drops
        <5>5. worker[q].place.how = "replace"
          BY <3>4, <4>2, <5>4 DEF Goes
        <5> QED BY <5>1, <5>5 DEF Active
      <4> QED BY <2>0, <4>1, <4>2 DEF Others
    <3> QED BY <1>p, <3>1, <3>3, <3>4 DEF Active
  <2> QED BY <2>1, <2>2
<1>3. CASE UNCHANGED vars
  BY <1>3 DEF vars, files, Active
<1> QED BY <1>1, <1>2, <1>3 DEF Next

-----------------------------------------------------------------------------
(* What a write does to the history.                                       *)

Replacing(r) ==
    /\ Active(r)
    /\ ask[r].place.how = "replace" /\ ask[r].place.at \in 1..Len(history)
    /\ Replaces(history, history', r, ask[r].place.at)
    /\ \/ history[ask[r].place.at].id = r
       \/ history[ask[r].place.at].id = ask[r].aim /\ r \notin Ids(history)

Entering(r) ==
    /\ ask[r].place.how # "replace" /\ r \notin Ids(history)
    /\ \E k \in 1..(Len(history) + 1) : Enters(history, history', r, k)

\* A round that is not recorded, and does not replace another, is not there.
LEMMA NotThere ==
    ASSUME TypeOK, PlaceInv, NEW r, ~Recorded(r), ask[r].place.how # "replace"
    PROVE  r \notin Ids(history)
<1> SUFFICES ASSUME NEW i \in 1..Len(history), history[i].id = r PROVE FALSE
  BY DEF Ids
<1>1. history[i] \in Entry
  BY ElementOfSeq DEF TypeOK
<1>2. history[i].at = r
  BY DEF PlaceInv
<1>3. history[i] = [id |-> r, at |-> r]
  BY <1>1, <1>2 DEF Entry
<1> QED BY <1>3 DEF Recorded

\* A write puts the round where it was asked for.
LEMMA Placing ==
    ASSUME TypeOK, PlaceInv, NEW r \in Rounds, NEW place, Written(Now, r, place),
           \/ place = ask[r].place
           \/ place = End /\ ask[r].place.how \notin {"replace", "insert"},
           ask[r].place.how = "replace" => Active(r),
           ask[r].place.how # "replace" => ~Recorded(r) \/ r \notin Ids(history)
    PROVE  Replacing(r) \/ Entering(r)
<1>1. history \in Seq(Entry) /\ place \in Places /\ history' \in Put(history, r, place)
  BY DEF TypeOK, Written, Now
<1>2. PICK g \in Put(history, r, place) : g = history'
  BY <1>1
<1>3. \/ place.how = "replace" /\ Fits(history, place) /\ Replaces(history, history', r, place.at)
      \/ /\ ~(place.how = "replace" /\ Fits(history, place))
         /\ \E k \in 1..(Len(history) + 1) : Enters(history, history', r, k)
  BY <1>1, <1>2, PutShape
<1>4. CASE ask[r].place.how = "replace"
  <2>1. /\ place = ask[r].place /\ Fits(history, place) /\ place.at \in 1..Len(history)
        /\ \/ history[place.at].id = r
           \/ history[place.at].id = ask[r].aim /\ r \notin Ids(history)
    BY <1>4, Fitting
  <2> QED BY <1>3, <1>4, <2>1 DEF Replacing
<1>5. CASE ask[r].place.how # "replace"
  <2>1. place.how # "replace" /\ r \notin Ids(history)
    BY <1>5, NotThere, EndIsEnd
  <2> QED BY <1>3, <1>5, <2>1 DEF Entering
<1> QED BY <1>4, <1>5

\* Every change of the history is a deletion, a replacement or an entry.
LEMMA Writes ==
    ASSUME TypeOK, StepInv, OwnInv, HeldInv, PlaceInv, [Next]_vars
    PROVE  UNCHANGED history \/ Cut \/ \E r \in Rounds : Replacing(r) \/ Entering(r)
<1>1. ASSUME ByCheckpoint PROVE UNCHANGED history \/ \E r \in Rounds : Replacing(r) \/ Entering(r)
  <2>1. CASE Cleared(Now)
    BY <2>1 DEF Cleared, Now
  <2>2. CASE ~Cleared(Now)
    <3>1. PICK r \in Rounds : r = pend.id
      BY <1>1, PendTypes DEF ByCheckpoint
    <3>2. main.place = End /\ pend # NoPend /\ ~Recorded(r) /\ Active(r)
      BY <1>1, <2>2, <3>1, OwnParts DEF ByCheckpoint, Active
    <3>3. Written(Now, r, Aim(pend.place, End))
      BY <1>1, <2>2, <3>1, <3>2 DEF ByCheckpoint
    <3>4. \/ Aim(pend.place, End) = ask[r].place
          \/ Aim(pend.place, End) = End /\ ask[r].place.how \notin {"replace", "insert"}
      BY <3>1, <3>2, Aimed
    <3>5. PICK place : place = Aim(pend.place, End)
      OBVIOUS
    <3> QED BY <3>2, <3>3, <3>4, <3>5, Placing
  <2> QED BY <2>1, <2>2
<1>2. ASSUME NEW p \in Pids, ByWorker(p) PROVE \E r \in Rounds : Replacing(r) \/ Entering(r)
  <2>1. PICK place : place = worker[p].place
    OBVIOUS
  <2>2. PICK r \in Rounds : r = worker[p].round
    BY <1>2, BoundIsNat, WorkerTypes DEF ByWorker, StepInv
  <2>3. Written(Now, r, place) /\ worker[p].step \in {"open", "closed"} /\ Held(p, r)
    BY <1>2, <2>1, <2>2 DEF ByWorker, Held
  <2>4. worker[p].run = r /\ place = ask[r].place
    BY <2>1, <2>2, <2>3, OwnParts, BoundIsNat DEF Own
  <2>5. ask[r].place.how = "replace" => Active(r)
    BY <2>1, <2>4 DEF Active
  <2>6. r \notin Ids(history)
    BY <2>3, HeldParts
  <2> QED BY <2>3, <2>4, <2>5, <2>6, Placing
<1>3. ASSUME NEW t \in Rounds, BySaved(t) PROVE \E r \in Rounds : Replacing(r) \/ Entering(r)
  <2>1. PICK place : place = SavedPlace(t)
    OBVIOUS
  <2>2. task[t].round # 0 /\ ~Recorded(task[t].round) /\ t \in Left
        /\ Written(Now, task[t].round, place)
    BY <1>3, <2>1 DEF BySaved
  <2>3. place = ask[t].place /\ task[t].round = t
    BY <2>1, <2>2, SavedPlaceIs
  <2>4. Active(t)
    BY <2>2 DEF Left, Active
  <2> QED BY <2>2, <2>3, <2>4, Placing
<1>4. ASSUME NEW p \in Pids, Open(p) \/ Event(p) PROVE UNCHANGED history
  BY <1>4, OpenEffect, EventEffect
<1> QED BY <1>1, <1>2, <1>3, <1>4, FilesChange DEF files

\* Which rounds are in the history after a write.
LEMMA Puts ==
    ASSUME TypeOK, NEW r \in Rounds, Replacing(r) \/ Entering(r)
    PROVE  /\ r \in Ids(history') /\ Ids(history') \subseteq Ids(history) \union {r}
           /\ Entering(r) => Ids(history) \subseteq Ids(history')
<1>1. Len(history) \in Nat
  BY LenProperties DEF TypeOK
<1>2. CASE Replacing(r)
  <2>1. ask[r].place.how = "replace" /\ ~Entering(r)
    BY <1>2 DEF Replacing, Entering
  <2> QED BY <1>1, <1>2, <2>1 DEF Replacing, Replaces, Ids
<1>3. CASE Entering(r)
  <2>1. PICK k \in 1..(Len(history) + 1) : Enters(history, history', r, k)
    BY <1>3 DEF Entering
  <2>2. \A i \in 1..Len(history') :
          \/ i = k
          \/ i \in 1..(k - 1) /\ i \in 1..Len(history)
          \/ i \in (k + 1)..(Len(history) + 1) /\ i - 1 \in 1..Len(history)
    BY <1>1, <2>1 DEF Enters
  <2>3. \A i \in 1..Len(history') : history'[i].id = r \/ \E j \in 1..Len(history) : history'[i] = history[j]
    BY <2>1, <2>2 DEF Enters
  <2>4. k \in 1..Len(history') /\ history'[k].id = r
    BY <1>1, <2>1 DEF Enters
  <2>5. ASSUME NEW j \in 1..Len(history) PROVE \E i \in 1..Len(history') : history'[i] = history[j]
    <3>1. CASE j < k
      <4>1. j \in 1..(k - 1) /\ j \in 1..Len(history')
        BY <1>1, <2>1, <3>1 DEF Enters
      <4>2. history'[j] = history[j]
        BY <2>1, <4>1 DEF Enters
      <4> QED BY <4>1, <4>2
    <3>2. CASE j >= k
      <4>1. j + 1 \in (k + 1)..(Len(history) + 1) /\ (j + 1) - 1 = j /\ j + 1 \in 1..Len(history')
        BY <1>1, <2>1, <3>2 DEF Enters
      <4>2. history'[j + 1] = history[j]
        BY <2>1, <4>1 DEF Enters
      <4> QED BY <4>1, <4>2
    <3> QED BY <1>1, <3>1, <3>2
  <2>6. Ids(history') \subseteq Ids(history) \union {r}
    BY <2>3 DEF Ids
  <2>7. r \in Ids(history')
    BY <2>4 DEF Ids
  <2>8. ASSUME NEW x \in Ids(history) PROVE x \in Ids(history')
    <3>1. PICK j \in 1..Len(history) : x = history[j].id
      BY DEF Ids
    <3>2. PICK i \in 1..Len(history') : history'[i] = history[j]
      BY <2>5
    <3> QED BY <3>1, <3>2 DEF Ids
  <2> QED BY <2>6, <2>7, <2>8
<1> QED BY <1>2, <1>3

\* What a deletion leaves, place by place.
LEMMA CutEffect ==
    ASSUME TypeOK, StepInv, Cut
    PROVE  \/ history' = history
           \/ /\ op.cut.at \in 1..Len(history)
              /\ \A i \in 1..Len(history') :
                   \/ i < op.cut.at /\ i \in 1..Len(history) /\ history'[i] = history[i]
                   \/ i >= op.cut.at /\ i + 1 \in 1..Len(history) /\ history'[i] = history[i + 1]
              /\ \A j \in 1..Len(history) :
                   j = op.cut.at \/ (op.cut.all /\ j > op.cut.at) \/ history[j].id \in Ids(history')
<1>1. history \in Seq(Entry) /\ Len(history) \in Nat /\ op.cut.at \in 1..MaxRounds
  BY LenProperties, CutTypes DEF TypeOK
<1>2. PICK n : n = op.cut.at
  OBVIOUS
<1>3. CASE history' # history
  <2>1. n \in 1..Len(history)
    BY <1>1, <1>2, <1>3, CutTypes, BoundIsNat
  <2>2. CASE op.cut.all
    <3>1. history' = SubSeq(history, 1, n - 1)
      BY <1>2, <1>3, <2>2, CutTypes
    <3>2. Len(history') = n - 1 /\ \A i \in 1..(n - 1) : history'[i] = history[i]
      BY <1>1, <2>1, <3>1, SubSeqProperties
    <3>3. \A i \in 1..Len(history') : i < n /\ i \in 1..Len(history) /\ history'[i] = history[i]
      BY <1>1, <2>1, <3>2
    <3>4. ASSUME NEW j \in 1..Len(history), ~(j = n \/ j > n) PROVE history[j].id \in Ids(history')
      <4>1. j \in 1..Len(history') /\ history'[j] = history[j]
        BY <1>1, <2>1, <3>2, <3>4
      <4> QED BY <4>1 DEF Ids
    <3> QED BY <1>2, <2>1, <2>2, <3>3, <3>4
  <2>3. CASE ~op.cut.all
    <3>1. history' = S!RemoveAt(history, n)
      BY <1>2, <1>3, <2>3, CutTypes
    <3>2. Len(history') = Len(history) - 1
          /\ \A i \in 1..(Len(history) - 1) : history'[i] = IF i < n THEN history[i] ELSE history[i + 1]
      <4>1. PICK h \in Seq(Entry) : h = history
        BY <1>1
      <4>2. /\ Len(S!RemoveAt(h, n)) = Len(h) - 1
            /\ \A i \in 1..(Len(h) - 1) : S!RemoveAt(h, n)[i] = IF i < n THEN h[i] ELSE h[i + 1]
        BY <2>1, <4>1, Removed
      <4> QED BY <3>1, <4>1, <4>2
    <3>3. ASSUME NEW i \in 1..Len(history')
          PROVE  \/ i < n /\ i \in 1..Len(history) /\ history'[i] = history[i]
                 \/ i >= n /\ i + 1 \in 1..Len(history) /\ history'[i] = history[i + 1]
      BY <1>1, <2>1, <3>2
    <3>4. ASSUME NEW j \in 1..Len(history), j # n PROVE history[j].id \in Ids(history')
      <4>1. CASE j < n
        <5>1. j \in 1..Len(history') /\ history'[j] = history[j]
          BY <1>1, <2>1, <3>2, <4>1
        <5> QED BY <5>1 DEF Ids
      <4>2. CASE j > n
        <5>1. j - 1 \in 1..Len(history') /\ ~(j - 1 < n) /\ (j - 1) + 1 = j
          BY <1>1, <2>1, <3>2, <4>2
        <5>2. history'[j - 1] = history[j]
          BY <3>2, <5>1
        <5> QED BY <5>1, <5>2 DEF Ids
      <4> QED BY <1>1, <2>1, <3>4, <4>1, <4>2
    <3> QED BY <1>2, <2>1, <3>3, <3>4
  <2> QED BY <2>2, <2>3
<1> QED BY <1>3

-----------------------------------------------------------------------------
\* A round that is to replace another finds that one, or itself.
LEMMA PlaceKept ==
    ASSUME TypeOK, StepInv, FreshInv, OwnInv, HeldInv, PlaceInv, [Next]_vars,
           TypeOK', StepInv', OwnInv', ~stale',
           NEW r \in Rounds, Active(r)', ask'[r].place.how = "replace"
    PROVE  /\ ask'[r].place.at \in 1..Len(history')
           /\ \/ history'[ask'[r].place.at].id = r
              \/ history'[ask'[r].place.at].id = ask'[r].aim /\ r \notin Ids(history')
<1>1. ASSUME NEW place \in Places, Send(r, place)
      PROVE  /\ ask'[r].place.at \in 1..Len(history')
             /\ history'[ask'[r].place.at].id = ask'[r].aim /\ r \notin Ids(history')
  <2>1. history' = history /\ ~ask[r].asked
        /\ ask' = [ask EXCEPT ![r] = [place |-> place, aim |-> Aims(place), asked |-> TRUE]]
        /\ (place.how = "replace" => place.at \in 1..Len(history))
    BY <1>1 DEF Send, files
  <2>2. ask'[r] = [place |-> place, aim |-> Aims(place), asked |-> TRUE]
    BY <2>1 DEF TypeOK
  <2>3. ask'[r].place = place /\ ask'[r].aim = Aims(place)
    BY <2>2
  <2>4. r \in Fresh
    BY <2>1, BoundIsNat DEF Fresh
  <2>5. r \notin Ids(history)
    BY <2>4, FreshParts DEF NowhereInv
  <2> QED BY <2>1, <2>3, <2>5 DEF Aims, Ids
<1>2. CASE UNCHANGED vars /\ Active(r)
  <2>1. ask' = ask /\ history' = history /\ Ids(history') = Ids(history)
    BY <1>2 DEF vars, files, Ids
  <2>2. /\ ask[r].place.at \in 1..Len(history)
        /\ \/ history[ask[r].place.at].id = r
           \/ history[ask[r].place.at].id = ask[r].aim /\ r \notin Ids(history)
    BY <1>2, <2>1, Fitting
  <2> QED BY <2>1, <2>2
<1>3. CASE ~UNCHANGED vars /\ Active(r)
  <2>1. ask'[r] = ask[r]
    BY <1>3, ActiveAsked, AskKept
  <2>2. PICK n : n = ask[r].place.at
    OBVIOUS
  <2>3. /\ n \in 1..Len(history)
        /\ \/ history[n].id = r
           \/ history[n].id = ask[r].aim /\ r \notin Ids(history)
    BY <1>3, <2>1, <2>2, Fitting
  <2>4. /\ Occupant(history', n) \subseteq {r} \union Occupant(history, n)
        /\ Occupant(history', n) = {} => Occupant(history, n) = {}
    <3>1. [at |-> n, may |-> {r}] \in Waiting'
      BY <2>1, <2>2, Waits
    <3>2. PICK w : w = [at |-> n, may |-> {r}]
      OBVIOUS
    <3> QED BY <1>3, <3>1, <3>2, Undisturbed
  <2>5. n \in 1..Len(history') /\ history'[n].id \in {r, history[n].id}
    BY <2>3, <2>4 DEF Occupant
  <2>6. ASSUME history'[n].id # r, r \in Ids(history') PROVE FALSE
    <3>1. r \notin Ids(history)
      BY <2>3, <2>5, <2>6
    <3>2. ~Cut /\ ~UNCHANGED history
      BY <2>6, <3>1, CutTypes DEF Ids
    <3>3. PICK x \in Rounds : Replacing(x) \/ Entering(x)
      BY <3>2, Writes
    <3>4. x = r
      BY <2>6, <3>1, <3>3, Puts
    <3>5. Replacing(r)
      BY <2>1, <3>3, <3>4 DEF Entering
    <3> QED BY <2>2, <2>6, <3>5 DEF Replacing, Replaces
  <2> QED BY <2>1, <2>2, <2>3, <2>5, <2>6
<1> QED BY <1>1, <1>2, <1>3, ActiveBefore

\* The entries of the history are those that were there, or that of a round that
\* comes now.
LEMMA EntriesKept ==
    ASSUME TypeOK, StepInv, FreshInv, OwnInv, HeldInv, PlaceInv, [Next]_vars, TypeOK',
           NEW i \in 1..Len(history')
    PROVE  history'[i].at = history'[i].id \/ ask'[history'[i].id].place.how = "replace"
<1>0. Len(history) \in Nat /\ Ids(history) \subseteq Rounds
  BY LenProperties, IdsAreRounds DEF TypeOK
<1>1. ASSUME NEW j \in 1..Len(history), history'[i] = history[j]
      PROVE  history'[i].at = history'[i].id \/ ask'[history'[i].id].place.how = "replace"
  <2>1. PICK x : x = history[j].id
    OBVIOUS
  <2>2. x \in Rounds /\ x \in Ids(history)
    BY <1>0, <2>1 DEF Ids
  <2>3. x \notin Fresh
    BY <2>2, FreshParts DEF NowhereInv
  <2>4. ask[x].asked
    BY <2>2, <2>3, BoundIsNat DEF Fresh
  <2>5. ask'[x] = ask[x]
    BY <2>2, <2>4, AskKept
  <2>6. history[j].at = history[j].id \/ ask[history[j].id].place.how = "replace"
    BY DEF PlaceInv
  <2> QED BY <1>1, <2>1, <2>5, <2>6
<1>2. CASE UNCHANGED history
  BY <1>1, <1>2
<1>3. CASE Cut
  <2>1. \E j \in 1..Len(history) : history'[i] = history[j]
    BY <1>3, CutEffect
  <2> QED BY <1>1, <2>1
<1>4. ASSUME NEW r \in Rounds, Replacing(r)
      PROVE  history'[i].at = history'[i].id \/ ask'[history'[i].id].place.how = "replace"
  <2>1. CASE i = ask[r].place.at
    <3>1. history'[i].id = r /\ ask[r].place.how = "replace" /\ r \in Rounds
      BY <1>4, <2>1 DEF Replacing, Replaces
    <3>2. ask[r].asked
      BY <1>4, ActiveAsked DEF Replacing
    <3>3. ask'[r] = ask[r]
      BY <3>2, AskKept
    <3> QED BY <3>1, <3>3
  <2>2. CASE i # ask[r].place.at
    <3>1. i \in 1..Len(history) /\ history'[i] = history[i]
      BY <1>4, <2>2 DEF Replacing, Replaces
    <3> QED BY <1>1, <3>1
  <2> QED BY <2>1, <2>2
<1>5. ASSUME NEW r \in Rounds, Entering(r)
      PROVE  history'[i].at = history'[i].id \/ ask'[history'[i].id].place.how = "replace"
  <2>1. PICK k \in 1..(Len(history) + 1) : Enters(history, history', r, k)
    BY <1>5 DEF Entering
  <2>2. \/ i = k
        \/ i \in 1..(k - 1) /\ i \in 1..Len(history)
        \/ i \in (k + 1)..(Len(history) + 1) /\ i - 1 \in 1..Len(history)
    BY <1>0, <2>1 DEF Enters
  <2>3. CASE i = k
    BY <2>1, <2>3 DEF Enters
  <2>4. CASE i # k
    <3>1. \E j \in 1..Len(history) : history'[i] = history[j]
      BY <2>1, <2>2, <2>4 DEF Enters
    <3> QED BY <1>1, <3>1
  <2> QED BY <2>3, <2>4
<1> QED BY <1>2, <1>3, <1>4, <1>5, Writes

\* The place of a deletion has the round it named.
LEMMA CutKept ==
    ASSUME TypeOK, StepInv, PlaceInv, [Next]_vars, StepInv', ~stale',
           op'.cut # NoCut, op'.cut.at \in 1..Len(history')
    PROVE  history'[op'.cut.at].id = op'.cut.named
<1>1. CASE UNCHANGED vars
  BY <1>1 DEF vars, files, PlaceInv
<1>2. CASE ~UNCHANGED vars
  <2>1. PICK n : n = op'.cut.at
    OBVIOUS
  <2>2. /\ Occupant(history', n) \subseteq {op'.cut.named} \union Occupant(history, n)
    <3>1. [at |-> n, may |-> {op'.cut.named}] \in Waiting'
      BY <2>1 DEF Waiting
    <3>2. PICK w : w = [at |-> n, may |-> {op'.cut.named}]
      OBVIOUS
    <3> QED BY <1>2, <3>1, <3>2, Undisturbed
  <2>3. Occupant(history, n) \subseteq {op'.cut.named}
    <3>1. CASE op'.cut = op.cut
      BY <2>1, <3>1 DEF PlaceInv, Occupant
    <3>2. CASE op'.cut # op.cut
      <4>1. BackendStep
        <5>1. ASSUME NEW p \in Pids, WorkerStep(p) PROVE FALSE
          BY <3>2, <5>1, WorkerMoves DEF Moves
        <5> QED BY <1>2, <5>1 DEF Next
      <4>2. PICK m \in 1..Len(Shown) : op'.cut.at = m /\ op'.cut.named = Shown[m].id
        BY <3>2, <4>1, OperationEffect, NoOpFields
      <4>3. n \in 1..Len(history) => Shown[n] = history[n]
        <5>1. \A e : n \in 1..Len(history) => Append(history, e)[n] = history[n]
          BY AppendProperties DEF TypeOK
        <5> QED BY <5>1 DEF Shown
      <4> QED BY <2>1, <4>2, <4>3 DEF Occupant
    <3> QED BY <3>1, <3>2
  <2> QED BY <2>1, <2>2, <2>3 DEF Occupant
<1> QED BY <1>1, <1>2

\* PlaceInv is kept, as long as no place is used too late.
LEMMA PlaceStep ==
    ASSUME TypeOK, StepInv, FreshInv, OwnInv, HeldInv, PlaceInv, [Next]_vars,
           TypeOK', StepInv', OwnInv', ~stale'
    PROVE  PlaceInv'
<1>1. \A r \in Rounds : Active(r)' /\ ask'[r].place.how = "replace" =>
        /\ ask'[r].place.at \in 1..Len(history')
        /\ \/ history'[ask'[r].place.at].id = r
           \/ history'[ask'[r].place.at].id = ask'[r].aim /\ r \notin Ids(history')
  BY PlaceKept
<1>2. \A i \in 1..Len(history') :
        history'[i].at = history'[i].id \/ ask'[history'[i].id].place.how = "replace"
  BY EntriesKept
<1>3. op'.cut # NoCut /\ op'.cut.at \in 1..Len(history') => history'[op'.cut.at].id = op'.cut.named
  BY CutKept
<1> QED BY <1>1, <1>2, <1>3 DEF PlaceInv

\* A round is in the history once.
Once(h) == \A i, j \in 1..Len(h) : h[i].id = h[j].id => i = j

\* No step puts a round into the history twice.
LEMMA OnceStep ==
    ASSUME TypeOK, StepInv, OwnInv, HeldInv, PlaceInv, Once(history), [Next]_vars
    PROVE  Once(history')
<1>0. Len(history) \in Nat
  BY LenProperties DEF TypeOK
<1>1. CASE UNCHANGED history
  BY <1>1
<1>2. CASE Cut
  <2> SUFFICES ASSUME NEW i \in 1..Len(history'), NEW j \in 1..Len(history'),
                      history'[i].id = history'[j].id, history' # history
               PROVE  i = j
    BY <1>1 DEF Once
  <2>1. PICK n \in 1..Len(history) : n = op.cut.at
    BY <1>2, CutEffect
  <2>2. \A k \in 1..Len(history') :
          \/ k < n /\ k \in 1..Len(history) /\ history'[k] = history[k]
          \/ k >= n /\ k + 1 \in 1..Len(history) /\ history'[k] = history[k + 1]
    BY <1>2, <2>1, CutEffect
  <2>3. PICK x \in 1..Len(history) : history'[i] = history[x] /\ x = (IF i < n THEN i ELSE i + 1)
    BY <2>1, <2>2
  <2>4. PICK y \in 1..Len(history) : history'[j] = history[y] /\ y = (IF j < n THEN j ELSE j + 1)
    BY <2>1, <2>2
  <2>5. x = y
    BY <2>3, <2>4 DEF Once
  <2> QED BY <1>0, <2>1, <2>3, <2>4, <2>5
<1>3. ASSUME NEW r \in Rounds, Replacing(r) PROVE Once(history')
  <2>1. PICK n \in 1..Len(history) : n = ask[r].place.at
    BY <1>3 DEF Replacing
  <2>2. /\ Len(history') = Len(history) /\ history'[n].id = r
        /\ \A i \in 1..Len(history) : i # n => history'[i] = history[i]
        /\ history[n].id = r \/ r \notin Ids(history)
    BY <1>3, <2>1 DEF Replacing, Replaces
  <2>3. \A i \in 1..Len(history) : i # n => history[i].id # r
    BY <2>2 DEF Ids, Once
  <2> QED BY <2>2, <2>3 DEF Once
<1>4. ASSUME NEW r \in Rounds, Entering(r) PROVE Once(history')
  <2>1. PICK k \in 1..(Len(history) + 1) : Enters(history, history', r, k)
    BY <1>4 DEF Entering
  <2>2. \A i \in 1..Len(history') :
          \/ i = k /\ history'[i].id = r
          \/ i < k /\ i \in 1..Len(history) /\ history'[i] = history[i]
          \/ i > k /\ i - 1 \in 1..Len(history) /\ history'[i] = history[i - 1]
    BY <1>0, <2>1 DEF Enters
  <2>3. \A i \in 1..Len(history) : history[i].id # r
    BY <1>4 DEF Entering, Ids
  <2> SUFFICES ASSUME NEW i \in 1..Len(history'), NEW j \in 1..Len(history'),
                      history'[i].id = history'[j].id
               PROVE  i = j
    BY DEF Once
  <2>4. CASE i = k \/ j = k
    BY <2>2, <2>3, <2>4
  <2>5. CASE i # k /\ j # k
    <3>1. PICK x \in 1..Len(history) : history'[i] = history[x] /\ x = (IF i < k THEN i ELSE i - 1)
      BY <1>0, <2>2, <2>5
    <3>2. PICK y \in 1..Len(history) : history'[j] = history[y] /\ y = (IF j < k THEN j ELSE j - 1)
      BY <1>0, <2>2, <2>5
    <3>3. x = y
      BY <3>1, <3>2 DEF Once
    <3>4. Len(history') \in Nat
      BY <1>0, <2>1 DEF Enters
    <3> QED BY <1>0, <2>5, <3>1, <3>2, <3>3, <3>4
  <2> QED BY <2>4, <2>5
<1> QED BY <1>1, <1>2, <1>3, <1>4, Writes

-----------------------------------------------------------------------------
(* As long as nothing has failed: the steps that write, one worker, one    *)
(* task that has not ended.                                                *)

\* What has not failed after a step had not failed before it, and the backend has
\* not died over a living worker.
LEMMA StillFine ==
    ASSUME TypeOK, [Next]_vars, ~failed'
    PROVE  /\ ~failed
           /\ Restart => \A p \in Pids : worker[p].life # "alive"
           /\ Done \subseteq Done'
<1>1. ~failed /\ Done \subseteq Done'
  BY GhostTypes DEF Done
<1>2. Restart => \A p \in Pids : worker[p].life # "alive"
  BY DEF Restart, Note
<1> QED BY <1>1, <1>2

\* A checkpoint that is spent stays so, as long as no event writes one.
LEMMA SpentKept ==
    ASSUME TypeOK, [Next]_vars, ~failed', pend' \in {pend, NoPend}
    PROVE  /\ Spent => Spent'
           /\ \A r : Covers(r) => Covers(r)'
<1>1. pend'.id \in {pend.id, 0}
  BY DEF NoPend
<1>2. Done \subseteq Done'
  BY StillFine
<1> QED BY <1>1, <1>2 DEF Spent, Covers

\* A round that is written leaves its checkpoint spent.
LEMMA WrittenSpent ==
    ASSUME TypeOK, [Next]_vars, ~failed', NEW r, NEW place, Written(Now, r, place), Covers(r)
    PROVE  /\ r \in Ids(history') /\ pend' \in {pend, NoPend}
           /\ Spent' /\ pend.id \in {0} \union Done'
<1>0. r \in Ids(history')
  BY WrittenTypes DEF Now
<1>1. r \in Ids(history') /\ pend' \in {pend, NoPend}
  BY <1>0 DEF Now, Written
<1>2. Done \subseteq Done' /\ r \in Done'
  BY <1>1, StillFine DEF Done
<1>3. pend'.id \in {pend.id, 0}
  BY <1>1 DEF NoPend
<1> QED BY <1>1, <1>2, <1>3 DEF Spent, Covers

\* A worker that ends a round has written it.
LEMMA Finished ==
    ASSUME TypeOK, StepInv, NEW p \in Pids, Complete(p) \/ Halt(p) \/ Clean(p), ~failed'
    PROVE  /\ Written(Now, worker[p].round, worker[p].place)
           /\ worker[p].round # 0
           /\ Clean(p) => Idle(p)
<1> DEFINE r == worker[p].round
           place == worker[p].place
<1>1. r \in Rounds /\ place \in Places /\ r # 0
  BY WorkerTypes, BoundIsNat DEF Complete, Halt, Clean, At, StepInv
<1>2. CASE Complete(p)
  <2>1. PICK f \in Completions(r, place) : Files(f) /\ f.ok
    BY <1>2 DEF Complete, Note
  <2> HIDE DEF r, place
  <2>2. Written(f, r, place)
    BY <1>1, <2>1, CompletionsShape
  <2>3. ~Clean(p)
    BY <1>2 DEF Complete, Clean, At
  <2> QED BY <1>1, <2>1, <2>2, <2>3 DEF Written, Now, Files, r, place
<1>3. CASE Halt(p) \/ Clean(p)
  <2>1. PICK f \in Finishes(r, place) : Files(f) /\ f.ok /\ (Clean(p) => Idle(p))
    <3>1. CASE Halt(p)
      <4>1. ~Clean(p)
        BY <3>1 DEF Halt, Clean, At
      <4> QED BY <3>1, <4>1 DEF Halt, Note
    <3>2. CASE Clean(p)
      BY <3>2 DEF Clean, Note
    <3> QED BY <1>3, <3>1, <3>2
  <2> HIDE DEF r, place
  <2>2. Written(f, r, place)
    BY <1>1, <2>1, FinishesShape
  <2> QED BY <1>1, <2>1, <2>2 DEF Written, Now, Files, r, place
<1> QED BY <1>2, <1>3

\* A checkpoint that goes without an event has its round in the history.
LEMMA PendGone ==
    ASSUME TypeOK, StepInv, LiveInv, FileInv, [Next]_vars, ~failed',
           ~\E p \in Pids : Open(p) \/ Event(p)
    PROVE  /\ pend' \in {pend, NoPend}
           /\ pend' = pend \/ pend.id \in {0} \union Done'
<1>1. pend' \in {pend, NoPend}
  BY PendChange
<1>2. CASE UNCHANGED files
  BY <1>2 DEF files
<1>3. CASE ByCheckpoint
  <2>1. CASE Cleared(Now)
    <3>1. pend.id \in Ids(history')
      BY <2>1 DEF Cleared, Now, Recorded, Ids
    <3> QED BY <1>1, <3>1 DEF Done
  <2>2. ASSUME NEW place, Written(Now, pend.id, place) PROVE pend.id \in {0} \union Done'
    BY <2>2, WrittenSpent DEF Covers
  <2> QED BY <1>1, <1>3, <2>1, <2>2 DEF ByCheckpoint
<1>4. ASSUME NEW p \in Pids, Complete(p) \/ Halt(p) \/ Clean(p)
      PROVE  pend.id \in {0} \union Done'
  <2>1. PICK r : r = worker[p].round
    OBVIOUS
  <2>2. Written(Now, r, worker[p].place) /\ r # 0
    BY <1>4, <2>1, Finished
  <2>3. Covers(r)
    BY <2>1, <2>2 DEF FileInv
  <2> QED BY <2>2, <2>3, WrittenSpent
<1>5. ASSUME NEW t \in Rounds, BySaved(t) PROVE pend.id \in {0} \union Done'
  <2>1. PICK r : r = task[t].round
    OBVIOUS
  <2>2. Written(Now, r, SavedPlace(t)) /\ r # 0 /\ Live(t)
    BY <1>5, <2>1 DEF BySaved, Left, Live
  <2>3. Covers(r)
    BY <2>1, <2>2 DEF FileInv
  <2> QED BY <2>2, <2>3, WrittenSpent
<1> QED BY <1>1, <1>2, <1>3, <1>4, <1>5, FilesChange DEF ByWorker

\* Only the worker that moves has a step.
LEMMA OthersIdle ==
    ASSUME TypeOK, StepInv, AloneInv, NEW p \in Pids, worker[p].life = "alive",
           NEW q \in Pids, q # p
    PROVE  /\ worker[q].life # "alive" /\ worker[q].step = "idle"
           /\ worker[q].round = 0 /\ worker[q].run = 0 /\ proxy = p
<1>1. proxy = p /\ worker[q].life # "alive"
  BY DEF AloneInv
<1> QED BY <1>1 DEF StepInv

\* No worker has a step when the backend is free or does something.
LEMMA AllIdle ==
    ASSUME TypeOK, StepInv, AloneInv, op # NoOp \/ ~Busy
    PROVE  \A p \in Pids : worker[p].step = "idle" /\ worker[p].round = 0
<1> TAKE p \in Pids
<1>1. CASE worker[p].step # "idle"
  <2>1. worker[p].life = "alive" /\ p = proxy /\ p # "nobody"
    BY <1>1, Owners DEF StepInv, AloneInv
  <2>2. Alive(proxy)
    BY <2>1 DEF Alive
  <2> QED BY <1>1, <2>1, <2>2 DEF StepInv, Busy
<1> QED BY <1>1 DEF StepInv

\* What a step of a worker does to the names it writes under.
LEMMA WorkerMarks ==
    ASSUME TypeOK, StepInv, AloneInv, NEW p \in Pids, WorkerStep(p), ~failed'
    PROVE  /\ worker[p].life = "alive" /\ worker'[p].life \in {"alive", "dead"}
           /\ Others(p) /\ UNCHANGED <<proxy, op>>
           /\ worker'[p].kept => worker[p].kept
           /\ worker'[p].pid \in {"nobody", worker[p].pid, pend.pid, p}
           /\ pend'.pid \in {"nobody", worker[p].pid, pend.pid, p}
<1>1. worker[p].life = "alive" /\ UNCHANGED <<proxy, op>>
  BY DEF WorkerStep, Begin, BeginResumed, Open, Event, SaveTask, Complete, Halt, Quit, Suspend,
         Close, Clean, Leave, Crash, At, Orphan
<1>2. pend'.pid \in {"nobody", worker[p].pid, pend.pid, p}
  <2>1. ASSUME NEW q \in Pids, Open(q) \/ Event(q) PROVE q = p
    BY <1>1, <2>1 DEF Open, Event, At, AloneInv
  <2>2. ~Open(p) /\ ~Event(p) => pend'.pid \in {"nobody", pend.pid}
    BY <2>1, PendChange DEF Next, NoPend
  <2>3. Open(p) => pend'.pid \in {p, pend.pid}
    BY OpenEffect
  <2>4. Event(p) => pend'.pid = worker[p].pid
    BY EventEffect
  <2> QED BY <2>2, <2>3, <2>4
<1>a. ASSUME NEW life \in {"alive", "dead"}, Drops(p, life), ~Clean(p)
      PROVE  /\ Others(p) /\ ~worker'[p].kept /\ worker'[p].pid = "nobody"
             /\ worker'[p].life \in {"alive", "dead"}
  BY <1>a DEF Drops
<1>b. ASSUME NEW step, NEW round, NEW place, NEW pid \in {worker[p].pid, pend.pid, p},
             Goes(p, step, round, place, pid)
      PROVE  /\ Others(p) /\ worker'[p].kept = worker[p].kept /\ worker'[p].pid = pid
             /\ worker'[p].life = "alive"
  BY <1>1, <1>b DEF Goes
<1>c. Begin(p) => ~Clean(p)
  BY DEF Begin, Clean, At
<1>d. BeginResumed(p) => ~Clean(p)
  BY DEF BeginResumed, Clean, At
<1>e. Close(p) => ~Clean(p)
  BY DEF Close, Clean, At
<1>f. Leave(p) \/ Crash(p) => worker'[p].life = "dead"
  BY DeathEffect DEF Drops
<1> DEFINE Good == /\ Others(p) /\ worker'[p].life \in {"alive", "dead"}
                   /\ worker'[p].kept => worker[p].kept
                   /\ worker'[p].pid \in {"nobody", worker[p].pid, pend.pid, p}
<1>3. ASSUME Begin(p) PROVE Good
  BY <1>3, <1>a, <1>b, <1>c, BeginEffect
<1>4. ASSUME BeginResumed(p) PROVE Good
  <2>1. PICK pid : pid = IF pend # NoPend THEN pend.pid ELSE p
    OBVIOUS
  <2>2. Drops(p, "alive") => Good
    BY <1>4, <1>a, <1>d
  <2>3. (\E step, round, place : Goes(p, step, round, place, pid)) => Good
    BY <2>1, <1>b
  <2> QED BY <1>4, <2>1, <2>2, <2>3, BeginResumedEffect
<1>5. ASSUME Open(p) \/ Complete(p) \/ Halt(p) \/ Quit(p) \/ Suspend(p) PROVE Good
  BY <1>5, <1>b, OpenEffect, EndEffect, LeaveOffEffect
<1>6. ASSUME Event(p) \/ SaveTask(p) PROVE Good
  <2>1. UNCHANGED worker
    BY <1>6, EventEffect, SaveTaskEffect
  <2> QED BY <1>1, <2>1 DEF Others
<1>7. ASSUME Close(p) PROVE Good
  BY <1>7, <1>a, <1>b, <1>e, CloseEffect
<1>8. ASSUME Clean(p) PROVE Good
  <2>1. Idle(p)
    BY <1>8, Finished
  <2>2. worker'[p] = Blank("alive") /\ Others(p)
    BY <2>1, Generated DEF Idle, Others
  <2> QED BY <2>2, BlankFields
<1>9. ASSUME Leave(p) \/ Crash(p) PROVE Good
  <2>1. ~worker'[p].kept /\ worker'[p].pid = "nobody" /\ Others(p) /\ worker'[p].life = "dead"
    <3>1. Generates(p, Blank("dead"))
      BY <1>9 DEF Leave, Crash
    <3>2. worker'[p] = Blank("dead") /\ Others(p)
      BY <3>1, Generated DEF Others
    <3> QED BY <3>2, BlankFields
  <2> QED BY <2>1
<1>10. Good
  BY <1>3, <1>4, <1>5, <1>6, <1>7, <1>8, <1>9 DEF WorkerStep
<1> QED BY <1>1, <1>2, <1>10

\* The worker that is given a request is the only one.
LEMMA GivenAlone ==
    ASSUME TypeOK, StepInv, AloneInv, NEW p \in Pids, NEW r, NEW resumed, Dispatch(p, r, resumed)
    PROVE  \A q \in Pids : q # p => worker[q].life # "alive"
<1>1. CASE proxy # "nobody" /\ Alive(proxy)
  BY <1>1 DEF Dispatch, AloneInv
<1>2. ASSUME NEW q \in Pids, worker[q].life = "alive" PROVE proxy # "nobody" /\ Alive(proxy)
  BY <1>2, Owners DEF AloneInv, Alive
<1> QED BY <1>1, <1>2

\* As long as nothing has failed, there is one worker, that of the backend.
LEMMA AloneStep ==
    ASSUME TypeOK, StepInv, AloneInv, [Next]_vars, ~failed'
    PROVE  AloneInv'
<1>1. ASSUME NEW p \in Pids, WorkerStep(p) PROVE AloneInv'
  <2>1. /\ worker[p].life = "alive" /\ worker'[p].life \in {"alive", "dead"}
        /\ Others(p) /\ UNCHANGED proxy
        /\ worker'[p].kept => worker[p].kept
        /\ worker'[p].pid \in {"nobody", worker[p].pid, pend.pid, p}
        /\ pend'.pid \in {"nobody", worker[p].pid, pend.pid, p}
    BY <1>1, WorkerMarks
  <2>2. \A q \in Pids : worker'[q].life = "new" => worker[q].life = "new"
    BY <2>1 DEF Others
  <2>3. \A q \in Pids : worker'[q].life = "alive" => q = proxy'
    BY <2>1 DEF Others, AloneInv
  <2>4. \A q \in Pids : ~worker'[q].kept
    BY <2>1 DEF Others, AloneInv
  <2>5. ASSUME NEW x \in {worker[p].pid, pend.pid, p}, x \in Pids PROVE worker'[x].life # "new"
    BY <2>1, <2>2, <2>5 DEF AloneInv
  <2>6. pend'.pid \in Pids => worker'[pend'.pid].life # "new"
    BY <2>1, <2>5, Owners
  <2>7. ASSUME NEW q \in Pids, worker'[q].pid \in Pids PROVE worker'[worker'[q].pid].life # "new"
    <3>1. CASE q = p
      BY <2>1, <2>5, <2>7, <3>1, Owners
    <3>2. CASE q # p
      <4>1. worker'[q] = worker[q]
        BY <2>1, <3>2 DEF Others
      <4> QED BY <2>2, <2>7, <4>1 DEF AloneInv
    <3> QED BY <3>1, <3>2
  <2> QED BY <2>3, <2>4, <2>6, <2>7 DEF AloneInv
<1>2. CASE ~\E p \in Pids : WorkerStep(p)
  <2>1. pend'.pid \in {pend.pid, "nobody"}
    <3>1. ~\E p \in Pids : Open(p) \/ Event(p)
      BY <1>2 DEF WorkerStep
    <3> QED BY <3>1, PendChange DEF NoPend
  <2>2. CASE UNCHANGED worker
    <3>1. \A p \in Pids : worker[p].life = "alive" => proxy' = proxy
      <4>1. CASE Restart
        BY <4>1, StillFine
      <4>2. CASE BackendStep /\ ~Restart
        <5>1. ASSUME NEW p \in Pids, NEW r, NEW resumed, Dispatch(p, r, resumed),
                     NEW q \in Pids, worker[q].life = "alive"
              PROVE  proxy' = proxy
          BY <5>1, GivenAlone DEF Dispatch, AloneInv
        <5>2. (\E p \in Pids : Launch(p)) \/ (\E t \in Rounds, p \in Pids : Resume(t, p))
              => \E p \in Pids : \E r, resumed : Dispatch(p, r, resumed)
          BY DEF Launch, Resume
        <5>3. Look \/ Cancel \/ Stop \/ StopRound \/ Cut => proxy' = proxy
          BY DEF Look, Cancel, Stop, StopRound, Cut
        <5>4. \A r, place : Send(r, place) => proxy' = proxy
          BY DEF Send
        <5>5. \A t : FinishSaved(t) => proxy' = proxy
          BY DEF FinishSaved
        <5>6. \A n, all : Delete(n, all) => proxy' = proxy
          BY DEF Delete
        <5> QED BY <4>2, <5>1, <5>2, <5>3, <5>4, <5>5, <5>6 DEF BackendStep
      <4>3. CASE UNCHANGED vars
        BY <4>3 DEF vars
      <4> QED BY <1>2, <4>1, <4>2, <4>3 DEF Next
    <3> QED BY <2>1, <2>2, <3>1, Owners DEF AloneInv
  <2>3. ASSUME NEW p \in Pids, NEW r, NEW resumed, Dispatch(p, r, resumed), Given(p, r, resumed)
        PROVE  AloneInv'
    <3>1. \A q \in Pids : q # p => worker[q].life # "alive"
      BY <2>3, GivenAlone
    <3>2. \A q \in Pids : worker'[q].life = "new" => worker[q].life = "new"
      BY <2>3 DEF Given, Others
    <3>3. \A q \in Pids : worker'[q].pid = worker[q].pid /\ worker'[q].kept = worker[q].kept
      BY <2>3 DEF Given, Others
    <3>4. \A q \in Pids : worker'[q].life = "alive" => q = proxy'
      BY <2>3, <3>1 DEF Given, Others
    <3> QED BY <2>1, <3>2, <3>3, <3>4, Owners DEF AloneInv
  <2>4. BackendStep \/ UNCHANGED vars
    BY <1>2 DEF Next
  <2>5. UNCHANGED vars => UNCHANGED worker
    BY DEF vars
  <2>6. ASSUME NEW p \in Pids, Launch(p) PROVE AloneInv'
    BY <2>3, <2>6, LaunchEffect DEF Launch
  <2>7. ASSUME NEW t \in Rounds, NEW p \in Pids, Resume(t, p) PROVE AloneInv'
    BY <2>3, <2>7, ResumeEffect DEF Resume
  <2> QED BY <2>2, <2>4, <2>5, <2>6, <2>7, BackendWorkers
<1> QED BY <1>1, <1>2

\* A request that begins has a row of its own, and what is left in the file is spent.
LEMMA BeginFine ==
    ASSUME TypeOK, StepInv, AloneInv, LiveInv, FileInv, [Next]_vars, ~failed',
           NEW p \in Pids, Begin(p)
    PROVE  /\ worker[p].run \in Rounds /\ Others(p)
           /\ worker'[p].step = "begun" /\ worker'[p].run = worker[p].run
           /\ \A t \in Rounds : ~Live(t)
           /\ Rows(worker[p].run, "running", p, 0)
           /\ Spent'
<1>1. worker[p].step = "begin" /\ New(p) /\ worker[p].run \in Rounds /\ worker[p].life = "alive"
  BY BeginEffect, AtRun DEF Begin, At
<1>2. \A t \in Rounds : ~Live(t)
  BY <1>1 DEF LiveInv
<1>3. ~worker[p].kept
  BY DEF AloneInv
<1>4. PICK f \in Recover(End) :
        /\ Files(f) /\ f.ok
        /\ \E place : Generates(p, [worker[p] EXCEPT !.step = "begun", !.place = place])
  BY <1>3 DEF Begin, BeginManagers, Note
<1>5. worker'[p].step = "begun" /\ worker'[p].run = worker[p].run /\ Others(p)
  <2>1. PICK place : Generates(p, [worker[p] EXCEPT !.step = "begun", !.place = place])
    BY <1>4
  <2>2. Goes(p, "begun", worker[p].round, place, worker[p].pid)
    BY <2>1, Gone
  <2> QED BY <2>2 DEF Goes
<1>6. Rows(worker[p].run, "running", p, 0)
  <2>1. ~Drops(p, "alive")
    BY <1>5 DEF Drops
  <2> QED BY <2>1, BeginEffect
<1>7. f \in Recoveries(End, TRUE)
  <2>1. ~Restorable
    BY <1>2 DEF Restorable, Live
  <2> QED BY <1>4, <2>1 DEF Recover
<1>8. f.history = history' /\ f.pend = pend'
  BY <1>4 DEF Files
<1>9. Spent'
  <2>1. CASE pend = NoPend \/ Alive(pend.pid)
    <3>1. f = [history |-> history, pend |-> pend, ok |-> TRUE, place |-> End]
      BY <1>7, <2>1 DEF Recoveries
    <3>2. pend' = pend
      BY <1>8, <3>1
    <3>3. Spent
      <4>1. CASE pend = NoPend
        BY <4>1 DEF Spent, NoPend
      <4>2. CASE pend # NoPend
        <5>1. pend.pid \in Pids /\ Alive(pend.pid)
          BY <2>1, <4>2, PendTypes
        <5>2. pend.pid = p
          BY <1>1, <5>1, Owners DEF Alive, AloneInv
        <5> QED BY <1>1, <5>2 DEF FileInv, At
      <4> QED BY <4>1, <4>2
    <3> QED BY <3>2, <3>3, SpentKept
  <2>2. CASE ~(pend = NoPend \/ Alive(pend.pid)) /\ Recorded(pend.id)
    <3>1. PICK c \in {NoPend, pend} :
            f = [history |-> history, pend |-> c, ok |-> TRUE, place |-> End]
      BY <1>7, <2>2 DEF Recoveries
    <3>2. pend' \in {pend, NoPend}
      BY <1>8, <3>1
    <3>3. Spent
      BY <2>2 DEF Recorded, Ids, Spent, Done
    <3> QED BY <3>2, <3>3, SpentKept
  <2>3. CASE ~(pend = NoPend \/ Alive(pend.pid)) /\ ~Recorded(pend.id)
    <3> DEFINE aim == Aim(pend.place, End)
    <3>1. pend.id \in Rounds /\ aim \in Places
      <4>1. End \in Places
        BY DEF Places
      <4> QED BY <2>3, <4>1, PendTypes, PlaceTypes
    <3>2. PICK g \in Finishes(pend.id, aim) :
            f = [history |-> g.history, pend |-> g.pend, ok |-> g.ok, place |-> Rest(history, aim)]
      BY <1>7, <2>3 DEF Recoveries
    <3> HIDE DEF aim
    <3>3. g.ok /\ g.history = history' /\ g.pend = pend'
      BY <1>4, <1>8, <3>2
    <3>4. Written(g, pend.id, aim)
      BY <3>1, <3>2, <3>3, FinishesShape
    <3>5. Written(Now, pend.id, aim)
      BY <3>3, <3>4 DEF Written, Now
    <3> QED BY <3>5, WrittenSpent DEF Covers
  <2> QED BY <2>1, <2>2, <2>3
<1> QED BY <1>1, <1>2, <1>5, <1>6, <1>9

-----------------------------------------------------------------------------

\* Tasks that stay as they are, and one worker that works on, or no worker at all.
LEMMA LiveSame ==
    ASSUME TypeOK, StepInv, AloneInv, LiveInv, NEW p \in Pids, worker[p].life = "alive",
           Others(p), UNCHANGED op,
           \A t \in Rounds : /\ task'[t].state = task[t].state /\ task'[t].owner = task[t].owner
                             /\ task[t].round # 0 => task'[t].round # 0,
           \/ /\ worker'[p].step \in Working /\ worker'[p].run = worker[p].run
              /\ task[worker[p].run].state = "running" /\ worker[p].run \in Rounds
           \/ /\ worker'[p].step \notin Working
              /\ worker'[p].step # "begin"
              /\ worker'[p].life # "alive" \/ worker[p].step \notin Working
    PROVE  LiveInv'
<1>1. \A q \in Pids : q # p => /\ worker'[q] = worker[q] /\ worker[q].life # "alive"
                               /\ worker[q].step = "idle"
  BY OthersIdle DEF Others
<1>2. \A t \in Rounds : Live(t)' <=> Live(t)
  BY DEF Live
<1>3. \A t, u \in Rounds : Live(t)' /\ Live(u)' => t = u
  BY <1>2 DEF LiveInv
<1>4. ASSUME NEW t \in Rounds, Live(t)'
      PROVE  /\ task'[t].state = "running" /\ task'[t].owner = "backend" => task'[t].round # 0
             /\ op'.kind = "send" => task'[t].state = "suspended" /\ task'[t].owner = "backend"
  BY <1>2, <1>4 DEF LiveInv
<1>5. ASSUME NEW t \in Rounds, Live(t)', NEW q \in Pids
      PROVE  /\ task'[t].owner = q /\ worker'[q].life = "alive" => worker'[q].step \in Working
             /\ ~(New(q)' /\ worker'[q].step = "begin")
  <2>1. CASE q # p
    BY <1>1, <2>1
  <2>2. CASE q = p
    <3>1. worker'[p].step # "begin"
      BY DEF Working
    <3>2. task[t].owner = p => worker[p].step \in Working
      BY <1>2, <1>5 DEF LiveInv
    <3> QED BY <2>2, <3>1, <3>2
  <2> QED BY <2>1, <2>2
<1>6. ASSUME NEW q \in Pids, worker'[q].step \in Working PROVE task'[worker'[q].run].state = "running"
  <2>1. q = p
    BY <1>1, <1>6 DEF Working
  <2> QED BY <1>6, <2>1
<1> QED BY <1>3, <1>4, <1>5, <1>6 DEF LiveInv

\* No task that has not ended, and no worker at work.
LEMMA LiveNone ==
    ASSUME \A t \in Rounds : ~Live(t)', \A p \in Pids : worker'[p].step \notin Working
    PROVE  LiveInv'
  BY DEF LiveInv

\* One task that has not ended is that of the worker that has begun.
LEMMA LiveOne ==
    ASSUME TypeOK, StepInv, AloneInv, NEW p \in Pids, worker[p].life = "alive",
           worker[p].step # "idle", Others(p), UNCHANGED op,
           worker'[p].step \in Working, worker'[p].run \in Rounds,
           task'[worker'[p].run].state = "running", task'[worker'[p].run].owner = p,
           \A t \in Rounds : Live(t)' => t = worker'[p].run
    PROVE  LiveInv'
<1>1. \A q \in Pids : q # p => worker'[q] = worker[q] /\ worker[q].step = "idle"
  BY OthersIdle DEF Others
<1>2. op'.kind # "send"
  <2>1. op = NoOp
    BY Owners DEF AloneInv, StepInv
  <2> QED BY <2>1, NoOpFields
<1>3. \A q \in Pids : worker'[q].step # "begin"
  BY <1>1 DEF Working
<1>4. p # "backend"
  BY Owners
<1>5. \A q \in Pids : worker'[q].step \in Working => q = p
  BY <1>1 DEF Working
<1> QED BY <1>2, <1>3, <1>4, <1>5 DEF LiveInv

\* A step of the worker leaves at most one task that has not ended.
LEMMA WorkerLive ==
    ASSUME TypeOK, StepInv, AloneInv, LiveInv, FileInv, [Next]_vars, ~failed',
           NEW p \in Pids, WorkerStep(p)
    PROVE  LiveInv'
<1>1. /\ worker[p].life = "alive" /\ Others(p) /\ UNCHANGED <<proxy, op>> /\ ~Orphan(p)
  BY WorkerMarks DEF Orphan, AloneInv
<1>a. ASSUME worker[p].step \in Working
      PROVE  /\ worker[p].run \in Rounds /\ task[worker[p].run].state = "running"
             /\ worker[p].step # "idle"
  BY <1>a, AtRun DEF Working, LiveInv
<1>b. ASSUME NEW state, NEW owner, NEW round, NEW r \in Rounds, Rows(r, state, owner, round),
             state = task[r].state, owner = task[r].owner, task[r].round # 0 => round # 0
      PROVE  \A t \in Rounds :
                /\ task'[t].state = task[t].state /\ task'[t].owner = task[t].owner
                /\ task[t].round # 0 => task'[t].round # 0
  BY <1>b DEF Rows
<1>2. CASE Begin(p)
  <2>1. PICK r \in Rounds : r = worker[p].run
    BY <1>2, BeginFine
  <2>2. /\ worker'[p].step = "begun" /\ worker'[p].run = r
        /\ \A t \in Rounds : ~Live(t)
        /\ Rows(r, "running", p, 0)
    BY <1>2, <2>1, BeginFine
  <2>3. task'[r].state = "running" /\ task'[r].owner = p /\ \A t \in Rounds : Live(t)' => t = r
    BY <2>2 DEF Rows, Live
  <2>4. worker[p].step # "idle" /\ "begun" \in Working
    BY <1>2 DEF Begin, At, Working
  <2> QED BY <1>1, <2>1, <2>2, <2>3, <2>4, LiveOne
<1>3. CASE BeginResumed(p)
  <2>1. PICK r \in Rounds : r = worker[p].run
    BY <1>3, AtRun, BeginResumedEffect
  <2>2. CASE Drops(p, "alive") /\ task' = task
    <3>1. /\ worker'[p].step = "idle" /\ worker[p].step = "begin"
      BY <1>3, <2>2, BeginResumedEffect DEF Drops
    <3> QED BY <1>1, <2>2, <3>1, LiveSame DEF Working
  <2>3. CASE ~(Drops(p, "alive") /\ task' = task)
    <3>1. PICK round, place, pid : Goes(p, "open", round, place, pid)
      BY <1>3, <2>3, BeginResumedEffect
    <3>2. task[r].state = "running" /\ Rows(r, "running", p, task[r].round) /\ worker[p].step = "begin"
      BY <1>3, <2>1, <2>3, BeginResumedEffect
    <3>3. worker'[p].step = "open" /\ worker'[p].run = r
      BY <2>1, <3>1 DEF Goes
    <3>4. ASSUME NEW t \in Rounds, Live(t)' PROVE t = r
      <4>1. Live(t) /\ Live(r)
        BY <3>2, <3>4 DEF Rows, Live
      <4> QED BY <4>1 DEF LiveInv
    <3>5. task'[r].state = "running" /\ task'[r].owner = p
      BY <3>2 DEF Rows
    <3> QED BY <1>1, <3>2, <3>3, <3>4, <3>5, LiveOne DEF Working
  <2> QED BY <2>2, <2>3
<1>4. CASE Open(p) \/ Complete(p) \/ Halt(p)
  <2>1. /\ worker[p].step \in Working /\ UNCHANGED task
        /\ worker'[p].step \in Working /\ worker'[p].run = worker[p].run
    BY <1>4, OpenEffect, EndEffect DEF Goes, Working
  <2> QED BY <1>1, <1>a, <2>1, LiveSame
<1>5. CASE Event(p)
  <2>1. worker[p].step \in Working /\ UNCHANGED <<task, worker>>
    BY <1>5, EventEffect DEF Working
  <2> QED BY <1>1, <1>a, <2>1, LiveSame
<1>6. CASE SaveTask(p)
  <2>1. PICK r \in Rounds : r = worker[p].run
    BY <1>6, SaveTaskEffect
  <2>2. /\ worker[p].step \in Working /\ UNCHANGED worker /\ worker[p].round # 0
        /\ Rows(r, task[r].state, task[r].owner, worker[p].round)
    BY <1>6, <2>1, SaveTaskEffect, BoundIsNat DEF Working
  <2>3. \A t \in Rounds :
           /\ task'[t].state = task[t].state /\ task'[t].owner = task[t].owner
           /\ task[t].round # 0 => task'[t].round # 0
    BY <1>b, <2>2
  <2> QED BY <1>1, <1>a, <2>2, <2>3, LiveSame
<1>7. CASE Quit(p)
  <2>1. /\ worker[p].step \in Working /\ UNCHANGED task
        /\ worker'[p].step \in Working /\ worker'[p].run = worker[p].run
    BY <1>7, LeaveOffEffect DEF Goes, Working, Quit
  <2> QED BY <1>1, <1>a, <2>1, LiveSame
<1>8. CASE Suspend(p) \/ Leave(p)
  BY <1>1, <1>8 DEF Suspend, Leave
<1>9. CASE Close(p)
  <2>1. PICK r \in Rounds : r = worker[p].run
    BY <1>9, CloseEffect
  <2>2. worker[p].step \in Working /\ task[r].state = "running"
    BY <1>9, <1>a, <2>1, CloseEffect DEF Working
  <2>3. Rows(r, "ended", task[r].owner, task[r].round)
    BY <1>9, <2>1, <2>2, CloseEffect
  <2>4. ASSUME NEW t \in Rounds PROVE ~Live(t)'
    <3>1. CASE t = r
      BY <2>3, <3>1 DEF Rows, Live
    <3>2. CASE t # r
      BY <2>2, <2>3, <3>2 DEF Rows, Live, LiveInv
    <3> QED BY <3>1, <3>2
  <2>5. worker'[p].step \notin Working
    BY <1>9, CloseEffect DEF Drops, Goes, Working
  <2>6. \A q \in Pids : worker'[q].step \notin Working
    BY <1>1, <2>5, OthersIdle DEF Others, Working
  <2> QED BY <2>4, <2>6, LiveNone
<1>10. CASE Clean(p)
  <2>1. /\ worker[p].step = "closed" /\ UNCHANGED task /\ worker'[p].step = "idle"
    BY <1>10, CleanEffect DEF Drops
  <2> QED BY <1>1, <2>1, LiveSame DEF Working
<1>11. CASE Crash(p)
  <2>1. /\ worker'[p].life = "dead" /\ UNCHANGED task /\ worker'[p].step = "idle"
    BY <1>11, DeathEffect DEF Drops
  <2> QED BY <1>1, <2>1, LiveSame DEF Working
<1> QED
  BY <1>2, <1>3, <1>4, <1>5, <1>6, <1>7, <1>8, <1>9, <1>10, <1>11 DEF WorkerStep

\* The tasks that a step of the backend leaves: none comes back, and each that goes on
\* keeps its state, or is suspended with a dead owner.
LEMMA BackendLive ==
    ASSUME TypeOK, StepInv, AloneInv, LiveInv, [Next]_vars, ~failed', BackendStep
    PROVE  LiveInv'
<1>0. \A t \in Rounds : Live(t)' => Live(t)
  BY BackendTasks DEF Treated, Live
<1>1. \A t, u \in Rounds : Live(t)' /\ Live(u)' => t = u
  BY <1>0 DEF LiveInv
<1>i. op # NoOp \/ ~Busy => \A p \in Pids : worker[p].step = "idle"
  BY AllIdle
<1>a. ASSUME UNCHANGED worker, op'.kind = "send" => op.kind = "send",
             \A t \in Rounds : Live(t)' => task'[t] = task[t],
             \A t \in Rounds, p \in Pids :
                 worker[p].step \in Working /\ worker[p].run = t => task'[t] = task[t]
      PROVE  LiveInv'
  <2>1. ASSUME NEW t \in Rounds, Live(t)'
        PROVE  /\ \A p \in Pids :
                    /\ task'[t].owner = p /\ worker'[p].life = "alive" => worker'[p].step \in Working
                    /\ ~(New(p)' /\ worker'[p].step = "begin")
               /\ task'[t].state = "running" /\ task'[t].owner = "backend" => task'[t].round # 0
               /\ op'.kind = "send" => task'[t].state = "suspended" /\ task'[t].owner = "backend"
    BY <1>0, <1>a, <2>1 DEF LiveInv, New
  <2>2. ASSUME NEW p \in Pids, worker'[p].step \in Working PROVE task'[worker'[p].run].state = "running"
    <3>1. worker[p].step \in Working /\ worker[p].run \in Rounds
      BY <1>a, <2>2, AtRun DEF Working
    <3> QED BY <1>a, <3>1 DEF LiveInv
  <2> QED BY <1>1, <2>1, <2>2 DEF LiveInv
<1>b. ASSUME UNCHANGED worker, ~Busy, op'.kind # "send",
             \A t \in Rounds : Live(t)' =>
                 /\ task'[t].owner = task[t].owner /\ task'[t].round = task[t].round
                 /\ task'[t].state = "running" => task[t].state = "running"
      PROVE  LiveInv'
  <2>1. \A p \in Pids : worker'[p].step = "idle" /\ worker[p].step = "idle"
    BY <1>b, <1>i
  <2>2. ASSUME NEW t \in Rounds, Live(t)'
        PROVE  /\ \A p \in Pids :
                    /\ task'[t].owner = p /\ worker'[p].life = "alive" => worker'[p].step \in Working
                    /\ ~(New(p)' /\ worker'[p].step = "begin")
               /\ task'[t].state = "running" /\ task'[t].owner = "backend" => task'[t].round # 0
    BY <1>0, <1>b, <2>1, <2>2 DEF LiveInv, Working
  <2> QED BY <1>1, <1>b, <2>1, <2>2 DEF LiveInv, Working
<1>s. ASSUME NEW t \in Rounds, task'[t] = Sweeped[t]
      PROVE  /\ task'[t].owner = task[t].owner /\ task'[t].round = task[t].round
             /\ task'[t].state = "running" => task[t].state = "running"
  BY <1>s, SweptTypes
<1>2. CASE Look \/ StopRound \/ Cut
  <2>1. UNCHANGED <<worker, task>> /\ (op'.kind = "send" => op.kind = "send")
    <3>1. CASE Look \/ Cut
      BY <3>1, NoOpFields DEF Look, Cut
    <3>2. CASE StopRound
      <4>1. op' = NoOp \/ op' = [op EXCEPT !.kind = "cut"]
        BY <3>2 DEF StopRound
      <4>2. op \in Operation
        BY DEF TypeOK, Operation
      <4>3. op'.kind \in {"none", "cut"}
        BY <4>1, <4>2, NoOpFields DEF Operation
      <4> QED BY <3>2, <4>3 DEF StopRound
    <3> QED BY <1>2, <3>1, <3>2
  <2> QED BY <1>a, <2>1
<1>3. CASE Cancel
  <2>1. PICK t \in Rounds : t = op.done
    BY <1>3, BoundIsNat DEF Cancel, TypeOK
  <2>2. task' = [task EXCEPT ![t].state = "ended"]
    BY <1>3, <2>1 DEF Cancel
  <2>3. Rows(t, "ended", task[t].owner, task[t].round)
    BY <2>2, RowSet
  <2>4. op' = [op EXCEPT !.done = 0] /\ op \in Operation /\ UNCHANGED worker /\ op # NoOp
    BY <1>3, NoOpFields DEF Cancel, TypeOK, Operation
  <2>5. op'.kind = op.kind
    BY <2>4 DEF Operation
  <2>6. ASSUME NEW u \in Rounds, Live(u)' PROVE task'[u] = task[u]
    BY <2>3, <2>6 DEF Rows, Live
  <2>7. \A q \in Pids : worker[q].step \notin Working
    BY <1>i, <2>4 DEF Working
  <2> QED BY <1>a, <2>4, <2>5, <2>6, <2>7
<1>4. CASE Stop
  <2>1. UNCHANGED worker /\ ~Busy /\ task' = Sweeped /\ op' = [NoOp EXCEPT !.kind = "stop"]
    BY <1>4 DEF Stop
  <2>2. op'.kind # "send"
    BY <2>1 DEF NoOp
  <2> QED BY <1>b, <1>s, <2>1, <2>2
<1>5. CASE Restart
  <2>1. \A p \in Pids : worker[p].life # "alive" /\ worker[p].step = "idle"
    BY <1>5, StillFine DEF StepInv
  <2>2. ASSUME NEW t \in Rounds
        PROVE  /\ task'[t].owner = "backend" => FALSE
               /\ task'[t].state = task[t].state
    <3>1. PICK w \in TaskRow : w = task[t]
      BY DEF TypeOK
    <3>2. task'[t] = IF w.owner = "backend" THEN [w EXCEPT !.owner = "nobody"] ELSE w
      BY <1>5, <3>1 DEF Restart
    <3>3. [w EXCEPT !.owner = "nobody"].state = w.state /\ [w EXCEPT !.owner = "nobody"].owner = "nobody"
      BY DEF TaskRow
    <3> QED BY <3>1, <3>2, <3>3
  <2>3. UNCHANGED worker /\ op'.kind = "none"
    BY <1>5, NoOpFields DEF Restart
  <2> QED BY <1>1, <2>1, <2>2, <2>3 DEF LiveInv, Working
<1>6. ASSUME NEW r \in Rounds, NEW place \in Places, Send(r, place) PROVE LiveInv'
  <2>1. ~Busy /\ UNCHANGED worker
    BY <1>6 DEF Send
  <2>2. \A p \in Pids : worker'[p].step = "idle" /\ worker[p].step = "idle"
    BY <1>i, <2>1
  <2>3. ASSUME NEW t \in Rounds, Live(t)'
        PROVE  task'[t].state = "suspended" /\ task'[t].owner = "backend"
    <3>1. task'[t] = IF Sweeped[t].state = "suspended"
                     THEN [Sweeped[t] EXCEPT !.owner = "backend"] ELSE Sweeped[t]
      BY <1>6 DEF Send
    <3>2. PICK w \in TaskRow : w = Sweeped[t]
      BY SweptTypes
    <3>3. [w EXCEPT !.owner = "backend"].state = w.state /\ [w EXCEPT !.owner = "backend"].owner = "backend"
      BY DEF TaskRow
    <3>4. w.state # "running"
      <4>1. ASSUME w.state = "running" PROVE FALSE
        <5>1. task[t].state = "running" /\ Alive(task[t].owner) /\ task[t].round = w.round
          BY <3>2, <4>1, SweptTypes
        <5>2. task[t].round = 0
          BY <1>6, <3>2, <4>1, <5>1 DEF Send
        <5>3. Live(t)
          BY <5>1 DEF Live
        <5>4. task[t].owner # "backend"
          BY <5>1, <5>2, <5>3 DEF LiveInv
        <5>5. PICK q \in Pids : q = task[t].owner /\ worker[q].life = "alive"
          BY <5>1, <5>4 DEF Alive
        <5>6. worker[q].step \in Working
          BY <5>3, <5>5 DEF LiveInv
        <5> QED BY <2>2, <5>6 DEF Working
      <4> QED BY <4>1
    <3>5. w.state = "suspended"
      BY <2>3, <3>1, <3>2, <3>3, <3>4 DEF Live
    <3> QED BY <3>1, <3>2, <3>3, <3>5
  <2> QED BY <1>1, <2>2, <2>3, Owners DEF LiveInv, Working
<1>7. ASSUME NEW t \in Rounds, FinishSaved(t) PROVE LiveInv'
  <2>1. UNCHANGED <<task, worker>> /\ (op' = NoOp \/ op' = [op EXCEPT !.done = t])
    <3>1. CASE task[t].round = 0 \/ Recorded(task[t].round)
      BY <1>7, <3>1 DEF FinishSaved
    <3>2. CASE ~(task[t].round = 0 \/ Recorded(task[t].round))
      BY <1>7, <3>2 DEF FinishSaved, Note
    <3> QED BY <3>1, <3>2
  <2>2. op \in Operation
    BY DEF TypeOK, Operation
  <2>3. op'.kind = "send" => op.kind = "send"
    BY <2>1, <2>2, NoOpFields DEF Operation
  <2> QED BY <1>a, <2>1, <2>3
<1>8. ASSUME NEW p \in Pids, Launch(p) PROVE LiveInv'
  <2>1. /\ op.kind = "send" /\ Left = {} /\ UNCHANGED task /\ Given(p, op.run, FALSE)
        /\ op # NoOp
    BY <1>8, LaunchEffect, NoOpFields DEF Launch
  <2>2. ASSUME NEW t \in Rounds PROVE ~Live(t)'
    <3>1. Live(t) => t \in Left
      BY <2>1 DEF Left, LiveInv
    <3> QED BY <1>0, <2>1, <3>1
  <2>3. \A q \in Pids : worker'[q].step \notin Working
    BY <1>i, <2>1 DEF Given, Others, Working
  <2> QED BY <2>2, <2>3, LiveNone
<1>9. ASSUME NEW t \in Rounds, NEW p \in Pids, Resume(t, p) PROVE LiveInv'
  <2>1. ~Busy /\ Given(p, t, TRUE) /\ op' = NoOp /\ task[t].round # 0 /\ Live(t)
    BY <1>9, ResumeEffect DEF Resume, Live
  <2>2. PICK m \in [Rounds -> TaskRow] : m = Sweeped
    BY SweptTypes
  <2>3. task' = [m EXCEPT ![t].state = "running", ![t].owner = "backend"]
    BY <1>9, <2>2 DEF Resume
  <2>4. task'[t].owner = "backend" /\ task'[t].round = task[t].round
    <3>1. PICK w \in TaskRow : w = m[t]
      OBVIOUS
    <3>2. task'[t] = [w EXCEPT !.state = "running", !.owner = "backend"]
      BY <2>3, <3>1
    <3>3. /\ [w EXCEPT !.state = "running", !.owner = "backend"].owner = "backend"
          /\ [w EXCEPT !.state = "running", !.owner = "backend"].round = w.round
      BY DEF TaskRow
    <3> QED BY <2>2, <3>1, <3>2, <3>3, SweptTypes
  <2>5. ASSUME NEW u \in Rounds, Live(u)' PROVE u = t
    BY <1>0, <2>1, <2>5 DEF LiveInv
  <2>6. \A q \in Pids : worker'[q].step \notin Working /\ ~(New(q)' /\ worker'[q].step = "begin")
    BY <1>i, <2>1 DEF Given, Others, Working, New
  <2>7. op'.kind # "send"
    BY <2>1, NoOpFields
  <2> QED BY <1>1, <2>1, <2>4, <2>5, <2>6, <2>7, Owners DEF LiveInv
<1>10. ASSUME NEW n \in 1..MaxRounds, NEW all \in BOOLEAN, Delete(n, all) PROVE LiveInv'
  <2>1. UNCHANGED worker /\ ~Busy /\ (task' = Sweeped \/ task' = task)
    BY <1>10 DEF Delete
  <2>2. op'.kind # "send"
    <3>1. PICK k \in {"stop", "cut"} : \E c : op' = [NoOp EXCEPT !.kind = k, !.cut = c]
      BY <1>10 DEF Delete
    <3> QED BY <3>1 DEF NoOp
  <2> QED BY <1>b, <1>s, <2>1, <2>2
<1> QED BY <1>2, <1>3, <1>4, <1>5, <1>6, <1>7, <1>8, <1>9, <1>10 DEF BackendStep

\* As long as nothing has failed, one task at a time is not ended.
LEMMA LiveStep ==
    ASSUME TypeOK, StepInv, AloneInv, LiveInv, FileInv, [Next]_vars, ~failed'
    PROVE  LiveInv'
<1>1. CASE UNCHANGED vars
  BY <1>1 DEF vars, LiveInv, Live, New
<1> QED BY <1>1, WorkerLive, BackendLive DEF Next

-----------------------------------------------------------------------------
(* The checkpoint file, as long as nothing has failed.                     *)

\* A task that has not ended keeps its round, or gets that of its worker.
LEMMA RoundsOfTasks ==
    ASSUME TypeOK, StepInv, LiveInv, [Next]_vars, NEW t \in Rounds, Live(t)', task'[t].round # 0
    PROVE  \/ Live(t) /\ task'[t].round = task[t].round
           \/ \E p \in Pids : worker[p].round # 0 /\ task'[t].round = worker[p].round
<1>1. CASE UNCHANGED vars
  BY <1>1 DEF vars, Live
<1>2. CASE BackendStep
  BY <1>2, BackendTasks DEF Treated, Live
<1>a. ASSUME NEW r \in Rounds, NEW state, NEW owner, Rows(r, state, owner, task[r].round),
             task[r].state \in {"running", "suspended"} \/ state \notin {"running", "suspended"}
      PROVE  Live(t) /\ task'[t].round = task[t].round
  BY <1>a DEF Rows, Live
<1>3. ASSUME NEW p \in Pids, Begin(p) PROVE Live(t) /\ task'[t].round = task[t].round
  <2>1. PICK r \in Rounds : r = worker[p].run
    BY <1>3, BeginEffect, AtRun
  <2>2. task' = task \/ Rows(r, "running", p, 0)
    BY <1>3, <2>1, BeginEffect
  <2> QED BY <2>2 DEF Rows, Live
<1>4. ASSUME NEW p \in Pids, BeginResumed(p) PROVE Live(t) /\ task'[t].round = task[t].round
  <2>1. PICK r \in Rounds : r = worker[p].run
    BY <1>4, BeginResumedEffect, AtRun
  <2>2. task' = task \/ (task[r].state = "running" /\ Rows(r, "running", p, task[r].round))
    BY <1>4, <2>1, BeginResumedEffect
  <2> QED BY <1>a, <2>2 DEF Live
<1>5. ASSUME NEW p \in Pids, Open(p) \/ Event(p) \/ Complete(p) \/ Halt(p) \/ Clean(p) \/ Leave(p)
                             \/ Crash(p)
      PROVE  Live(t) /\ task'[t].round = task[t].round
  <2>1. task' = task
    BY <1>5, OpenEffect, EventEffect, EndEffect, CleanEffect, DeathEffect
  <2> QED BY <2>1 DEF Live
<1>6. ASSUME NEW p \in Pids, SaveTask(p)
      PROVE  \/ Live(t) /\ task'[t].round = task[t].round
             \/ worker[p].round # 0 /\ task'[t].round = worker[p].round
  <2>1. PICK r \in Rounds : r = worker[p].run
    BY <1>6, SaveTaskEffect
  <2>2. worker[p].round # 0 /\ Rows(r, task[r].state, task[r].owner, worker[p].round)
    BY <1>6, <2>1, SaveTaskEffect, BoundIsNat
  <2> QED BY <2>2 DEF Rows, Live
<1>7. ASSUME NEW p \in Pids, Quit(p) \/ Suspend(p) PROVE Live(t) /\ task'[t].round = task[t].round
  <2>1. PICK r \in Rounds : r = worker[p].run
    BY <1>7, LeaveOffEffect
  <2>2. task[r].state = "running"
    BY <1>7, <2>1, LeaveOffEffect DEF LiveInv, Working
  <2>3. task' = task \/ Rows(r, "suspended", task[r].owner, task[r].round)
    BY <1>7, <2>1, LeaveOffEffect
  <2> QED BY <1>a, <2>2, <2>3 DEF Live
<1>8. ASSUME NEW p \in Pids, Close(p) PROVE Live(t) /\ task'[t].round = task[t].round
  <2>1. PICK r \in Rounds : r = worker[p].run
    BY <1>8, CloseEffect
  <2>2. PICK state \in {"suspended", "ended"} :
          /\ state = "suspended" => task[r].state = "suspended"
          /\ Rows(r, state, task[r].owner, task[r].round)
    BY <1>8, <2>1, CloseEffect
  <2> QED BY <1>a, <2>2
<1> QED
  BY <1>1, <1>2, <1>3, <1>4, <1>5, <1>6, <1>7, <1>8 DEF Next, WorkerStep

\* The rounds of tasks and workers stay covered by the file, when no event writes it.
LEMMA CoveredStep ==
    ASSUME TypeOK, StepInv, TypeOK', StepInv', AloneInv, LiveInv, FileInv, [Next]_vars, ~failed',
           pend' \in {pend, NoPend}
    PROVE  /\ \A t \in Rounds : Live(t)' /\ task'[t].round # 0 => Covers(task[t].round)'
           /\ \A p \in Pids : worker'[p].round # 0 => Covers(worker[p].round)'
<1>1. ASSUME NEW t \in Rounds, Live(t)', task'[t].round # 0 PROVE Covers(task[t].round)'
  <2>1. PICK r \in Rounds : r = task'[t].round
    BY <1>1, TaskTypes, BoundIsNat DEF TypeOK, TaskRow
  <2>2. Covers(r)
    <3>1. CASE Live(t) /\ task'[t].round = task[t].round
      BY <1>1, <2>1, <3>1 DEF FileInv
    <3>2. ASSUME NEW p \in Pids, worker[p].round # 0, task'[t].round = worker[p].round
          PROVE  Covers(r)
      BY <2>1, <3>2 DEF FileInv
    <3> QED BY <1>1, <3>1, <3>2, RoundsOfTasks
  <2>3. Covers(r)'
    BY <2>2, SpentKept
  <2> QED BY <2>1, <2>3 DEF Covers
<1>2. ASSUME NEW p \in Pids, worker'[p].round # 0 PROVE Covers(worker[p].round)'
  <2>1. PICK r \in Rounds : r = worker'[p].round
    BY <1>2, BoundIsNat DEF TypeOK, Generation
  <2>2. Held(p, r)'
    BY <1>2, <2>1 DEF StepInv, Held
  <2>3. Covers(r)
    <3>1. CASE Held(p, r)
      BY <1>2, <2>1, <3>1 DEF Held, FileInv
    <3>2. CASE Open(p) /\ worker[p].run = r
      BY <3>2, OpenEffect DEF FileInv, StepInv, Spent, Covers
    <3>3. CASE BeginResumed(p) /\ worker'[p].round = r
      <4>1. PICK t \in Rounds : t = worker[p].run
        BY <3>3, AtRun, BeginResumedEffect
      <4>2. r = IF pend # NoPend THEN pend.id ELSE task[t].round
        BY <2>1, <1>2, <3>3, <4>1, BeginResumedEffect DEF Drops, Goes
      <4> QED BY <4>2 DEF Covers, NoPend
    <3> QED BY <2>2, <3>1, <3>2, <3>3, Holds
  <2>4. Covers(r)'
    BY <2>3, SpentKept
  <2> QED BY <2>1, <2>4 DEF Covers
<1> QED BY <1>1, <1>2

\* A request that begins, ends or is over leaves its checkpoint spent.
LEMMA SpentStep ==
    ASSUME TypeOK, StepInv, StepInv', AloneInv, LiveInv, FileInv, [Next]_vars, ~failed',
           pend' \in {pend, NoPend}, NEW p \in Pids
    PROVE  /\ worker'[p].step \in {"begun", "closing"} /\ worker'[p].round = 0 => Spent'
           /\ /\ worker'[p].life = "alive" /\ worker'[p].step \in {"idle", "begin"}
              /\ pend'.pid = p
              => Spent'
<1> DEFINE Goal == /\ worker'[p].step \in {"begun", "closing"} /\ worker'[p].round = 0 => Spent'
                   /\ /\ worker'[p].life = "alive" /\ worker'[p].step \in {"idle", "begin"}
                      /\ pend'.pid = p
                      => Spent'
<1>1. Spent => Spent'
  BY SpentKept
<1>2. pend' = pend \/ Spent'
  BY DEF NoPend, Spent
<1>a. ASSUME worker'[p] = worker[p] PROVE Goal
  BY <1>1, <1>2, <1>a DEF FileInv, At
<1>b. ASSUME NEW r, NEW place, Written(Now, r, place), worker[p].round = r, r # 0 PROVE Spent'
  <2>1. Covers(r)
    BY <1>b DEF FileInv
  <2> QED BY <1>b, <2>1, WrittenSpent
<1>3. ASSUME NEW q \in Pids, NEW r, NEW resumed, Dispatch(q, r, resumed), Given(q, r, resumed)
      PROVE  Goal
  <2>1. CASE q # p
    BY <1>3, <1>a, <2>1 DEF Given, Others
  <2>2. CASE q = p
    <3>1. worker[p].life = "alive" \/ worker[p].life = "new"
      <4>1. CASE proxy # "nobody" /\ Alive(proxy)
        BY <1>3, <2>2, <4>1, Owners DEF Dispatch, Alive
      <4>2. CASE ~(proxy # "nobody" /\ Alive(proxy))
        BY <1>3, <2>2, <4>2 DEF Dispatch
      <4> QED BY <4>1, <4>2
    <3>2. worker'[p].step = "begin" /\ worker[p].step = "idle"
      BY <1>3, <2>2 DEF Given
    <3>3. pend.pid = p => worker[p].life # "new"
      BY DEF AloneInv
    <3> QED BY <1>1, <1>2, <3>1, <3>2, <3>3 DEF FileInv, At
  <2> QED BY <2>1, <2>2
<1>4. CASE BackendStep
  <2>1. ASSUME NEW q \in Pids, Launch(q) PROVE Goal
    BY <1>3, <2>1, LaunchEffect DEF Launch
  <2>2. ASSUME NEW t \in Rounds, NEW q \in Pids, Resume(t, q) PROVE Goal
    BY <1>3, <2>2, ResumeEffect DEF Resume
  <2> QED BY <1>4, <1>a, <2>1, <2>2, BackendWorkers
<1>5. CASE UNCHANGED vars
  BY <1>5, <1>a DEF vars
<1>6. ASSUME NEW q \in Pids, q # p, WorkerStep(q) PROVE Goal
  BY <1>6, <1>a, WorkerMarks DEF Others
<1>7. ASSUME WorkerStep(p) PROVE Goal
  <2>1. CASE Begin(p)
    BY <2>1, BeginFine
  <2>2. CASE BeginResumed(p)
    <3>1. At(p, "begin")
      BY <2>2 DEF BeginResumed
    <3>2. worker'[p].step \in {"idle", "open"}
      BY <2>2, BeginResumedEffect DEF Drops, Goes
    <3> QED BY <1>1, <1>2, <3>1, <3>2 DEF FileInv
  <2>3. CASE Open(p)
    BY <2>3, OpenEffect DEF Goes
  <2>4. CASE Event(p) \/ SaveTask(p)
    BY <1>a, <2>4, EventEffect, SaveTaskEffect
  <2>5. CASE Complete(p) \/ Halt(p)
    BY <1>b, <2>5, Finished
  <2>6. CASE Quit(p) \/ Suspend(p)
    <3>1. /\ worker'[p].step = "closing" /\ worker'[p].round = worker[p].round
          /\ worker[p].step \in {"begun", "open"}
      BY <2>6, LeaveOffEffect DEF Goes
    <3>2. worker[p].step = "open" => worker[p].round # 0
      BY DEF StepInv
    <3> QED BY <1>1, <3>1, <3>2 DEF FileInv
  <2>7. CASE Close(p)
    <3>1. worker[p].step = "closing" /\ worker'[p].step \in {"idle", "closed"}
      BY <2>7, CloseEffect DEF Drops, Goes
    <3>2. task[worker[p].run].state = "running"
      BY <3>1 DEF LiveInv, Working
    <3>3. worker[p].round = 0 \/ worker'[p].step = "closed"
      <4>1. CASE worker[p].round # 0
        <5>1. Generates(p, [worker[p] EXCEPT !.step = "closed"])
          BY <2>7, <3>2, <4>1 DEF Close
        <5> QED BY <5>1, Gone DEF Goes
      <4> QED BY <4>1
    <3> QED BY <1>1, <3>1, <3>3 DEF FileInv
  <2>8. CASE Clean(p)
    BY <1>b, <2>8, Finished
  <2>9. CASE Leave(p) \/ Crash(p)
    BY <2>9, DeathEffect DEF Drops
  <2> QED BY <1>7, <2>1, <2>2, <2>3, <2>4, <2>5, <2>6, <2>7, <2>8, <2>9 DEF WorkerStep
<1>8. Goal
  BY <1>4, <1>5, <1>6, <1>7 DEF Next
<1> QED BY <1>8

\* A row of the ledger with a checkpoint has the round of its worker, or one that the
\* history has.
LEMMA OpenStep ==
    ASSUME TypeOK, StepInv, FreshInv, AloneInv, LiveInv, FileInv, [Next]_vars, ~failed',
           NEW p \in Pids, worker'[p].step = "open"
    PROVE  \/ task'[worker'[p].run].round \in {0, worker'[p].round}
           \/ worker'[p].round \in Done'
<1>0. Done \subseteq Done'
  BY StillFine
<1>1. CASE WorkerStep(p)
  <2>1. CASE BeginResumed(p)
    <3>1. PICK t \in Rounds : t = worker[p].run
      BY <2>1, AtRun, BeginResumedEffect
    <3>2. /\ worker'[p].run = t
          /\ worker'[p].round = (IF pend # NoPend THEN pend.id ELSE task[t].round)
          /\ task'[t].round = task[t].round /\ Live(t) /\ worker[p].resumed /\ worker[p].step = "begin"
      BY <2>1, <3>1, BeginResumedEffect DEF Drops, Goes, Rows, Live
    <3>3. Covers(task[t].round)
      BY <3>1, <3>2 DEF FileInv, StepInv
    <3>4. pend # NoPend => pend.id # 0
      BY PendTypes, BoundIsNat
    <3> QED BY <1>0, <3>2, <3>3, <3>4 DEF Covers
  <2>2. CASE Open(p)
    <3>1. worker'[p].run = worker[p].run /\ task' = task /\ New(p)
      BY <2>2, OpenEffect DEF Goes
    <3>2. task[worker[p].run].round = 0
      BY <3>1, NewIsFresh, FreshParts DEF NowhereInv
    <3> QED BY <3>1, <3>2
  <2>3. CASE Event(p)
    <3>1. UNCHANGED <<worker, task>>
      BY <2>3, EventEffect
    <3> QED BY <1>0, <3>1 DEF FileInv
  <2>4. CASE SaveTask(p)
    <3>1. PICK r \in Rounds : r = worker[p].run
      BY <2>4, SaveTaskEffect
    <3>2. UNCHANGED worker /\ Rows(r, task[r].state, task[r].owner, worker[p].round)
      BY <2>4, <3>1, SaveTaskEffect
    <3> QED BY <3>1, <3>2 DEF Rows
  <2>5. CASE Begin(p)
    BY <2>5, BeginFine
  <2>6. CASE Complete(p) \/ Halt(p) \/ Quit(p) \/ Suspend(p)
    BY <2>6, EndEffect, LeaveOffEffect DEF Goes
  <2>7. CASE Close(p) \/ Clean(p) \/ Leave(p) \/ Crash(p)
    BY <2>7, CloseEffect, CleanEffect, DeathEffect DEF Drops, Goes
  <2> QED BY <1>1, <2>1, <2>2, <2>3, <2>4, <2>5, <2>6, <2>7 DEF WorkerStep
<1>2. ASSUME NEW q \in Pids, q # p, WorkerStep(q) PROVE FALSE
  <2>1. worker'[p] = worker[p] /\ worker[q].life = "alive"
    BY <1>2, WorkerMarks DEF Others
  <2>2. worker[p].step = "idle"
    BY <1>2, <2>1, OthersIdle
  <2> QED BY <2>1, <2>2
<1>3. CASE BackendStep
  <2>1. worker'[p] = worker[p]
    <3>1. ASSUME NEW q \in Pids, NEW r, NEW resumed, Given(q, r, resumed) PROVE worker'[p] = worker[p]
      BY <3>1 DEF Given, Others
    <3> QED BY <1>3, <3>1, BackendWorkers, LaunchEffect, ResumeEffect
  <2>2. worker[p].run \in Rounds
    BY <2>1, AtRun
  <2>3. task'[worker[p].run].round = task[worker[p].run].round
    BY <1>3, <2>2, BackendTasks DEF Treated
  <2> QED BY <1>0, <2>1, <2>3 DEF FileInv
<1>4. CASE UNCHANGED vars
  BY <1>0, <1>4 DEF vars, FileInv
<1> QED BY <1>1, <1>2, <1>3, <1>4 DEF Next

\* An event writes its round over nothing that the history has not got.
LEMMA EventFile ==
    ASSUME TypeOK, StepInv, StepInv', FreshInv, AloneInv, LiveInv, FileInv, [Next]_vars, ~failed',
           NEW p \in Pids, Open(p) \/ Event(p), pend'.id = worker'[p].round
    PROVE  /\ \A t \in Rounds : Live(t)' /\ task'[t].round # 0 => Covers(task[t].round)'
           /\ \A q \in Pids : q # p => worker'[q].life # "alive" /\ worker'[q].step = "idle"
                                       /\ worker'[q].round = 0
           /\ worker'[p].step = "open"
           /\ Covers(worker[p].round)'
<1>1. /\ worker[p].life = "alive" /\ worker[p].step \in Working /\ worker[p].run \in Rounds
      /\ task' = task /\ Others(p) /\ worker'[p].step = "open" /\ worker'[p].run = worker[p].run
  <2>1. CASE Open(p)
    BY <2>1, OpenEffect, AtRun DEF Goes, Working
  <2>2. CASE Event(p)
    BY <2>2, EventEffect, AtRun DEF Others, Working
  <2> QED BY <2>1, <2>2
<1>2. \A q \in Pids : q # p => worker'[q].life # "alive" /\ worker'[q].step = "idle"
                               /\ worker'[q].round = 0
  BY <1>1, OthersIdle DEF Others
<1>3. ASSUME NEW t \in Rounds, Live(t)', task'[t].round # 0 PROVE Covers(task[t].round)'
  <2>1. Live(t) /\ Live(worker[p].run)
    BY <1>1, <1>3 DEF Live, LiveInv
  <2>2. t = worker[p].run
    BY <1>1, <2>1 DEF LiveInv
  <2>3. \/ task'[t].round \in {0, worker'[p].round}
        \/ worker'[p].round \in Done'
    BY <1>1, <2>2, OpenStep
  <2> QED BY <1>3, <2>3 DEF Covers
<1> QED BY <1>1, <1>2, <1>3 DEF Covers

\* As long as nothing has failed, the file is not written over while it has a round the
\* history has not got.
LEMMA FileStep ==
    ASSUME TypeOK, StepInv, FreshInv, TypeOK', StepInv', AloneInv, LiveInv, FileInv,
           [Next]_vars, ~failed'
    PROVE  FileInv'
<1>1. CASE pend' \in {pend, NoPend}
  BY <1>1, CoveredStep, SpentStep, OpenStep DEF FileInv, At
<1>2. CASE pend' \notin {pend, NoPend}
  <2>1. PICK p \in Pids : Open(p) \/ Event(p)
    BY <1>2, PendChange
  <2>2. pend'.id = worker'[p].round
    <3>1. CASE Open(p)
      BY <1>2, <3>1, OpenEffect DEF Goes
    <3>2. CASE Event(p)
      BY <3>2, EventEffect
    <3> QED BY <2>1, <3>1, <3>2
  <2> QED BY <2>1, <2>2, EventFile, OpenStep DEF FileInv, At
<1> QED BY <1>1, <1>2

\* As long as nothing has failed, what was saved is in the file or in the history.
LEMMA InFilesStep ==
    ASSUME TypeOK, StepInv, LiveInv, FileInv, InFiles, [Next]_vars, ~failed'
    PROVE  InFiles'
<1>1. Done \subseteq Done' /\ 0 \notin saved
  BY StillFine, BoundIsNat DEF TypeOK
<1>2. CASE ~\E p \in Pids : Open(p) \/ Event(p)
  <2>1. UNCHANGED saved
    BY <1>2, SavedEffect
  <2>2. pend' = pend \/ pend.id \in {0} \union Done'
    BY <1>2, PendGone
  <2> QED BY <1>1, <2>1, <2>2 DEF InFiles
<1>3. ASSUME NEW p \in Pids, Open(p) PROVE InFiles'
  <2>1. Spent
    BY <1>3, OpenEffect DEF FileInv, StepInv
  <2>2. \/ pend'.id = worker[p].run /\ saved' = saved \union {worker[p].run}
        \/ UNCHANGED <<pend, saved>>
    BY <1>3, OpenEffect
  <2> QED BY <1>1, <2>1, <2>2 DEF InFiles, Spent
<1>4. ASSUME NEW p \in Pids, Event(p) PROVE InFiles'
  <2>1. /\ pend'.id = worker[p].round /\ saved' = saved \union {worker[p].round}
        /\ worker[p].round # 0
    BY <1>4, EventEffect, BoundIsNat
  <2>2. Covers(worker[p].round)
    BY <2>1 DEF FileInv
  <2> QED BY <1>1, <2>1, <2>2 DEF InFiles, Covers
<1> QED BY <1>2, <1>3, <1>4

-----------------------------------------------------------------------------
(* The theorems.                                                           *)

\* At first the rounds of the history are those of the requests made before.
LEMMA FirstRound ==
    ASSUME Init
    PROVE  RoundInv
<1>1. TypeOK /\ StepInv /\ FreshInv /\ SavedInv
  BY AtFirst
<1>2. /\ pend = NoPend /\ main = NoManager /\ op = NoOp
      /\ \A r \in Rounds : task[r] = NoTask
      /\ \A p \in Pids : worker[p] = Blank("new")
  BY DEF Init
<1>3. \A p \in Pids : worker[p].step = "idle" /\ worker[p].run = 0 /\ worker[p].round = 0
                      /\ worker[p].place = End
  BY <1>2, BlankFields
<1>4. pend.id = 0 /\ op.run = 0 /\ op.cut = NoCut /\ main.place = End
  BY <1>2, NoOpFields DEF NoPend, NoManager
<1>5. \A r \in Rounds : task[r].round = 0 /\ r # 0
  BY <1>2, NoTaskFields, BoundIsNat
<1>6. OwnInv
  BY <1>2, <1>3, <1>4, <1>5 DEF OwnInv
<1>7. HeldInv
  BY <1>3, <1>5 DEF HeldInv, Held
<1>8. \A r \in Rounds : ~Active(r)
  BY <1>3, <1>4, <1>5 DEF Active
<1>9. Len(history) = Old /\ \A i \in 1..Old : history[i].id = i /\ history[i].at = i
  <2>1. /\ Old \in Nat /\ history = [i \in 1..Old |-> [id |-> i, at |-> i]]
    BY RoundAssumption DEF Init
  <2>2. DOMAIN history = 1..Old /\ history \in Seq(Entry)
    BY <1>1, <2>1 DEF TypeOK
  <2>3. Len(history) = Old
    BY <2>1, <2>2, LenProperties
  <2> QED BY <2>1, <2>3
<1>10. PlaceInv /\ NoDuplicates
  BY <1>4, <1>8, <1>9 DEF PlaceInv, NoDuplicates
<1>11. AloneInv /\ InFiles
  <2>1. \A p \in Pids : worker[p].life = "new" /\ ~worker[p].kept /\ worker[p].pid = "nobody"
    BY <1>2, BlankFields
  <2>2. pend.pid = "nobody" /\ saved = {}
    BY <1>2 DEF NoPend, Init
  <2> QED BY <2>1, <2>2, Owners DEF AloneInv, InFiles
<1>12. LiveInv /\ FileInv
  <2>1. \A t \in Rounds : ~Live(t)
    BY <1>2, NoTaskFields DEF Live
  <2> QED BY <1>3, <1>4, <2>1 DEF LiveInv, FileInv, Working, Spent
<1> QED BY <1>1, <1>6, <1>7, <1>10, <1>11, <1>12 DEF RoundInv

\* Each part of the invariant is carried as far as its condition holds.
LEMMA RoundStep ==
    ASSUME RoundInv, [Next]_vars
    PROVE  RoundInv'
<1>1. TypeOK /\ StepInv /\ FreshInv /\ SavedInv
  BY DEF RoundInv
<1>2. TypeOK' /\ StepInv' /\ FreshInv' /\ SavedInv'
  BY <1>1, TypeStep, StepStep, FreshStep, SavedStep
<1>3. ASSUME Sure' PROVE OwnInv' /\ HeldInv' /\ PlaceInv' /\ NoDuplicates'
  <2>1. Sure /\ ~weak' /\ ~stale'
    BY <1>1, <1>3, Surely DEF Sure
  <2>2. OwnInv /\ HeldInv /\ PlaceInv /\ Once(history)
    BY <2>1 DEF RoundInv, NoDuplicates, Once
  <2>3. OwnInv' /\ HeldInv'
    BY <1>1, <2>1, <2>2, OwnStep, HeldStep
  <2>4. PlaceInv'
    BY <1>1, <1>2, <2>1, <2>2, <2>3, PlaceStep
  <2>5. NoDuplicates'
    BY <1>1, <2>2, OnceStep DEF Once, NoDuplicates
  <2> QED BY <2>3, <2>4, <2>5
<1>4. ASSUME ~failed' PROVE AloneInv' /\ LiveInv' /\ FileInv' /\ InFiles'
  <2>1. AloneInv /\ LiveInv /\ FileInv /\ InFiles
    BY <1>1, <1>4, StillFine DEF RoundInv
  <2>2. AloneInv' /\ LiveInv'
    BY <1>1, <1>4, <2>1, AloneStep, LiveStep
  <2>3. FileInv' /\ InFiles'
    BY <1>1, <1>2, <1>4, <2>1, FileStep, InFilesStep
  <2> QED BY <2>2, <2>3
<1> QED BY <1>2, <1>3, <1>4 DEF RoundInv

\* The inductive invariant: who holds a round, whose name its checkpoint has, which
\* place it waits for and who stands there, over every interleaving of the workers,
\* the backend's requests and their deaths.
THEOREM RoundsHeld == Spec => []RoundInv
<1>1. Init => RoundInv
  BY FirstRound
<1>2. RoundInv /\ [Next]_vars => RoundInv'
  BY RoundStep
<1> QED BY <1>1, <1>2, PTL DEF Spec

\* Every variable has its type in every state.
THEOREM RoundsTyped == Spec => []TypeOK
<1>1. RoundInv => TypeOK
  BY DEF RoundInv
<1> QED BY <1>1, RoundsHeld, PTL

\* No round is written twice into the history, although its worker, the next
\* message, a stop, a new manager and a resumption may each finish it, as long as
\* no place is used after the history has moved under it and none of the known
\* weaknesses (weak) is met.
THEOREM RoundsOnce == Spec => []NoDuplicates
<1>1. RoundInv => NoDuplicates
  BY DEF RoundInv, NoDuplicates
<1> QED BY <1>1, RoundsHeld, PTL

\* A round whose checkpoint has been written is in the checkpoint file until the
\* history has it, whoever dies, is stopped or resumed, whatever places move, and
\* whether or not the checkpoint file can be written or removed: as long as the
\* history itself could be written whenever a round was to be finished, and no
\* worker has outlived its backend.
THEOREM RoundsKept == Spec => []NotLost
<1>1. RoundInv => NotLost
  BY DEF RoundInv, NotLost
<1> QED BY <1>1, RoundsHeld, PTL

=============================================================================
