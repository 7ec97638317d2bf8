-------------------------- MODULE ModelSlotsProofs --------------------------
(***************************************************************************)
(* SlotInv is inductive, and what follows from it, for any number of       *)
(* processes, accounts, calls and cancellations.                           *)
(***************************************************************************)
EXTENDS ModelSlotsInv, FiniteSetTheorems, TLAPS

USE SlotAssumption

\* The rows of an account are finitely many.
LEMMA FiniteCalls ==
    ASSUME NEW S \in SUBSET Calls
    PROVE  IsFiniteSet(S) /\ Cardinality(S) \in Nat
  BY FS_Subset, FS_CardinalityType

\* Fewer rows take less room.
LEMMA FewerFit ==
    ASSUME NEW S \in SUBSET Calls, NEW R \in SUBSET S, NEW n \in Nat,
           Cardinality(S) <= n
    PROVE  Cardinality(R) <= n
<1>1. IsFiniteSet(S) /\ Cardinality(S) \in Nat /\ Cardinality(R) \in Nat
  BY FiniteCalls
<1>2. Cardinality(R) <= Cardinality(S)
  BY <1>1, FS_Subset
<1> QED BY <1>1, <1>2

\* One more row fits where there was room.
LEMMA OneMoreFits ==
    ASSUME NEW S \in SUBSET Calls, NEW c \in Calls, NEW n \in Nat,
           Cardinality(S) < n
    PROVE  Cardinality(S \cup {c}) <= n
<1>1. IsFiniteSet(S) /\ Cardinality(S) \in Nat
  BY FiniteCalls
<1>2. Cardinality(S \cup {c})
         = IF c \in S THEN Cardinality(S) ELSE Cardinality(S) + 1
  BY <1>1, FS_AddElement
<1>3. Cardinality(S \cup {c}) \in Nat
  BY FiniteCalls
<1> QED BY <1>1, <1>2, <1>3

\* Every step keeps the types.
LEMMA TypeStep ==
    ASSUME TypeOK, Next
    PROVE  TypeOK'
<1>1. ASSUME NEW c \in Calls, Start(c) PROVE TypeOK'
  BY <1>1 DEF TypeOK, PcOf, Ops, Rows, Goto, Spawn, Ends, Start
<1>2. ASSUME NEW c \in Calls, ReserveThread(c) PROVE TypeOK'
  BY <1>2 DEF TypeOK, PcOf, Ops, Rows, Goto, Spawn, Ends, ReserveThread
<1>3. ASSUME NEW c \in Calls, PassGate(c) PROVE TypeOK'
  BY <1>3 DEF TypeOK, PcOf, Ops, Rows, Goto, Spawn, Ends, PassGate
<1>4. ASSUME NEW c \in Calls, Poll(c) PROVE TypeOK'
  BY <1>4 DEF TypeOK, PcOf, Ops, Rows, Goto, Spawn, Ends, Poll
<1>5. ASSUME NEW c \in Calls, Stop(c) PROVE TypeOK'
  BY <1>5 DEF TypeOK, PcOf, Ops, Rows, Goto, Spawn, Ends, Stop
<1>6. ASSUME NEW c \in Calls, AttemptThread(c) PROVE TypeOK'
  BY <1>6 DEF TypeOK, PcOf, Ops, Rows, Goto, Spawn, Ends, AttemptThread,
     AttemptRows, Wakes, Queued, Reaped, Admitted, Order
<1>7. ASSUME NEW c \in Calls, ReleaseThread(c) PROVE TypeOK'
  BY <1>7 DEF TypeOK, PcOf, Ops, Rows, Goto, Spawn, Ends, ReleaseThread, Without
<1>8. ASSUME NEW c \in Calls, CancelThread(c) PROVE TypeOK'
  BY <1>8 DEF TypeOK, PcOf, Ops, Rows, Goto, Spawn, Ends, CancelThread,
     SettledAs
<1>9. ASSUME NEW c \in Calls, FreeThread(c) PROVE TypeOK'
  BY <1>9 DEF TypeOK, PcOf, Ops, Rows, Goto, Spawn, Ends, FreeThread, Without
<1>10. ASSUME NEW c \in Calls, Cancel(c) PROVE TypeOK'
  BY <1>10 DEF TypeOK, PcOf, Ops, Rows, Goto, Spawn, Ends, Cancel, Awaited
<1>11. ASSUME NEW c \in Calls, Send(c) PROVE TypeOK'
  BY <1>11 DEF TypeOK, PcOf, Ops, Rows, Goto, Spawn, Ends, Send
<1>12. ASSUME NEW c \in Calls, Settle(c) PROVE TypeOK'
  BY <1>12 DEF TypeOK, PcOf, Ops, Rows, Goto, Spawn, Ends, Settle, SettledAs
<1>13. ASSUME NEW c \in Calls, Release(c) PROVE TypeOK'
  BY <1>13 DEF TypeOK, PcOf, Ops, Rows, Goto, Spawn, Ends, Release, Without
<1>14. ASSUME NEW c \in Calls, Renew(c) PROVE TypeOK'
  BY <1>14 DEF TypeOK, PcOf, Ops, Rows, Goto, Spawn, Ends, Renew
<1>15. ASSUME NEW p \in Procs, Crash(p) PROVE TypeOK'
  BY <1>15 DEF TypeOK, PcOf, Ops, Rows, Goto, Spawn, Ends, Crash
<1>16. ASSUME NEW u \in Users, Disable(u) PROVE TypeOK'
  BY <1>16 DEF TypeOK, PcOf, Ops, Rows, Goto, Spawn, Ends, Disable
<1> QED
  BY <1>1, <1>2, <1>3, <1>4, <1>5, <1>6, <1>7, <1>8, <1>9, <1>10, <1>11,
     <1>12, <1>13, <1>14, <1>15, <1>16 DEF Next

\* A coroutine leaves no thread behind, unless it stops.
LEMMA ThreadsStep ==
    ASSUME TypeOK, ThreadsKnown, Next
    PROVE  ThreadsKnown'
<1>1. ASSUME NEW c \in Calls, Start(c) PROVE ThreadsKnown'
  BY <1>1 DEF TypeOK, ThreadsKnown, ThreadsAt, PcOf, Ops, Goto, Spawn, Ends,
     Start
<1>2. ASSUME NEW c \in Calls, ReserveThread(c) PROVE ThreadsKnown'
  BY <1>2 DEF TypeOK, ThreadsKnown, ThreadsAt, PcOf, Ops, Goto, Spawn, Ends,
     ReserveThread
<1>3. ASSUME NEW c \in Calls, PassGate(c) PROVE ThreadsKnown'
  BY <1>3 DEF TypeOK, ThreadsKnown, ThreadsAt, PcOf, Ops, Goto, Spawn, Ends,
     PassGate
<1>4. ASSUME NEW c \in Calls, Poll(c) PROVE ThreadsKnown'
  BY <1>4 DEF TypeOK, ThreadsKnown, ThreadsAt, PcOf, Ops, Goto, Spawn, Ends,
     Poll
<1>5. ASSUME NEW c \in Calls, Stop(c) PROVE ThreadsKnown'
  BY <1>5 DEF TypeOK, ThreadsKnown, ThreadsAt, PcOf, Ops, Goto, Spawn, Ends,
     Stop
<1>6. ASSUME NEW c \in Calls, AttemptThread(c) PROVE ThreadsKnown'
  BY <1>6 DEF TypeOK, ThreadsKnown, ThreadsAt, PcOf, Ops, Goto, Spawn, Ends,
     AttemptThread, Wakes
<1>7. ASSUME NEW c \in Calls, ReleaseThread(c) PROVE ThreadsKnown'
  BY <1>7 DEF TypeOK, ThreadsKnown, ThreadsAt, PcOf, Ops, Goto, Spawn, Ends,
     ReleaseThread
<1>8. ASSUME NEW c \in Calls, CancelThread(c) PROVE ThreadsKnown'
  BY <1>8 DEF TypeOK, ThreadsKnown, ThreadsAt, PcOf, Ops, Goto, Spawn, Ends,
     CancelThread
<1>9. ASSUME NEW c \in Calls, FreeThread(c) PROVE ThreadsKnown'
  BY <1>9 DEF TypeOK, ThreadsKnown, ThreadsAt, PcOf, Ops, Goto, Spawn, Ends,
     FreeThread
<1>10. ASSUME NEW c \in Calls, Cancel(c) PROVE ThreadsKnown'
  BY <1>10 DEF TypeOK, ThreadsKnown, ThreadsAt, PcOf, Ops, Goto, Spawn,
     Ends, Cancel, Awaited
<1>11. ASSUME NEW c \in Calls, Send(c) PROVE ThreadsKnown'
  BY <1>11 DEF TypeOK, ThreadsKnown, ThreadsAt, PcOf, Ops, Goto, Spawn,
     Ends, Send
<1>12. ASSUME NEW c \in Calls, Settle(c) PROVE ThreadsKnown'
  BY <1>12 DEF TypeOK, ThreadsKnown, ThreadsAt, PcOf, Ops, Goto, Spawn,
     Ends, Settle
<1>13. ASSUME NEW c \in Calls, Release(c) PROVE ThreadsKnown'
  BY <1>13 DEF TypeOK, ThreadsKnown, ThreadsAt, PcOf, Ops, Goto, Spawn,
     Ends, Release
<1>14. ASSUME NEW c \in Calls, Renew(c) PROVE ThreadsKnown'
  BY <1>14 DEF TypeOK, ThreadsKnown, ThreadsAt, PcOf, Ops, Goto, Spawn,
     Ends, Renew
<1>15. ASSUME NEW p \in Procs, Crash(p) PROVE ThreadsKnown'
  BY <1>15 DEF TypeOK, ThreadsKnown, ThreadsAt, PcOf, Ops, Goto, Spawn,
     Ends, Crash
<1>16. ASSUME NEW u \in Users, Disable(u) PROVE ThreadsKnown'
  BY <1>16 DEF TypeOK, ThreadsKnown, ThreadsAt, PcOf, Ops, Goto, Spawn,
     Ends, Disable
<1> QED
  BY <1>1, <1>2, <1>3, <1>4, <1>5, <1>6, <1>7, <1>8, <1>9, <1>10, <1>11,
     <1>12, <1>13, <1>14, <1>15, <1>16 DEF Next

\* Only the death of a process ends its coroutines that way.
LEMMA DeadStep ==
    ASSUME TypeOK, DeadAreDead, Next
    PROVE  DeadAreDead'
<1>1. ASSUME NEW c \in Calls, Start(c) PROVE DeadAreDead'
  BY <1>1 DEF TypeOK, DeadAreDead, PcOf, Goto, Spawn, Ends, Start
<1>2. ASSUME NEW c \in Calls, ReserveThread(c) PROVE DeadAreDead'
  BY <1>2 DEF TypeOK, DeadAreDead, PcOf, Goto, Spawn, Ends, ReserveThread
<1>3. ASSUME NEW c \in Calls, PassGate(c) PROVE DeadAreDead'
  BY <1>3 DEF TypeOK, DeadAreDead, PcOf, Goto, Spawn, Ends, PassGate
<1>4. ASSUME NEW c \in Calls, Poll(c) PROVE DeadAreDead'
  BY <1>4 DEF TypeOK, DeadAreDead, PcOf, Goto, Spawn, Ends, Poll
<1>5. ASSUME NEW c \in Calls, Stop(c) PROVE DeadAreDead'
  BY <1>5 DEF TypeOK, DeadAreDead, PcOf, Goto, Spawn, Ends, Stop
<1>6. ASSUME NEW c \in Calls, AttemptThread(c) PROVE DeadAreDead'
  BY <1>6 DEF TypeOK, DeadAreDead, PcOf, Goto, Spawn, Ends, AttemptThread, Wakes
<1>7. ASSUME NEW c \in Calls, ReleaseThread(c) PROVE DeadAreDead'
  BY <1>7 DEF TypeOK, DeadAreDead, PcOf, Goto, Spawn, Ends, ReleaseThread
<1>8. ASSUME NEW c \in Calls, CancelThread(c) PROVE DeadAreDead'
  BY <1>8 DEF TypeOK, DeadAreDead, PcOf, Goto, Spawn, Ends, CancelThread
<1>9. ASSUME NEW c \in Calls, FreeThread(c) PROVE DeadAreDead'
  BY <1>9 DEF TypeOK, DeadAreDead, PcOf, Goto, Spawn, Ends, FreeThread
<1>10. ASSUME NEW c \in Calls, Cancel(c) PROVE DeadAreDead'
  BY <1>10 DEF TypeOK, DeadAreDead, PcOf, Goto, Spawn, Ends, Cancel
<1>11. ASSUME NEW c \in Calls, Send(c) PROVE DeadAreDead'
  BY <1>11 DEF TypeOK, DeadAreDead, PcOf, Goto, Spawn, Ends, Send
<1>12. ASSUME NEW c \in Calls, Settle(c) PROVE DeadAreDead'
  BY <1>12 DEF TypeOK, DeadAreDead, PcOf, Goto, Spawn, Ends, Settle
<1>13. ASSUME NEW c \in Calls, Release(c) PROVE DeadAreDead'
  BY <1>13 DEF TypeOK, DeadAreDead, PcOf, Goto, Spawn, Ends, Release
<1>14. ASSUME NEW c \in Calls, Renew(c) PROVE DeadAreDead'
  BY <1>14 DEF TypeOK, DeadAreDead, PcOf, Goto, Spawn, Ends, Renew
<1>15. ASSUME NEW p \in Procs, Crash(p) PROVE DeadAreDead'
  BY <1>15 DEF TypeOK, DeadAreDead, PcOf, Goto, Spawn, Ends, Crash
<1>16. ASSUME NEW u \in Users, Disable(u) PROVE DeadAreDead'
  BY <1>16 DEF TypeOK, DeadAreDead, PcOf, Goto, Spawn, Ends, Disable
<1> QED
  BY <1>1, <1>2, <1>3, <1>4, <1>5, <1>6, <1>7, <1>8, <1>9, <1>10, <1>11,
     <1>12, <1>13, <1>14, <1>15, <1>16 DEF Next


\* A call that has its slot keeps its row: nobody else deletes the row of a
\* living process, and its own threads are over.
LEMMA HolderStep ==
    ASSUME TypeOK, ThreadsKnown, DeadAreDead, HolderHasRow, Next
    PROVE  HolderHasRow'
<1>1. ASSUME NEW c \in Calls, Start(c) PROVE HolderHasRow'
  BY <1>1 DEF TypeOK, ThreadsKnown, ThreadsAt, HolderHasRow, Rows, Ops,
     Goto, Spawn, Ends, Start
<1>2. ASSUME NEW c \in Calls, ReserveThread(c) PROVE HolderHasRow'
  BY <1>2 DEF TypeOK, ThreadsKnown, ThreadsAt, HolderHasRow, Rows, Ops,
     Goto, Spawn, Ends, ReserveThread
<1>3. ASSUME NEW c \in Calls, PassGate(c) PROVE HolderHasRow'
  BY <1>3 DEF TypeOK, ThreadsKnown, ThreadsAt, HolderHasRow, Rows, Ops,
     Goto, Spawn, Ends, PassGate
<1>4. ASSUME NEW c \in Calls, Poll(c) PROVE HolderHasRow'
  BY <1>4 DEF TypeOK, ThreadsKnown, ThreadsAt, HolderHasRow, Rows, Ops,
     Goto, Spawn, Ends, Poll
<1>5. ASSUME NEW c \in Calls, Stop(c) PROVE HolderHasRow'
  BY <1>5 DEF TypeOK, ThreadsKnown, ThreadsAt, HolderHasRow, Rows, Ops,
     Goto, Spawn, Ends, Stop
<1>6. ASSUME NEW c \in Calls, AttemptThread(c) PROVE HolderHasRow'
  <2>1. CASE Refused(c)
    BY <1>6, <2>1 DEF AttemptThread, Wakes, Goto, Ends, Rows,
       HolderHasRow, TypeOK
  <2>2. CASE ~Refused(c)
    <3>1. running' = Reaped(running) \cup Admitted(c) /\ Wakes(c) /\ UNCHANGED alive
      BY <1>6, <2>2 DEF AttemptThread, AttemptRows
    <3>2. \A d \in Calls : pc[d] \in {"granted", "settled"} => d \in running'
      BY <3>1 DEF Reaped, HolderHasRow, DeadAreDead
    <3>3. Holds(c) => c \in running'
      BY <3>1 DEF Holds, Admitted
    <3>4. ASSUME NEW d \in Calls, pc'[d] \in {"granted", "settled"}
          PROVE  d \in running'
      <4>1. CASE Holds(c)
        BY <3>1, <3>2, <3>3, <3>4, <4>1, <2>2 DEF Wakes, Goto, Ends, TypeOK
      <4>2. CASE ~Holds(c)
        BY <3>1, <3>2, <3>4, <4>2, <2>2 DEF Wakes, Goto, Ends, TypeOK
      <4> QED BY <4>1, <4>2
    <3> QED BY <3>4 DEF HolderHasRow
  <2> QED BY <2>1, <2>2
<1>7. ASSUME NEW c \in Calls, ReleaseThread(c) PROVE HolderHasRow'
  BY <1>7 DEF TypeOK, ThreadsKnown, ThreadsAt, HolderHasRow, Rows, Ops,
     Goto, Spawn, Ends, ReleaseThread, Without
<1>8. ASSUME NEW c \in Calls, CancelThread(c) PROVE HolderHasRow'
  BY <1>8 DEF TypeOK, ThreadsKnown, ThreadsAt, HolderHasRow, Rows, Ops,
     Goto, Spawn, Ends, CancelThread
<1>9. ASSUME NEW c \in Calls, FreeThread(c) PROVE HolderHasRow'
  BY <1>9 DEF TypeOK, ThreadsKnown, ThreadsAt, HolderHasRow, Rows, Ops,
     Goto, Spawn, Ends, FreeThread, Without
<1>10. ASSUME NEW c \in Calls, Cancel(c) PROVE HolderHasRow'
  BY <1>10 DEF TypeOK, ThreadsKnown, ThreadsAt, HolderHasRow, Rows, Ops,
     Goto, Spawn, Ends, Cancel, Awaited
<1>11. ASSUME NEW c \in Calls, Send(c) PROVE HolderHasRow'
  BY <1>11 DEF TypeOK, ThreadsKnown, ThreadsAt, HolderHasRow, Rows, Ops,
     Goto, Spawn, Ends, Send
<1>12. ASSUME NEW c \in Calls, Settle(c) PROVE HolderHasRow'
  BY <1>12 DEF TypeOK, ThreadsKnown, ThreadsAt, HolderHasRow, Rows, Ops,
     Goto, Spawn, Ends, Settle
<1>13. ASSUME NEW c \in Calls, Release(c) PROVE HolderHasRow'
  BY <1>13 DEF TypeOK, ThreadsKnown, ThreadsAt, HolderHasRow, Rows, Ops,
     Goto, Spawn, Ends, Release, Without
<1>14. ASSUME NEW c \in Calls, Renew(c) PROVE HolderHasRow'
  BY <1>14 DEF TypeOK, ThreadsKnown, ThreadsAt, HolderHasRow, Rows, Ops,
     Goto, Spawn, Ends, Renew
<1>15. ASSUME NEW p \in Procs, Crash(p) PROVE HolderHasRow'
  BY <1>15 DEF TypeOK, ThreadsKnown, ThreadsAt, HolderHasRow, Rows, Ops,
     Goto, Spawn, Ends, Crash
<1>16. ASSUME NEW u \in Users, Disable(u) PROVE HolderHasRow'
  BY <1>16 DEF TypeOK, ThreadsKnown, ThreadsAt, HolderHasRow, Rows, Ops,
     Goto, Spawn, Ends, Disable
<1> QED
  BY <1>1, <1>2, <1>3, <1>4, <1>5, <1>6, <1>7, <1>8, <1>9, <1>10, <1>11,
     <1>12, <1>13, <1>14, <1>15, <1>16 DEF Next

\* An attempt admits at most one call, and only where there is room.
LEMMA RunningStep ==
    ASSUME TypeOK, RunningFits, Next
    PROVE  RunningFits'
<1>1. ASSUME NEW c \in Calls, Start(c) PROVE RunningFits'
  BY <1>1 DEF Rows, RunningFits, Start
<1>2. ASSUME NEW c \in Calls, ReserveThread(c) PROVE RunningFits'
  BY <1>2 DEF Rows, RunningFits, ReserveThread
<1>3. ASSUME NEW c \in Calls, PassGate(c) PROVE RunningFits'
  BY <1>3 DEF Rows, RunningFits, PassGate
<1>4. ASSUME NEW c \in Calls, Poll(c) PROVE RunningFits'
  BY <1>4 DEF Rows, RunningFits, Poll
<1>5. ASSUME NEW c \in Calls, Stop(c) PROVE RunningFits'
  BY <1>5 DEF Rows, RunningFits, Stop
<1>6. ASSUME NEW c \in Calls, AttemptThread(c) PROVE RunningFits'
  <2>1. CASE Refused(c)
    BY <1>6, <2>1 DEF AttemptThread, Rows, RunningFits
  <2>2. CASE ~Refused(c)
    <3>1. running' = Reaped(running) \cup Admitted(c)
      BY <1>6, <2>2 DEF AttemptThread, AttemptRows
    <3>2. Reaped(running) \in SUBSET running /\ Cardinality(Reaped(running)) <= Capacity
      BY FewerFit DEF Reaped, TypeOK, RunningFits
    <3>3. CASE Wins(c)
      <4>1. Cardinality(Reaped(running)) < Capacity
        BY <3>3 DEF Wins, Admits, HasRoom
      <4>2. running' = Reaped(running) \cup {c}
        BY <3>1, <3>3 DEF Admitted
      <4> QED BY <4>1, <4>2, <3>2, OneMoreFits DEF TypeOK, RunningFits
    <3>4. CASE ~Wins(c)
      BY <3>1, <3>2, <3>4 DEF Admitted, RunningFits
    <3> QED BY <3>3, <3>4
  <2> QED BY <2>1, <2>2
<1>7. ASSUME NEW c \in Calls, ReleaseThread(c) PROVE RunningFits'
  <2>1. running' \in SUBSET running
    BY <1>7 DEF ReleaseThread, Without
  <2> QED BY <2>1, FewerFit DEF TypeOK, RunningFits
<1>8. ASSUME NEW c \in Calls, CancelThread(c) PROVE RunningFits'
  BY <1>8 DEF Rows, RunningFits, CancelThread
<1>9. ASSUME NEW c \in Calls, FreeThread(c) PROVE RunningFits'
  <2>1. running' \in SUBSET running
    BY <1>9 DEF FreeThread, Without
  <2> QED BY <2>1, FewerFit DEF TypeOK, RunningFits
<1>10. ASSUME NEW c \in Calls, Cancel(c) PROVE RunningFits'
  BY <1>10 DEF Rows, RunningFits, Cancel
<1>11. ASSUME NEW c \in Calls, Send(c) PROVE RunningFits'
  BY <1>11 DEF Rows, RunningFits, Send
<1>12. ASSUME NEW c \in Calls, Settle(c) PROVE RunningFits'
  BY <1>12 DEF Rows, RunningFits, Settle
<1>13. ASSUME NEW c \in Calls, Release(c) PROVE RunningFits'
  <2>1. running' \in SUBSET running
    BY <1>13 DEF Release, Without
  <2> QED BY <2>1, FewerFit DEF TypeOK, RunningFits
<1>14. ASSUME NEW c \in Calls, Renew(c) PROVE RunningFits'
  BY <1>14 DEF Rows, RunningFits, Renew
<1>15. ASSUME NEW p \in Procs, Crash(p) PROVE RunningFits'
  BY <1>15 DEF Rows, RunningFits, Crash
<1>16. ASSUME NEW u \in Users, Disable(u) PROVE RunningFits'
  BY <1>16 DEF Rows, RunningFits, Disable
<1> QED
  BY <1>1, <1>2, <1>3, <1>4, <1>5, <1>6, <1>7, <1>8, <1>9, <1>10, <1>11,
     <1>12, <1>13, <1>14, <1>15, <1>16 DEF Next

\* An attempt admits a call only below the limit of its account.
LEMMA AccountStep ==
    ASSUME TypeOK, AccountFits, Next
    PROVE  AccountFits'
<1>1. ASSUME NEW c \in Calls, Start(c) PROVE AccountFits'
  BY <1>1 DEF Rows, AccountFits, Start
<1>2. ASSUME NEW c \in Calls, ReserveThread(c) PROVE AccountFits'
  BY <1>2 DEF Rows, AccountFits, ReserveThread
<1>3. ASSUME NEW c \in Calls, PassGate(c) PROVE AccountFits'
  BY <1>3 DEF Rows, AccountFits, PassGate
<1>4. ASSUME NEW c \in Calls, Poll(c) PROVE AccountFits'
  BY <1>4 DEF Rows, AccountFits, Poll
<1>5. ASSUME NEW c \in Calls, Stop(c) PROVE AccountFits'
  BY <1>5 DEF Rows, AccountFits, Stop
<1>6. ASSUME NEW c \in Calls, AttemptThread(c) PROVE AccountFits'
  <2>1. CASE Refused(c)
    BY <1>6, <2>1 DEF AttemptThread, Rows, AccountFits
  <2>2. ASSUME ~Refused(c), NEW x \in Users, UserLimit[x] # 0
        PROVE  Cardinality(running' \cap CallsOf(x)) <= UserLimit[x]
    <3>1. running' = Reaped(running) \cup Admitted(c)
      BY <1>6, <2>2 DEF AttemptThread, AttemptRows
    <3>2. Reaped(running) \cap CallsOf(x) \in SUBSET (running \cap CallsOf(x))
      BY DEF Reaped
    <3>3. Cardinality(Reaped(running) \cap CallsOf(x)) <= UserLimit[x]
      BY <2>2, <3>2, FewerFit DEF TypeOK, AccountFits
    <3>4. CASE Wins(c) /\ x = UserOf[c]
      <4>1. Cardinality(Reaped(running) \cap CallsOf(x)) < UserLimit[x]
        BY <2>2, <3>4 DEF Wins, Admits, Turn, Eligible, BelowLimit
      <4>2. running' \cap CallsOf(x) = (Reaped(running) \cap CallsOf(x)) \cup {c}
        BY <3>1, <3>4 DEF Admitted, CallsOf
      <4>3. Reaped(running) \cap CallsOf(x) \in SUBSET Calls
        BY DEF CallsOf
      <4> QED BY <4>1, <4>2, <4>3, OneMoreFits
    <3>5. CASE ~(Wins(c) /\ x = UserOf[c])
      <4>1. running' \cap CallsOf(x) = Reaped(running) \cap CallsOf(x)
        BY <3>1, <3>5 DEF Admitted, CallsOf
      <4> QED BY <4>1, <3>3
    <3> QED BY <3>4, <3>5
  <2> QED BY <2>1, <2>2 DEF AccountFits
<1>7. ASSUME NEW c \in Calls, ReleaseThread(c) PROVE AccountFits'
  <2>1. ASSUME NEW x \in Users
        PROVE  running' \cap CallsOf(x) \in SUBSET (running \cap CallsOf(x))
    BY <1>7 DEF ReleaseThread, Without
  <2> QED BY <2>1, FewerFit DEF TypeOK, AccountFits
<1>8. ASSUME NEW c \in Calls, CancelThread(c) PROVE AccountFits'
  BY <1>8 DEF Rows, AccountFits, CancelThread
<1>9. ASSUME NEW c \in Calls, FreeThread(c) PROVE AccountFits'
  <2>1. ASSUME NEW x \in Users
        PROVE  running' \cap CallsOf(x) \in SUBSET (running \cap CallsOf(x))
    BY <1>9 DEF FreeThread, Without
  <2> QED BY <2>1, FewerFit DEF TypeOK, AccountFits
<1>10. ASSUME NEW c \in Calls, Cancel(c) PROVE AccountFits'
  BY <1>10 DEF Rows, AccountFits, Cancel
<1>11. ASSUME NEW c \in Calls, Send(c) PROVE AccountFits'
  BY <1>11 DEF Rows, AccountFits, Send
<1>12. ASSUME NEW c \in Calls, Settle(c) PROVE AccountFits'
  BY <1>12 DEF Rows, AccountFits, Settle
<1>13. ASSUME NEW c \in Calls, Release(c) PROVE AccountFits'
  <2>1. ASSUME NEW x \in Users
        PROVE  running' \cap CallsOf(x) \in SUBSET (running \cap CallsOf(x))
    BY <1>13 DEF Release, Without
  <2> QED BY <2>1, FewerFit DEF TypeOK, AccountFits
<1>14. ASSUME NEW c \in Calls, Renew(c) PROVE AccountFits'
  BY <1>14 DEF Rows, AccountFits, Renew
<1>15. ASSUME NEW p \in Procs, Crash(p) PROVE AccountFits'
  BY <1>15 DEF Rows, AccountFits, Crash
<1>16. ASSUME NEW u \in Users, Disable(u) PROVE AccountFits'
  BY <1>16 DEF Rows, AccountFits, Disable
<1> QED
  BY <1>1, <1>2, <1>3, <1>4, <1>5, <1>6, <1>7, <1>8, <1>9, <1>10, <1>11,
     <1>12, <1>13, <1>14, <1>15, <1>16 DEF Next

\* The quota is reserved before the slot is asked for, and given back only
\* by a call that stopped.
LEMMA ReservedStep ==
    ASSUME TypeOK, ThreadsKnown, ReservedFirst, Next
    PROVE  ReservedFirst'
<1>1. ASSUME NEW c \in Calls, Start(c) PROVE ReservedFirst'
  BY <1>1 DEF TypeOK, ThreadsKnown, ThreadsAt, ReservedFirst, Ops, Goto,
     Spawn, Ends, Start
<1>2. ASSUME NEW c \in Calls, ReserveThread(c) PROVE ReservedFirst'
  BY <1>2 DEF TypeOK, ThreadsKnown, ThreadsAt, ReservedFirst, Ops, Goto,
     Spawn, Ends, ReserveThread
<1>3. ASSUME NEW c \in Calls, PassGate(c) PROVE ReservedFirst'
  BY <1>3 DEF TypeOK, ThreadsKnown, ThreadsAt, ReservedFirst, Ops, Goto,
     Spawn, Ends, PassGate
<1>4. ASSUME NEW c \in Calls, Poll(c) PROVE ReservedFirst'
  BY <1>4 DEF TypeOK, ThreadsKnown, ThreadsAt, ReservedFirst, Ops, Goto,
     Spawn, Ends, Poll
<1>5. ASSUME NEW c \in Calls, Stop(c) PROVE ReservedFirst'
  BY <1>5 DEF TypeOK, ThreadsKnown, ThreadsAt, ReservedFirst, Ops, Goto,
     Spawn, Ends, Stop
<1>6. ASSUME NEW c \in Calls, AttemptThread(c) PROVE ReservedFirst'
  BY <1>6 DEF TypeOK, ThreadsKnown, ThreadsAt, ReservedFirst, Ops, Goto,
     Spawn, Ends, AttemptThread, Wakes
<1>7. ASSUME NEW c \in Calls, ReleaseThread(c) PROVE ReservedFirst'
  BY <1>7 DEF TypeOK, ThreadsKnown, ThreadsAt, ReservedFirst, Ops, Goto,
     Spawn, Ends, ReleaseThread
<1>8. ASSUME NEW c \in Calls, CancelThread(c) PROVE ReservedFirst'
  BY <1>8 DEF TypeOK, ThreadsKnown, ThreadsAt, ReservedFirst, Ops, Goto,
     Spawn, Ends, CancelThread, SettledAs
<1>9. ASSUME NEW c \in Calls, FreeThread(c) PROVE ReservedFirst'
  BY <1>9 DEF TypeOK, ThreadsKnown, ThreadsAt, ReservedFirst, Ops, Goto,
     Spawn, Ends, FreeThread
<1>10. ASSUME NEW c \in Calls, Cancel(c) PROVE ReservedFirst'
  BY <1>10 DEF TypeOK, ThreadsKnown, ThreadsAt, ReservedFirst, Ops, Goto,
     Spawn, Ends, Cancel, Awaited
<1>11. ASSUME NEW c \in Calls, Send(c) PROVE ReservedFirst'
  BY <1>11 DEF TypeOK, ThreadsKnown, ThreadsAt, ReservedFirst, Ops, Goto,
     Spawn, Ends, Send
<1>12. ASSUME NEW c \in Calls, Settle(c) PROVE ReservedFirst'
  BY <1>12 DEF TypeOK, ThreadsKnown, ThreadsAt, ReservedFirst, Ops, Goto,
     Spawn, Ends, Settle, SettledAs
<1>13. ASSUME NEW c \in Calls, Release(c) PROVE ReservedFirst'
  BY <1>13 DEF TypeOK, ThreadsKnown, ThreadsAt, ReservedFirst, Ops, Goto,
     Spawn, Ends, Release
<1>14. ASSUME NEW c \in Calls, Renew(c) PROVE ReservedFirst'
  BY <1>14 DEF TypeOK, ThreadsKnown, ThreadsAt, ReservedFirst, Ops, Goto,
     Spawn, Ends, Renew
<1>15. ASSUME NEW p \in Procs, Crash(p) PROVE ReservedFirst'
  BY <1>15 DEF TypeOK, ThreadsKnown, ThreadsAt, ReservedFirst, Ops, Goto,
     Spawn, Ends, Crash
<1>16. ASSUME NEW u \in Users, Disable(u) PROVE ReservedFirst'
  BY <1>16 DEF TypeOK, ThreadsKnown, ThreadsAt, ReservedFirst, Ops, Goto,
     Spawn, Ends, Disable
<1> QED
  BY <1>1, <1>2, <1>3, <1>4, <1>5, <1>6, <1>7, <1>8, <1>9, <1>10, <1>11,
     <1>12, <1>13, <1>14, <1>15, <1>16 DEF Next

\* Only a call that holds its slot and its reservation sends, and a request
\* that was sent stays charged.
LEMMA SentStep ==
    ASSUME TypeOK, ThreadsKnown, ReservedFirst, SentHadSlot, Next
    PROVE  SentHadSlot'
<1>1. ASSUME NEW c \in Calls, Start(c) PROVE SentHadSlot'
  BY <1>1 DEF TypeOK, ThreadsKnown, ThreadsAt, ReservedFirst, SentHadSlot,
     Ops, Goto, Spawn, Ends, Start
<1>2. ASSUME NEW c \in Calls, ReserveThread(c) PROVE SentHadSlot'
  BY <1>2 DEF TypeOK, ThreadsKnown, ThreadsAt, ReservedFirst, SentHadSlot,
     Ops, Goto, Spawn, Ends, ReserveThread
<1>3. ASSUME NEW c \in Calls, PassGate(c) PROVE SentHadSlot'
  BY <1>3 DEF TypeOK, ThreadsKnown, ThreadsAt, ReservedFirst, SentHadSlot,
     Ops, Goto, Spawn, Ends, PassGate
<1>4. ASSUME NEW c \in Calls, Poll(c) PROVE SentHadSlot'
  BY <1>4 DEF TypeOK, ThreadsKnown, ThreadsAt, ReservedFirst, SentHadSlot,
     Ops, Goto, Spawn, Ends, Poll
<1>5. ASSUME NEW c \in Calls, Stop(c) PROVE SentHadSlot'
  BY <1>5 DEF TypeOK, ThreadsKnown, ThreadsAt, ReservedFirst, SentHadSlot,
     Ops, Goto, Spawn, Ends, Stop
<1>6. ASSUME NEW c \in Calls, AttemptThread(c) PROVE SentHadSlot'
  BY <1>6 DEF TypeOK, ThreadsKnown, ThreadsAt, ReservedFirst, SentHadSlot,
     Ops, Goto, Spawn, Ends, AttemptThread, Wakes
<1>7. ASSUME NEW c \in Calls, ReleaseThread(c) PROVE SentHadSlot'
  BY <1>7 DEF TypeOK, ThreadsKnown, ThreadsAt, ReservedFirst, SentHadSlot,
     Ops, Goto, Spawn, Ends, ReleaseThread
<1>8. ASSUME NEW c \in Calls, CancelThread(c) PROVE SentHadSlot'
  BY <1>8 DEF TypeOK, ThreadsKnown, ThreadsAt, ReservedFirst, SentHadSlot,
     Ops, Goto, Spawn, Ends, CancelThread, SettledAs
<1>9. ASSUME NEW c \in Calls, FreeThread(c) PROVE SentHadSlot'
  BY <1>9 DEF TypeOK, ThreadsKnown, ThreadsAt, ReservedFirst, SentHadSlot,
     Ops, Goto, Spawn, Ends, FreeThread
<1>10. ASSUME NEW c \in Calls, Cancel(c) PROVE SentHadSlot'
  BY <1>10 DEF TypeOK, ThreadsKnown, ThreadsAt, ReservedFirst, SentHadSlot,
     Ops, Goto, Spawn, Ends, Cancel, Awaited
<1>11. ASSUME NEW c \in Calls, Send(c) PROVE SentHadSlot'
  BY <1>11 DEF TypeOK, ThreadsKnown, ThreadsAt, ReservedFirst, SentHadSlot,
     Ops, Goto, Spawn, Ends, Send
<1>12. ASSUME NEW c \in Calls, Settle(c) PROVE SentHadSlot'
  BY <1>12 DEF TypeOK, ThreadsKnown, ThreadsAt, ReservedFirst, SentHadSlot,
     Ops, Goto, Spawn, Ends, Settle, SettledAs
<1>13. ASSUME NEW c \in Calls, Release(c) PROVE SentHadSlot'
  BY <1>13 DEF TypeOK, ThreadsKnown, ThreadsAt, ReservedFirst, SentHadSlot,
     Ops, Goto, Spawn, Ends, Release
<1>14. ASSUME NEW c \in Calls, Renew(c) PROVE SentHadSlot'
  BY <1>14 DEF TypeOK, ThreadsKnown, ThreadsAt, ReservedFirst, SentHadSlot,
     Ops, Goto, Spawn, Ends, Renew
<1>15. ASSUME NEW p \in Procs, Crash(p) PROVE SentHadSlot'
  BY <1>15 DEF TypeOK, ThreadsKnown, ThreadsAt, ReservedFirst, SentHadSlot,
     Ops, Goto, Spawn, Ends, Crash
<1>16. ASSUME NEW u \in Users, Disable(u) PROVE SentHadSlot'
  BY <1>16 DEF TypeOK, ThreadsKnown, ThreadsAt, ReservedFirst, SentHadSlot,
     Ops, Goto, Spawn, Ends, Disable
<1> QED
  BY <1>1, <1>2, <1>3, <1>4, <1>5, <1>6, <1>7, <1>8, <1>9, <1>10, <1>11,
     <1>12, <1>13, <1>14, <1>15, <1>16 DEF Next

\* A reservation is made only below the limit of the day.
LEMMA DayStep ==
    ASSUME TypeOK, DayFits, Next
    PROVE  DayFits'
<1>1. ASSUME NEW c \in Calls, Start(c) PROVE DayFits'
  BY <1>1 DEF DayFits, Used, CallsOf, Start
<1>2. ASSUME NEW c \in Calls, ReserveThread(c) PROVE DayFits'
  <2>1. CASE ~MayReserve(c)
    BY <1>2, <2>1 DEF ReserveThread, DayFits, Used, CallsOf
  <2>2. ASSUME MayReserve(c), NEW x \in Users, Daily[x] # 0
        PROVE  Cardinality(Used(x)') <= Daily[x]
    <3>1. quota' = [quota EXCEPT ![c] = "reserved"]
      BY <1>2, <2>2 DEF ReserveThread
    <3>2. Used(x) \in SUBSET Calls
      BY DEF Used, CallsOf
    <3>3. CASE x = UserOf[c]
      <4>1. Cardinality(Used(x)) < Daily[x]
        BY <2>2, <3>3 DEF MayReserve
      <4>2. Used(x)' = Used(x) \cup {c}
        BY <3>1, <3>3 DEF TypeOK, Used, CallsOf
      <4> QED BY <4>1, <4>2, <3>2, OneMoreFits
    <3>4. CASE x # UserOf[c]
      <4>1. Used(x)' = Used(x)
        BY <3>1, <3>4 DEF TypeOK, Used, CallsOf
      <4> QED BY <4>1, <2>2 DEF DayFits
    <3> QED BY <3>3, <3>4
  <2> QED BY <2>1, <2>2 DEF DayFits
<1>3. ASSUME NEW c \in Calls, PassGate(c) PROVE DayFits'
  BY <1>3 DEF DayFits, Used, CallsOf, PassGate
<1>4. ASSUME NEW c \in Calls, Poll(c) PROVE DayFits'
  BY <1>4 DEF DayFits, Used, CallsOf, Poll
<1>5. ASSUME NEW c \in Calls, Stop(c) PROVE DayFits'
  BY <1>5 DEF DayFits, Used, CallsOf, Stop
<1>6. ASSUME NEW c \in Calls, AttemptThread(c) PROVE DayFits'
  BY <1>6 DEF DayFits, Used, CallsOf, AttemptThread
<1>7. ASSUME NEW c \in Calls, ReleaseThread(c) PROVE DayFits'
  BY <1>7 DEF DayFits, Used, CallsOf, ReleaseThread
<1>8. ASSUME NEW c \in Calls, CancelThread(c) PROVE DayFits'
  <2>1. ASSUME NEW x \in Users
        PROVE  Used(x)' \in SUBSET Used(x) /\ Used(x) \in SUBSET Calls
    BY <1>8 DEF CancelThread, SettledAs, TypeOK, Used, CallsOf
  <2> QED BY <2>1, FewerFit DEF DayFits
<1>9. ASSUME NEW c \in Calls, FreeThread(c) PROVE DayFits'
  BY <1>9 DEF DayFits, Used, CallsOf, FreeThread
<1>10. ASSUME NEW c \in Calls, Cancel(c) PROVE DayFits'
  BY <1>10 DEF DayFits, Used, CallsOf, Cancel
<1>11. ASSUME NEW c \in Calls, Send(c) PROVE DayFits'
  BY <1>11 DEF DayFits, Used, CallsOf, Send
<1>12. ASSUME NEW c \in Calls, Settle(c) PROVE DayFits'
  <2>1. ASSUME NEW x \in Users
        PROVE  Used(x)' \in SUBSET Used(x) /\ Used(x) \in SUBSET Calls
    BY <1>12 DEF Settle, SettledAs, TypeOK, Used, CallsOf
  <2> QED BY <2>1, FewerFit DEF DayFits
<1>13. ASSUME NEW c \in Calls, Release(c) PROVE DayFits'
  BY <1>13 DEF DayFits, Used, CallsOf, Release
<1>14. ASSUME NEW c \in Calls, Renew(c) PROVE DayFits'
  <2>1. ASSUME NEW x \in Users
        PROVE  Used(x)' \in SUBSET Used(x) /\ Used(x) \in SUBSET Calls
    BY <1>14 DEF Renew, TypeOK, Used, CallsOf
  <2> QED BY <2>1, FewerFit DEF DayFits
<1>15. ASSUME NEW p \in Procs, Crash(p) PROVE DayFits'
  BY <1>15 DEF DayFits, Used, CallsOf, Crash
<1>16. ASSUME NEW u \in Users, Disable(u) PROVE DayFits'
  BY <1>16 DEF DayFits, Used, CallsOf, Disable
<1> QED
  BY <1>1, <1>2, <1>3, <1>4, <1>5, <1>6, <1>7, <1>8, <1>9, <1>10, <1>11,
     <1>12, <1>13, <1>14, <1>15, <1>16 DEF Next


-----------------------------------------------------------------------------
(* The invariant and its consequences.                                     *)

\* The invariant is true in the initial states.
LEMMA SlotInit == Init => SlotInv
<1> SUFFICES ASSUME Init PROVE SlotInv
  OBVIOUS
<1>1. TypeOK /\ ThreadsKnown /\ DeadAreDead /\ HolderHasRow /\ ReservedFirst
      /\ SentHadSlot
  BY DEF Init, TypeOK, PcOf, Ops, ThreadsKnown, DeadAreDead, HolderHasRow,
         ReservedFirst, SentHadSlot
<1>2. Cardinality({}) = 0
  BY FS_EmptySet
<1>3. RunningFits
  BY <1>2 DEF Init, RunningFits
<1>4. AccountFits
  <2>1. \A x \in Users : running \cap CallsOf(x) = {}
    BY DEF Init
  <2>2. \A x \in Users : 0 <= UserLimit[x]
    OBVIOUS
  <2> QED BY <1>2, <2>1, <2>2 DEF AccountFits
<1>5. DayFits
  <2>1. \A x \in Users : Used(x) = {}
    BY DEF Init, Used, CallsOf
  <2> QED BY <1>2, <2>1 DEF DayFits
<1> QED BY <1>1, <1>3, <1>4, <1>5 DEF SlotInv

\* Every step of the admission keeps the invariant.
LEMMA SlotStep == SlotInv /\ [Next]_vars => SlotInv'
<1> SUFFICES ASSUME SlotInv, [Next]_vars PROVE SlotInv'
  OBVIOUS
<1>1. CASE Next
  BY <1>1, TypeStep, ThreadsStep, DeadStep, HolderStep, RunningStep,
     AccountStep, ReservedStep, SentStep, DayStep DEF SlotInv
<1>2. CASE UNCHANGED vars
  BY <1>2 DEF vars, SlotInv, TypeOK, ThreadsKnown, DeadAreDead, HolderHasRow,
     RunningFits, AccountFits, ReservedFirst, SentHadSlot, DayFits, Used
<1> QED BY <1>1, <1>2

\* Whatever the interleaving of threads, cancellations, deaths and accounts
\* disabled, a call that may send holds a row and a reservation of its own
\* (resource_limits.py:76, quotas.py:60).
THEOREM SlotInductive == Spec => []SlotInv
  BY SlotInit, SlotStep, PTL DEF Spec

\* The variables keep their types.
THEOREM SlotTypes == Spec => []TypeOK
<1>1. SlotInv => TypeOK
  BY DEF SlotInv
<1> QED BY <1>1, SlotInductive, PTL

\* The instance never has more requests to the providers in use than
\* YTOOLS_MODEL_CONCURRENCY (resource_limits.py:110).
THEOREM InstanceLimited == Spec => []InstanceLimit
<1>1. SlotInv => InstanceLimit
  <2> SUFFICES ASSUME SlotInv PROVE InstanceLimit
    OBVIOUS
  <2>1. InUse \in SUBSET running /\ running \in SUBSET Calls
    BY DEF SlotInv, HolderHasRow, InUse, TypeOK
  <2> QED BY <2>1, FewerFit DEF SlotInv, RunningFits, InstanceLimit
<1> QED BY <1>1, SlotInductive, PTL

\* No account has more of them than its concurrent_models
\* (resource_limits.py:121).
THEOREM AccountLimited == Spec => []AccountLimit
<1>1. SlotInv => AccountLimit
  <2> SUFFICES ASSUME SlotInv, NEW x \in Users, UserLimit[x] # 0
               PROVE  Cardinality(InUse \cap CallsOf(x)) <= UserLimit[x]
    BY DEF AccountLimit
  <2>1. InUse \cap CallsOf(x) \in SUBSET (running \cap CallsOf(x))
    BY DEF SlotInv, HolderHasRow, InUse
  <2>2. Cardinality(running \cap CallsOf(x)) <= UserLimit[x]
    BY DEF SlotInv, AccountFits
  <2> QED BY <2>1, <2>2, FewerFit DEF CallsOf
<1> QED BY <1>1, SlotInductive, PTL

\* A request that was sent stays counted (quotas.py:80).
THEOREM SentCharged == Spec => []SentIsCharged
<1>1. SlotInv => SentIsCharged
  BY DEF SlotInv, SentHadSlot, SentIsCharged
<1> QED BY <1>1, SlotInductive, PTL

\* No account sends more requests than its daily calls (quotas.py:74).
THEOREM DailyLimited == Spec => []DailyLimit
<1>1. SlotInv => DailyLimit
  <2> SUFFICES ASSUME SlotInv, NEW x \in Users, Daily[x] # 0
               PROVE  Cardinality(sent \cap CallsOf(x)) <= Daily[x]
    BY DEF DailyLimit
  <2>1. sent \cap CallsOf(x) \in SUBSET Used(x) /\ Used(x) \in SUBSET Calls
    BY DEF SlotInv, SentHadSlot, TypeOK, Used, CallsOf
  <2>2. Cardinality(Used(x)) <= Daily[x]
    BY DEF SlotInv, DayFits
  <2> QED BY <2>1, <2>2, FewerFit
<1> QED BY <1>1, SlotInductive, PTL

\* Every step keeps LeaseInv, if a starting call is cancelled once at most.
LEMMA LeaseStep ==
    ASSUME TypeOK, ThreadsKnown, LeaseInv, MaxCancels <= 1, Next
    PROVE  LeaseInv'
<1>1. ASSUME NEW c \in Calls, Start(c) PROVE LeaseInv'
  BY <1>1 DEF TypeOK, ThreadsKnown, ThreadsAt, LeaseInv, LeaseAt, Row,
     Freeing, Rows, Ops, Goto, Spawn, Ends, Start
<1>2. ASSUME NEW c \in Calls, ReserveThread(c) PROVE LeaseInv'
  BY <1>2 DEF TypeOK, ThreadsKnown, ThreadsAt, LeaseInv, LeaseAt, Row,
     Freeing, Rows, Ops, Goto, Spawn, Ends, ReserveThread
<1>3. ASSUME NEW c \in Calls, PassGate(c) PROVE LeaseInv'
  BY <1>3 DEF TypeOK, ThreadsKnown, ThreadsAt, LeaseInv, LeaseAt, Row,
     Freeing, Rows, Ops, Goto, Spawn, Ends, PassGate
<1>4. ASSUME NEW c \in Calls, Poll(c) PROVE LeaseInv'
  BY <1>4 DEF TypeOK, ThreadsKnown, ThreadsAt, LeaseInv, LeaseAt, Row,
     Freeing, Rows, Ops, Goto, Spawn, Ends, Poll
<1>5. ASSUME NEW c \in Calls, Stop(c) PROVE LeaseInv'
  <2>1. UNCHANGED <<cancels, waiting, running>>
    BY <1>5 DEF Stop, Rows
  <2>2. CASE pc[c] = "gate" /\ Goto(c, "cancelling") /\ Spawn("cancel", c)
    BY <2>1, <2>2 DEF TypeOK, ThreadsKnown, ThreadsAt, LeaseInv, LeaseAt,
       Row, Freeing, Rows, Ops, Goto, Spawn
  <2>3. CASE pc[c] = "loop" /\ Goto(c, "releasing") /\ Spawn("release", c)
    BY <2>1, <2>3 DEF TypeOK, ThreadsKnown, ThreadsAt, LeaseInv, LeaseAt,
       Row, Freeing, Rows, Ops, Goto, Spawn
  <2> QED BY <1>5, <2>2, <2>3 DEF Stop
<1>6. ASSUME NEW c \in Calls, AttemptThread(c) PROVE LeaseInv'
  <2>1. ASSUME NEW d \in Calls, d # c, Row(d)' PROVE Row(d)
    BY <1>6, <2>1 DEF AttemptThread, AttemptRows, Rows, Row, Queued,
       Reaped, Admitted
  <2>2. pc[c] \in {"polling", "draining"}
        /\ (pc[c] = "draining" => cancels[c] # 0)
    BY <1>6 DEF AttemptThread, LeaseInv, LeaseAt
  <2>3. /\ pc'[c] \in {"releasing", "granted", "loop"}
        /\ <<"attempt", c>> \notin thr' /\ UNCHANGED cancels
        /\ \A d \in Calls \ {c} : pc'[d] = pc[d]
        /\ \A op \in Ops, d \in Calls \ {c} :
              <<op, d>> \in thr' <=> <<op, d>> \in thr
    BY <1>6, <2>2 DEF AttemptThread, Wakes, Goto, Ends, TypeOK, Ops
  <2> QED BY <2>1, <2>3 DEF LeaseInv, LeaseAt, Row, Freeing, Ops
<1>7. ASSUME NEW c \in Calls, ReleaseThread(c) PROVE LeaseInv'
  <2>1. /\ waiting' = waiting \ {c} /\ running' = running \ {c}
        /\ UNCHANGED cancels /\ <<"release", c>> \in thr
        /\ pc[c] \in {"releasing", "cancelling", "stopped"}
    BY <1>7 DEF ReleaseThread, Without, ThreadsKnown, ThreadsAt, Ops, TypeOK
  <2>2. ~Row(c)' /\ \A d \in Calls \ {c} : Row(d)' => Row(d)
    BY <2>1 DEF Row
  <2>3. /\ \A d \in Calls \ {c} : pc'[d] = pc[d]
        /\ \A op \in Ops, d \in Calls \ {c} :
              <<op, d>> \in thr' <=> <<op, d>> \in thr
        /\ <<"attempt", c>> \in thr' <=> <<"attempt", c>> \in thr
        /\ pc'[c] \in {"cancelling", "stopped"}
    BY <1>7, <2>1 DEF ReleaseThread, Goto, Ends, TypeOK, Ops
  <2>4. <<"attempt", c>> \notin thr
    BY <2>1 DEF LeaseInv, LeaseAt
  <2> QED BY <2>1, <2>2, <2>3, <2>4 DEF LeaseInv, LeaseAt, Row, Freeing, Ops
<1>8. ASSUME NEW c \in Calls, CancelThread(c) PROVE LeaseInv'
  BY <1>8 DEF TypeOK, ThreadsKnown, ThreadsAt, LeaseInv, LeaseAt, Row,
     Freeing, Rows, Ops, Goto, Spawn, Ends, CancelThread
<1>9. ASSUME NEW c \in Calls, FreeThread(c) PROVE LeaseInv'
  BY <1>9 DEF TypeOK, ThreadsKnown, ThreadsAt, LeaseInv, LeaseAt, Row,
     Freeing, Rows, Ops, Goto, Spawn, Ends, FreeThread, Without
<1>10. ASSUME NEW c \in Calls, Cancel(c) PROVE LeaseInv'
  <2>1. cancels[c] = 0 /\ cancels' = [cancels EXCEPT ![c] = 1]
    <3>1. cancels[c] \in Nat /\ cancels[c] < 1
      BY <1>10 DEF Cancel, TypeOK
    <3>2. cancels[c] = 0
      BY <3>1
    <3> QED BY <1>10, <3>2 DEF Cancel
  <2>2. waiting' = waiting /\ running' = running
    BY <1>10 DEF Cancel, Rows
  <2>3. ASSUME NEW d \in Calls \ {c} PROVE LeaseAt(d)'
    <3>1. pc'[d] = pc[d] /\ cancels'[d] = cancels[d]
      BY <1>10, <2>1 DEF Cancel, Goto, TypeOK
    <3>2. \A op \in Ops : <<op, d>> \in thr' <=> <<op, d>> \in thr
      BY <1>10 DEF Cancel
    <3>3. LeaseAt(d)
      BY DEF LeaseInv
    <3> QED BY <2>2, <3>1, <3>2, <3>3 DEF LeaseAt, Row, Freeing, Ops
  <2>4. LeaseAt(c)
    BY DEF LeaseInv
  <2>5. LeaseAt(c)'
    <3>1. CASE pc[c] = "polling" /\ Goto(c, "draining") /\ UNCHANGED thr
      BY <2>1, <2>2, <2>4, <3>1 DEF LeaseAt, Goto, TypeOK
    <3>2. CASE /\ pc[c] \in {"reserving", "cancelling"}
               /\ Goto(c, "stopped")
               /\ thr' \in {thr, thr \ {<<Awaited[pc[c]], c>>}}
      BY <2>1, <2>2, <2>4, <3>2 DEF LeaseAt, Row, Goto, TypeOK
    <3>3. CASE /\ pc[c] \in {"draining", "releasing"}
               /\ Goto(c, "cancelling")
               /\ \E kept \in {thr, thr \ {<<Awaited[pc[c]], c>>}} :
                     thr' = kept \cup {<<"cancel", c>>}
      <4>1. <<"attempt", c>> \notin thr
        BY <2>1, <2>4, <3>3 DEF LeaseAt
      <4>2. <<"cancel", c>> \in thr' /\ <<"attempt", c>> \notin thr'
        BY <3>3, <4>1
      <4> QED BY <2>1, <3>3, <4>2 DEF LeaseAt, Freeing, Goto, TypeOK
    <3> QED BY <1>10, <3>1, <3>2, <3>3 DEF Cancel
  <2> QED BY <2>3, <2>5 DEF LeaseInv
<1>11. ASSUME NEW c \in Calls, Send(c) PROVE LeaseInv'
  BY <1>11 DEF TypeOK, ThreadsKnown, ThreadsAt, LeaseInv, LeaseAt, Row,
     Freeing, Rows, Ops, Goto, Spawn, Ends, Send
<1>12. ASSUME NEW c \in Calls, Settle(c) PROVE LeaseInv'
  BY <1>12 DEF TypeOK, ThreadsKnown, ThreadsAt, LeaseInv, LeaseAt, Row,
     Freeing, Rows, Ops, Goto, Spawn, Ends, Settle
<1>13. ASSUME NEW c \in Calls, Release(c) PROVE LeaseInv'
  BY <1>13 DEF TypeOK, ThreadsKnown, ThreadsAt, LeaseInv, LeaseAt, Row,
     Freeing, Rows, Ops, Goto, Spawn, Ends, Release, Without
<1>14. ASSUME NEW c \in Calls, Renew(c) PROVE LeaseInv'
  BY <1>14 DEF TypeOK, ThreadsKnown, ThreadsAt, LeaseInv, LeaseAt, Row,
     Freeing, Rows, Ops, Goto, Spawn, Ends, Renew
<1>15. ASSUME NEW p \in Procs, Crash(p) PROVE LeaseInv'
  BY <1>15 DEF TypeOK, ThreadsKnown, ThreadsAt, LeaseInv, LeaseAt, Row,
     Freeing, Rows, Ops, Goto, Spawn, Ends, Crash
<1>16. ASSUME NEW u \in Users, Disable(u) PROVE LeaseInv'
  BY <1>16 DEF TypeOK, ThreadsKnown, ThreadsAt, LeaseInv, LeaseAt, Row,
     Freeing, Rows, Ops, Goto, Spawn, Ends, Disable
<1> QED
  BY <1>1, <1>2, <1>3, <1>4, <1>5, <1>6, <1>7, <1>8, <1>9, <1>10, <1>11,
     <1>12, <1>13, <1>14, <1>15, <1>16 DEF Next

\* A call that is cancelled at most once while it starts leaves no lease
\* behind in a living process (resource_limits.py:147-153, task_costs.py:171):
\* every row has a coroutine or a thread that will delete it.
THEOREM LeaseReleased == ASSUME MaxCancels <= 1 PROVE Spec => []LeaseIsReleased
<1>1. Init => LeaseInv
  BY DEF Init, LeaseInv, LeaseAt, Row, Freeing
<1>2. SlotInv /\ LeaseInv /\ [Next]_vars => LeaseInv'
  <2> SUFFICES ASSUME SlotInv, LeaseInv, [Next]_vars PROVE LeaseInv'
    OBVIOUS
  <2>1. CASE Next
    BY <2>1, LeaseStep DEF SlotInv
  <2>2. CASE UNCHANGED vars
    BY <2>2 DEF vars, LeaseInv, LeaseAt, Row, Freeing
  <2> QED BY <2>1, <2>2
<1>3. TypeOK /\ LeaseInv => LeaseIsReleased
  <2> SUFFICES ASSUME LeaseInv, TypeOK, NEW c \in waiting \cup running,
                      pc[c] \in {"idle", "done", "stopped"}
               PROVE  Freeing(c)
    BY DEF LeaseIsReleased, Freeing
  <2> QED BY DEF LeaseInv, LeaseAt, Row, TypeOK
<1>4. SlotInv => TypeOK
  BY DEF SlotInv
<1> QED BY <1>1, <1>2, <1>3, <1>4, SlotInductive, PTL DEF Spec
=============================================================================
