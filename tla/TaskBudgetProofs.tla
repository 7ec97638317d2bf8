-------------------------- MODULE TaskBudgetProofs --------------------------
(***************************************************************************)
(* BudgetInv is inductive, and what follows from it, for any number of     *)
(* agents, titles, pages and tool calls, and for any limits.               *)
(***************************************************************************)
EXTENDS TaskBudget, FiniteSetTheorems, SequenceTheorems, TLAPS

\* A settled row keeps its caller and its price; the table keeps its length.
LEMMA SettledRows ==
    ASSUME calls \in Seq(CallRow), NEW x, NEW n \in Nat,
           NEW state \in {"completed", "cancelled", "unknown"}
    PROVE  /\ Settled(x, state, n) \in Seq(CallRow)
           /\ Len(Settled(x, state, n)) = Len(calls)
           /\ \A i \in 1..Len(calls) :
                /\ Settled(x, state, n)[i].agent = calls[i].agent
                /\ Settled(x, state, n)[i].priced = calls[i].priced
                /\ Settled(x, state, n)[i].state \in {calls[i].state, state}
                /\ i # mine[x] => Settled(x, state, n)[i] = calls[i]
<1>1. CASE mine[x] \in Rows
  <2> DEFINE e == [calls[mine[x]] EXCEPT !.state = state, !.usage = n]
  <2>1. DOMAIN calls = 1..Len(calls)
    BY LenProperties
  <2>2. calls[mine[x]] \in CallRow
    BY <1>1, <2>1, ElementOfSeq DEF Rows
  <2>3. e \in CallRow /\ e.agent = calls[mine[x]].agent
        /\ e.priced = calls[mine[x]].priced /\ e.state = state
    BY <2>2 DEF CallRow
  <2>4. Settled(x, state, n) = [calls EXCEPT ![mine[x]] = e]
    BY <1>1 DEF Settled
  <2>5. /\ Settled(x, state, n) \in Seq(CallRow)
        /\ Len(Settled(x, state, n)) = Len(calls)
        /\ \A j \in 1..Len(calls) :
             Settled(x, state, n)[j] = IF j = mine[x] THEN e ELSE calls[j]
    BY <1>1, <2>1, <2>3, <2>4, ExceptSeq DEF Rows
  <2> QED BY <2>3, <2>5
<1>2. CASE mine[x] \notin Rows
  BY <1>2 DEF Settled
<1> QED BY <1>1, <1>2

\* So does finish, and it leaves no call on its way in a task that is not
\* completed.
LEMMA FinishedRows ==
    ASSUME calls \in Seq(CallRow), NEW state
    PROVE  /\ FinishedCalls(state) \in Seq(CallRow)
           /\ Len(FinishedCalls(state)) = Len(calls)
           /\ \A i \in 1..Len(calls) :
                /\ FinishedCalls(state)[i].agent = calls[i].agent
                /\ FinishedCalls(state)[i].priced = calls[i].priced
                /\ FinishedCalls(state)[i].state \in {calls[i].state, "unknown"}
                /\ row.state # "none" /\ state \in {"cancelled", "failed", "suspended"}
                     => FinishedCalls(state)[i].state # "running"
<1>1. CASE row.state # "none" /\ state \in {"cancelled", "failed", "suspended"}
  <2> DEFINE g == [i \in Rows |-> IF calls[i].state = "running"
                       THEN [calls[i] EXCEPT !.state = "unknown"] ELSE calls[i]]
  <2>1. Rows = 1..Len(calls) /\ Len(calls) \in Nat
    BY LenProperties DEF Rows
  <2>2. \A i \in 1..Len(calls) : calls[i] \in CallRow
    BY ElementOfSeq
  <2>3. g \in [1..Len(calls) -> CallRow]
    BY <2>1, <2>2 DEF CallRow
  <2>4. g \in Seq(CallRow)
    BY <2>1, <2>3
  <2>5. Len(g) = Len(calls)
    BY <2>1, <2>3, <2>4, LenProperties
  <2>6. FinishedCalls(state) = g
    BY <1>1 DEF FinishedCalls
  <2>7. \A i \in 1..Len(calls) :
          /\ g[i].agent = calls[i].agent /\ g[i].priced = calls[i].priced
          /\ g[i].state \in {calls[i].state, "unknown"} /\ g[i].state # "running"
    BY <2>1, <2>2 DEF CallRow
  <2>8. g \in Seq(CallRow) /\ Len(g) = Len(calls)
    BY <2>4, <2>5
  <2> HIDE DEF g
  <2> QED BY <2>6, <2>7, <2>8
<1>2. CASE ~(row.state # "none" /\ state \in {"cancelled", "failed", "suspended"})
  BY <1>2 DEF FinishedCalls
<1> QED BY <1>1, <1>2

\* The counters of a row may go up.
LEMMA RowCounts ==
    ASSUME row \in TaskRow
    PROVE  /\ row.version \in Nat /\ row.version + 1 \in Nat
           /\ row.model_calls \in Nat /\ row.model_calls + 1 \in Nat
           /\ row.tool_calls \in Nat
           /\ \A n \in Nat : row.tool_calls + n \in Nat
<1>1. row.version \in Nat /\ row.model_calls \in Nat /\ row.tool_calls \in Nat
  BY DEF TaskRow
<1> QED BY <1>1

\* finish keeps the types of the tables.
LEMMA FinishTyped ==
    ASSUME TypeOK, NEW state \in LedgerStates, Finish(state)
    PROVE  /\ row' \in TaskRow
           /\ calls' \in Seq(CallRow)
           /\ tools' = tools /\ elapsed' = elapsed /\ priced' = priced
<1>1. calls' \in Seq(CallRow)
  BY FinishedRows DEF Finish, TypeOK
<1>2. row' \in TaskRow
  BY RowCounts DEF Finish, FinishedRow, TypeOK, TaskRow
<1> QED BY <1>1, <1>2 DEF Finish, TypeOK

\* So does settle.
LEMMA SettleTyped ==
    ASSUME TypeOK, NEW x \in Callers, NEW n \in Nat,
           NEW state \in {"completed", "cancelled", "unknown"},
           NEW to \in {"idle", "gate", "ended"}, Settle(x, state, n, to)
    PROVE  TypeOK'
<1>1. calls' \in Seq(CallRow)
  BY SettledRows DEF Settle, TypeOK
<1> QED BY <1>1 DEF Settle, TypeOK, Move, ledger

\* Every step keeps the types.
LEMMA TypeStep ==
    ASSUME TypeOK, ReadIsOver, Next
    PROVE  TypeOK'
<1> USE BudgetAssumption DEF Callers, Requests
<1>1. ASSUME NEW x \in Callers, AskModel(x) PROVE TypeOK'
  BY <1>1 DEF AskModel, TypeOK, NoStore, tables, ledger, local, Move, Empty
<1>2. ASSUME NEW x \in Callers, PassModel(x) PROVE TypeOK'
  <2>1. [agent |-> x, state |-> "running", usage |-> 1, priced |-> priced] \in CallRow
    BY DEF CallRow, TypeOK
  <2>2. calls' \in Seq(CallRow) /\ Len(calls) \in Nat
    BY <1>2, <2>1, AppendProperties, LenProperties DEF PassModel, TypeOK
  <2>3. row' \in TaskRow
    BY <1>2, RowCounts DEF PassModel, TypeOK, TaskRow
  <2> QED BY <1>2, <2>2, <2>3 DEF PassModel, TypeOK, ledger, Move
<1>3. ASSUME NEW x \in Callers, Pause(x) PROVE TypeOK'
  <2>1. row' \in TaskRow
    BY <1>3, RowCounts DEF Pause, Paused, TypeOK, TaskRow
  <2> QED BY <1>3, <2>1 DEF Pause, TypeOK, ledger, local, Move
<1>4. ASSUME NEW x \in Callers, Refuse(x) PROVE TypeOK'
  BY <1>4 DEF Refuse, TypeOK, NoStore, tables, ledger, local, Move, Empty
<1>5. ASSUME NEW x \in Callers, Send(x) PROVE TypeOK'
  BY <1>5 DEF Send, TypeOK, NoStore, tables, ledger, local, Move, Empty
<1>6. ASSUME NEW x \in Callers, NotSent(x) PROVE TypeOK'
  BY <1>6, SettleTyped DEF NotSent
<1>7. ASSUME NEW x \in Callers, Answered(x) PROVE TypeOK'
  <2>1. PICK n \in 0..MaxUsage : Settle(x, "completed", n, "idle")
    BY <1>7 DEF Answered
  <2> QED BY <2>1, SettleTyped
<1>8. ASSUME NEW x \in Callers, Retry(x) PROVE TypeOK'
  <2>1. PICK n \in 0..MaxUsage : Settle(x, "unknown", n, "gate")
    BY <1>8 DEF Retry
  <2> QED BY <2>1, SettleTyped
<1>9. ASSUME NEW x \in Callers, Broken(x) PROVE TypeOK'
  <2>1. PICK n \in 0..MaxUsage : Settle(x, "unknown", n, "ended")
    BY <1>9 DEF Broken
  <2> QED BY <2>1, SettleTyped
<1>10. ASSUME NEW a \in Agents, AskTools(a) PROVE TypeOK'
  BY <1>10 DEF AskTools, TypeOK, NoStore, tables, ledger, local, Move, Empty
<1>11. ASSUME NEW a \in Agents, PassTools(a) PROVE TypeOK'
  <2>1. Added(batch[a]) \in Nat
    BY FS_Subset, FS_CardinalityType DEF Added, TypeOK
  <2>2. row' \in TaskRow
    BY <1>11, <2>1, RowCounts DEF PassTools, TypeOK, TaskRow
  <2> QED BY <1>11, <2>1, <2>2 DEF PassTools, TypeOK, ledger, Move, Empty
<1>12. ASSUME NEW a \in Agents, ToolsDone(a) PROVE TypeOK'
  BY <1>12 DEF ToolsDone, TypeOK, NoStore, tables, ledger, local, Move, Empty
<1>13. ASSUME NEW a \in Agents, Cancelled(a) PROVE TypeOK'
  BY <1>13 DEF Cancelled, TypeOK, NoStore, tables, ledger, local, Move, Empty
<1>14. ASSUME OpenTask PROVE TypeOK'
  <2>1. row' \in TaskRow
    <3>1. PICK limits \in Configured : row' = Opened(limits)
      BY <1>14 DEF OpenTask
    <3>2. NoRow \in TaskRow
      BY DEF NoRow, TaskRow
    <3> QED BY <3>1, <3>2 DEF Opened, TypeOK, TaskRow, LedgerStates
  <2> QED BY <1>14, <2>1 DEF OpenTask, TypeOK, ledger, local, Move
<1>15. ASSUME FailOpening PROVE TypeOK'
  BY <1>15 DEF FailOpening, TypeOK, NoStore, tables, ledger, local, Move, Empty, LedgerStates, Terminal
<1>16. ASSUME FinishTask PROVE TypeOK'
  <2> DEFINE end == IF final.saw = "suspended" THEN "suspended"
                    ELSE IF stopping # "no" /\ final.did # "completed" THEN "cancelled"
                    ELSE final.did
  <2>1. end \in LedgerStates /\ Finish(end)
    BY <1>16 DEF FinishTask, TypeOK, ReadIsOver, LedgerStates, Terminal
  <2> HIDE DEF end
  <2> QED BY <1>16, <2>1, FinishTyped DEF FinishTask, TypeOK, ledger, local, Move
<1>17. ASSUME CloseTask PROVE TypeOK'
  BY <1>17 DEF CloseTask, TypeOK, NoStore, tables, ledger, local, Move, Empty, Gone, LedgerStates, Terminal, NoFinal, LedgerStates
<1>18. ASSUME CrashWorker PROVE TypeOK'
  BY <1>18 DEF CrashWorker, TypeOK, NoStore, tables, ledger, local, Move, Empty, Gone, NoFinal, LedgerStates
<1>19. ASSUME StopWorker PROVE TypeOK'
  BY <1>19 DEF StopWorker, TypeOK, NoStore, tables, ledger, local, Move, Empty
<1>20. ASSUME Suspend PROVE TypeOK'
  BY <1>20 DEF Suspend, TypeOK, NoStore, tables, ledger, local, Move, Empty, LedgerStates, Terminal
<1>21. ASSUME NEW did \in {"completed", "failed"}, Leave(did) PROVE TypeOK'
  BY <1>21 DEF Leave, TypeOK, NoStore, tables, ledger, local, Move, Empty, LedgerStates, Terminal
<1>22. ASSUME Resume PROVE TypeOK'
  BY <1>22 DEF Resume, TypeOK, NoStore, tables, ledger, local, Move, Empty, LedgerStates, Terminal
<1>23. ASSUME GiveUp PROVE TypeOK'
  BY <1>23 DEF GiveUp, TypeOK, NoStore, tables, ledger, local, Move, Empty, LedgerStates, Terminal
<1>24. ASSUME Claim PROVE TypeOK'
  BY <1>24 DEF Claim, TypeOK, NoStore, tables, ledger, local, Move, Empty, LedgerStates, Terminal
<1>25. ASSUME Unclaim PROVE TypeOK'
  BY <1>25 DEF Unclaim, TypeOK, NoStore, tables, ledger, local, Move, Empty, LedgerStates, Terminal
<1>26. ASSUME RetireTask PROVE TypeOK'
  BY <1>26 DEF RetireTask, TypeOK, NoStore, tables, ledger, local, Move, Empty, LedgerStates, Terminal
<1>27. ASSUME RetireBudget PROVE TypeOK'
  <2> DEFINE end == "cancelled"
  <2>1. end \in LedgerStates /\ Finish(end)
    BY <1>27 DEF RetireBudget, TypeOK, ReadIsOver, LedgerStates, Terminal
  <2> HIDE DEF end
  <2> QED BY <1>27, <2>1, FinishTyped DEF RetireBudget, TypeOK, ledger, local, Move
<1>28. ASSUME RestartBackend PROVE TypeOK'
  BY <1>28 DEF RestartBackend, TypeOK, NoStore, tables, ledger, local, Move, Empty
<1>29. ASSUME SavePricing PROVE TypeOK'
  BY <1>29 DEF SavePricing, TypeOK, NoStore, tables, ledger, local, Move, Empty
<1>30. ASSUME NEW r \in Posts, Show(r) PROVE TypeOK'
  BY <1>30, RowCounts DEF Show, TypeOK, NoStore, tables, ledger, local, Move
<1>31. ASSUME NEW r \in Posts, Post(r) PROVE TypeOK'
  BY <1>31 DEF Post, TypeOK, NoStore, tables, ledger, local, Move, Empty, Swept, Sweep, LedgerStates, Terminal
<1>32. ASSUME NEW r \in Posts, Check(r) PROVE TypeOK'
  BY <1>32 DEF Check, TypeOK, NoStore, tables, ledger, local, Move, Empty
<1>33. ASSUME NEW r \in Posts, Continue(r) PROVE TypeOK'
  <2>1. row' \in TaskRow
    <3>1. PICK limits \in Raised :
            row' = [row EXCEPT !.state = "running", !.reason = "none",
                               !.limits = limits, !.version = @ + 1]
      BY <1>33 DEF Continue
    <3> QED BY <3>1, RowCounts DEF TypeOK, TaskRow, LedgerStates
  <2> QED BY <1>33, <2>1 DEF Continue, TypeOK, ledger, local, Move
<1>34. ASSUME NEW r \in Posts, RefusePost(r) PROVE TypeOK'
  BY <1>34 DEF RefusePost, TypeOK, NoStore, tables, ledger, local, Move, Empty
<1>35. ASSUME NEW u \in Polls, Poll(u) PROVE TypeOK'
  BY <1>35 DEF Poll, TypeOK, NoStore, tables, ledger, local, Move, Empty, Swept, Sweep, LedgerStates, Terminal
<1>36. ASSUME NEW u \in Polls, List(u) PROVE TypeOK'
  BY <1>36 DEF List, TypeOK, NoStore, tables, ledger, local, Move, Empty
<1>37. ASSUME NEW u \in Polls, ReadControl(u) PROVE TypeOK'
  BY <1>37 DEF ReadControl, TypeOK, NoStore, tables, ledger, local, Move, Empty, LedgerStates, Terminal
<1>38. ASSUME NEW u \in Polls, FinishStale(u) PROVE TypeOK'
  <2> DEFINE end == stale[u]
  <2>1. end \in LedgerStates /\ Finish(end)
    BY <1>38 DEF FinishStale, TypeOK, ReadIsOver, LedgerStates, Terminal
  <2> HIDE DEF end
  <2> QED BY <1>38, <2>1, FinishTyped DEF FinishStale, TypeOK, ledger, local, Move
<1>39. ASSUME NEW s \in Stops, StopTask(s) PROVE TypeOK'
  BY <1>39 DEF StopTask, TypeOK, NoStore, tables, ledger, local, Move, Empty, Signal
<1>40. ASSUME NEW s \in Stops, Terminate(s) PROVE TypeOK'
  BY <1>40 DEF Terminate, TypeOK, NoStore, tables, ledger, local, Move, Empty, Gone, NoFinal, LedgerStates
<1>41. ASSUME NEW s \in Stops, StopSaved(s) PROVE TypeOK'
  BY <1>41 DEF StopSaved, TypeOK, NoStore, tables, ledger, local, Move, Empty, Swept, LedgerStates, Terminal
<1>42. ASSUME NEW s \in Stops, StopRow(s) PROVE TypeOK'
  <2> DEFINE end == "cancelled"
  <2>1. end \in LedgerStates /\ Finish(end)
    BY <1>42 DEF StopRow, TypeOK, ReadIsOver, LedgerStates, Terminal
  <2> HIDE DEF end
  <2> QED BY <1>42, <2>1, FinishTyped DEF StopRow, TypeOK, ledger, local, Move
<1>43. ASSUME Tick PROVE TypeOK'
  BY <1>43 DEF Tick, TypeOK, NoStore, tables, ledger, local, Move, Empty
<1> QED
  BY <1>1, <1>2, <1>3, <1>4, <1>5, <1>6, <1>7, <1>8, <1>9, <1>10, <1>11, <1>12, <1>13, <1>14, <1>15, <1>16, <1>17, <1>18, <1>19, <1>20, <1>21, <1>22, <1>23, <1>24, <1>25, <1>26, <1>27, <1>28, <1>29, <1>30, <1>31, <1>32, <1>33, <1>34, <1>35, <1>36, <1>37, <1>38, <1>39, <1>40, <1>41, <1>42, <1>43
  DEF Next, CallerStep, AgentStep, WorkerStep, BackendStep, RouteStep

-----------------------------------------------------------------------------
\* Nobody comes to a request, an acceptance or a read state, and who is there
\* keeps what it has.
LocalsKept ==
    /\ \A x \in Callers : pc'[x] \in {"granted", "sending"} =>
          pc[x] \in {"granted", "sending"} /\ mine'[x] = mine[x]
    /\ \A r \in Posts : pc'[r] = "accepted" => pc[r] = "accepted" /\ seen'[r] = seen[r]
    /\ \A u \in Polls : pc'[u] = "read" => pc[u] = "read" /\ stale'[u] = stale[u]

LEMMA MoveKeeps ==
    ASSUME TypeOK, NEW x \in Callers \cup Requests, NEW to, Move(x, to),
           to \notin {"granted", "sending", "accepted", "read"},
           \A y \in Callers \ {x} : mine'[y] = mine[y],
           \A r \in Posts \ {x} : seen'[r] = seen[r],
           \A u \in Polls \ {x} : stale'[u] = stale[u]
    PROVE  LocalsKept
<1>1. \A y \in Callers \cup Requests : pc'[y] = IF y = x THEN to ELSE pc[y]
  BY DEF Move, TypeOK
<1> QED BY <1>1 DEF LocalsKept, Requests

\* What the callers and the requests know stays true when their tables do.
LEMMA QuietStep ==
    ASSUME BudgetInv, TypeOK', LocalsKept, row' = row, calls' = calls, tools' = tools
    PROVE  BudgetInv'
<1>1. EmptyAtFirst' /\ WithinLimit' /\ CountedOnce' /\ EndedIsSettled'
  BY DEF BudgetInv, EmptyAtFirst, WithinLimit, CountedOnce, EndedIsSettled, Rows, NoRow
<1>2. CostIsKnown'
  BY DEF BudgetInv, CostIsKnown, Unpriced, Rows
<1>3. SentIsReserved'
  BY DEF BudgetInv, SentIsReserved, LocalsKept, Rows
<1>4. AcceptedIsPast' /\ OneAnswer'
  BY DEF BudgetInv, AcceptedIsPast, OneAnswer, LocalsKept
<1>5. ReadIsOver'
  BY DEF BudgetInv, ReadIsOver, LocalsKept
<1> QED BY <1>1, <1>2, <1>3, <1>4, <1>5 DEF BudgetInv

\* finish marks what is on its way before the row takes the state of an end.
LEMMA FinishStep ==
    ASSUME BudgetInv, TypeOK', LocalsKept,
           NEW state \in LedgerStates \ {"running"}, Finish(state)
    PROVE  BudgetInv'
<1> DEFINE n == Len(calls)
<1>1. /\ calls' \in Seq(CallRow) /\ Len(calls') = n
      /\ \A i \in 1..n :
            /\ calls'[i].agent = calls[i].agent /\ calls'[i].priced = calls[i].priced
            /\ calls'[i].state \in {calls[i].state, "unknown"}
            /\ row.state # "none" /\ state \in {"cancelled", "failed", "suspended"}
                 => calls'[i].state # "running"
  BY FinishedRows DEF BudgetInv, TypeOK, Finish
<1>2. Rows = 1..n /\ Rows' = 1..n
  BY <1>1, LenProperties DEF BudgetInv, TypeOK, Rows
<1>3. /\ row'.limits = row.limits /\ row'.model_calls = row.model_calls
      /\ row'.tool_calls = row.tool_calls /\ row'.version >= row.version
      /\ row.state # "none" => row'.state = state
      /\ row.state = "none" => row' = row
  BY RowCounts DEF BudgetInv, TypeOK, TaskRow, Finish, FinishedRow
<1>4. EmptyAtFirst'
  BY <1>3 DEF BudgetInv, EmptyAtFirst, NoRow, Finish, FinishedCalls, LedgerStates, Terminal
<1>5. WithinLimit' /\ CountedOnce'
  BY <1>1, <1>3 DEF BudgetInv, WithinLimit, CountedOnce, Finish
<1>6. CostIsKnown'
  BY <1>1, <1>2, <1>3 DEF BudgetInv, CostIsKnown, Unpriced
<1>7. SentIsReserved'
  BY <1>1, <1>2 DEF BudgetInv, SentIsReserved, LocalsKept
<1>8. EndedIsSettled'
  <2>1. CASE row.state = "none"
    BY <2>1, <1>3 DEF BudgetInv, EmptyAtFirst, EndedIsSettled, NoRow
  <2>2. CASE row.state # "none"
    BY <2>2, <1>1, <1>2, <1>3 DEF EndedIsSettled
  <2> QED BY <2>1, <2>2
<1>9. AcceptedIsPast' /\ OneAnswer'
  <2>1. row.version \in Nat /\ row'.version \in Nat /\ \A r \in Posts : seen[r] \in Nat
    BY DEF BudgetInv, TypeOK, TaskRow
  <2> QED BY <1>3, <2>1 DEF BudgetInv, AcceptedIsPast, OneAnswer, LocalsKept
<1>10. ReadIsOver'
  BY DEF BudgetInv, ReadIsOver, LocalsKept
<1> QED BY <1>4, <1>5, <1>6, <1>7, <1>8, <1>9, <1>10 DEF BudgetInv

\* A caller settles a row of its own, so nobody else's changes.
LEMMA SettleStep ==
    ASSUME BudgetInv, TypeOK', NEW x \in Callers, NEW n \in Nat,
           pc[x] \in {"granted", "sending"},
           NEW state \in {"completed", "cancelled", "unknown"},
           NEW to \in {"idle", "gate", "ended"}, Settle(x, state, n, to)
    PROVE  BudgetInv'
<1> DEFINE len == Len(calls)
<1>1. /\ calls' \in Seq(CallRow) /\ Len(calls') = len
      /\ \A i \in 1..len :
           /\ calls'[i].agent = calls[i].agent /\ calls'[i].priced = calls[i].priced
           /\ calls'[i].state \in {calls[i].state, state}
           /\ i # mine[x] => calls'[i] = calls[i]
  BY SettledRows DEF BudgetInv, TypeOK, Settle
<1>2. Rows = 1..len /\ Rows' = 1..len
  BY <1>1, LenProperties DEF BudgetInv, TypeOK, Rows
<1>3. row' = row /\ tools' = tools
  BY DEF Settle
<1>4. EmptyAtFirst'
  <2>1. CASE row.state = "none"
    BY <2>1, <1>2, <1>3 DEF BudgetInv, EmptyAtFirst, Settle, Settled, NoRow, Rows
  <2> QED BY <2>1, <1>3 DEF EmptyAtFirst
<1>5. WithinLimit' /\ CountedOnce'
  BY <1>1, <1>3 DEF BudgetInv, WithinLimit, CountedOnce
<1>6. CostIsKnown'
  BY <1>1, <1>2, <1>3 DEF BudgetInv, CostIsKnown, Unpriced
<1>7. LocalsKept
  <2>1. \A y \in Callers \ {x} : mine'[y] = mine[y]
    BY DEF Settle, BudgetInv, TypeOK
  <2> QED BY <2>1, MoveKeeps DEF Settle, BudgetInv, ledger
<1>8. SentIsReserved'
  <2> SUFFICES ASSUME NEW y \in Callers, pc'[y] \in {"granted", "sending"}
               PROVE  /\ mine'[y] \in Rows' /\ calls'[mine'[y]].agent = y
                      /\ calls'[mine'[y]].state \in {"running", "unknown"}
    BY DEF SentIsReserved
  <2>1. y # x
    BY DEF Settle, Move, BudgetInv, TypeOK
  <2>2. /\ pc[y] \in {"granted", "sending"} /\ mine'[y] = mine[y]
        /\ mine[y] \in Rows /\ calls[mine[y]].agent = y /\ calls[mine[x]].agent = x
        /\ calls[mine[y]].state \in {"running", "unknown"}
    BY <1>7 DEF LocalsKept, BudgetInv, SentIsReserved
  <2>3. mine[y] # mine[x]
    BY <2>1, <2>2
  <2> QED BY <1>1, <1>2, <2>2, <2>3
<1>9. EndedIsSettled'
  BY <1>1, <1>2, <1>3 DEF BudgetInv, EndedIsSettled
<1>10. AcceptedIsPast' /\ OneAnswer' /\ ReadIsOver'
  BY <1>3, <1>7 DEF BudgetInv, AcceptedIsPast, OneAnswer, ReadIsOver, LocalsKept
<1> QED BY <1>4, <1>5, <1>6, <1>8, <1>9, <1>10 DEF BudgetInv

\* What a limit on the calls is compared with.
LEMMA UsedCalls == Used["model_calls"] = row.model_calls
  BY DEF Used, Kinds

\* A model call that passes the gate fits below the limit, and has a price where
\* the cost is limited.
LEMMA PassModelStep ==
    ASSUME BudgetInv, TypeOK', NEW x \in Callers, PassModel(x)
    PROVE  BudgetInv'
<1> USE BudgetAssumption DEF Callers, Requests
<1> DEFINE n == Len(calls)
           e == [agent |-> x, state |-> "running", usage |-> 1, priced |-> priced]
<1>1. /\ row.state = "running" \/ LateTitle(x)
      /\ ~AtLimit /\ ~PriceMissing(TRUE)
  BY DEF PassModel, Admitted, Replayed, IsCall, PriceMissing
<1>2. e \in CallRow
  BY DEF CallRow, BudgetInv, TypeOK
<1>3. /\ n \in Nat /\ Len(calls') = n + 1
      /\ \A i \in 1..n : calls'[i] = calls[i]
      /\ calls'[n + 1] = e
      /\ calls' \in Seq(CallRow)
  BY <1>2, AppendProperties, LenProperties DEF PassModel, BudgetInv, TypeOK
<1>4. Rows = 1..n /\ Rows' = 1..(n + 1)
  BY <1>3, LenProperties DEF BudgetInv, TypeOK, Rows
<1>5. /\ row'.state = row.state /\ row'.limits = row.limits
      /\ row'.version = row.version /\ row'.tool_calls = row.tool_calls
      /\ row'.model_calls = row.model_calls + 1
  BY DEF PassModel, BudgetInv, TypeOK, TaskRow
<1>6. row.state \in {"running", "completed"}
  BY <1>1 DEF LateTitle
<1>7. EmptyAtFirst' /\ EndedIsSettled'
  BY <1>5, <1>6 DEF EmptyAtFirst, EndedIsSettled
<1>8. WithinLimit'
  <2>1. row.limits["model_calls"] > 0 => ~(row.model_calls >= row.limits["model_calls"])
    BY <1>1, UsedCalls DEF AtLimit, Kinds
  <2>2. row.limits["model_calls"] \in Nat /\ row.model_calls \in Nat
    BY DEF BudgetInv, TypeOK, TaskRow, Kinds
  <2> QED BY <1>5, <2>1, <2>2 DEF WithinLimit
<1>9. CountedOnce'
  BY <1>3, <1>5 DEF BudgetInv, CountedOnce, PassModel
<1>10. CostIsKnown'
  <2>1. row.limits["cost"] > 0 => ~Unpriced /\ priced
    BY <1>1 DEF PriceMissing
  <2>2. row.limits["cost"] > 0 => \A i \in 1..(n + 1) : calls'[i].priced
    BY <1>3, <1>4, <2>1 DEF Unpriced
  <2> QED BY <1>4, <1>5, <2>2 DEF CostIsKnown, Unpriced
<1>11. \A y \in DOMAIN pc : pc'[y] = IF y = x THEN "granted" ELSE pc[y]
  BY DEF PassModel, Move, BudgetInv, TypeOK
<1>12. SentIsReserved'
  <2> SUFFICES ASSUME NEW y \in Callers, pc'[y] \in {"granted", "sending"}
               PROVE  /\ mine'[y] \in Rows' /\ calls'[mine'[y]].agent = y
                      /\ calls'[mine'[y]].state \in {"running", "unknown"}
    BY DEF SentIsReserved
  <2>1. CASE y = x
    <3>1. mine'[x] = n + 1
      BY DEF PassModel, BudgetInv, TypeOK
    <3> QED BY <2>1, <3>1, <1>3, <1>4
  <2>2. CASE y # x
    <3>1. mine'[y] = mine[y] /\ pc'[y] = pc[y]
      BY <2>2, <1>11 DEF PassModel, BudgetInv, TypeOK
    <3>2. /\ mine[y] \in Rows /\ calls[mine[y]].agent = y
          /\ calls[mine[y]].state \in {"running", "unknown"}
      BY <3>1 DEF BudgetInv, SentIsReserved
    <3> QED BY <3>1, <3>2, <1>3, <1>4
  <2> QED BY <2>1, <2>2
<1>13. AcceptedIsPast' /\ OneAnswer' /\ ReadIsOver'
  <2>1. seen' = seen /\ stale' = stale
    BY DEF PassModel
  <2>2. \A y \in Posts \cup Polls : pc'[y] = pc[y]
    BY <1>11 DEF BudgetInv, TypeOK
  <2> QED BY <2>1, <2>2, <1>5 DEF BudgetInv, AcceptedIsPast, OneAnswer, ReadIsOver
<1> QED BY <1>7, <1>8, <1>9, <1>10, <1>12, <1>13 DEF BudgetInv

\* The counter of the tool calls grows by those the table did not have.
LEMMA PassToolsStep ==
    ASSUME BudgetInv, TypeOK', NEW a \in Agents, PassTools(a)
    PROVE  BudgetInv'
<1> USE BudgetAssumption DEF Callers, Requests
<1>1. row.state = "running"
  BY DEF PassTools, Admitted, LateTitle
<1>2. Cardinality(tools \cup batch[a]) = Cardinality(tools) + Added(batch[a])
  <2>1. tools \subseteq Keys /\ batch[a] \subseteq Keys
    BY DEF BudgetInv, TypeOK
  <2>2. IsFiniteSet(tools) /\ IsFiniteSet(batch[a] \ tools)
    BY <2>1, FS_Subset
  <2>3. /\ tools \cap (batch[a] \ tools) = {}
        /\ tools \cup (batch[a] \ tools) = tools \cup batch[a]
    OBVIOUS
  <2>4. Cardinality({}) = 0
    BY FS_EmptySet
  <2>5. Cardinality(tools) \in Nat /\ Cardinality(batch[a] \ tools) \in Nat
    BY <2>2, FS_CardinalityType
  <2>6. Cardinality(tools \cup (batch[a] \ tools))
          = Cardinality(tools) + Cardinality(batch[a] \ tools)
              - Cardinality(tools \cap (batch[a] \ tools))
    BY <2>2, FS_Union
  <2>7. Cardinality(tools \cup batch[a])
          = Cardinality(tools) + Cardinality(batch[a] \ tools) - 0
    BY <2>3, <2>4, <2>6
  <2> QED BY <2>5, <2>7 DEF Added
<1>3. /\ row'.state = row.state /\ row'.limits = row.limits
      /\ row'.version = row.version /\ row'.model_calls = row.model_calls
      /\ row'.tool_calls = row.tool_calls + Added(batch[a])
  BY DEF PassTools, BudgetInv, TypeOK, TaskRow
<1>4. calls' = calls /\ tools' = tools \cup batch[a]
  BY DEF PassTools
<1>5. EmptyAtFirst' /\ EndedIsSettled'
  BY <1>1, <1>3 DEF EmptyAtFirst, EndedIsSettled
<1>6. WithinLimit' /\ CountedOnce'
  BY <1>2, <1>3, <1>4 DEF BudgetInv, WithinLimit, CountedOnce
<1>7. CostIsKnown'
  BY <1>3, <1>4 DEF BudgetInv, CostIsKnown, Unpriced, Rows
<1>8. LocalsKept
  BY MoveKeeps DEF PassTools, BudgetInv, ledger
<1>9. SentIsReserved'
  BY <1>4, <1>8 DEF BudgetInv, SentIsReserved, LocalsKept, Rows
<1>10. AcceptedIsPast' /\ OneAnswer' /\ ReadIsOver'
  BY <1>3, <1>8 DEF BudgetInv, AcceptedIsPast, OneAnswer, ReadIsOver, LocalsKept
<1> QED BY <1>5, <1>6, <1>7, <1>9, <1>10 DEF BudgetInv

\* A row that is open afterwards may take a new version, and other limits above
\* what has been used.
LEMMA RowStep ==
    ASSUME BudgetInv, TypeOK', calls' = calls, tools' = tools, mine' = mine,
           seen' = seen, stale' = stale,
           row'.state \in Open, row'.version >= row.version,
           row'.model_calls = row.model_calls, row'.tool_calls = row.tool_calls,
           row'.limits = row.limits
             \/ /\ row'.limits["model_calls"] > 0 =>
                      row.model_calls <= row'.limits["model_calls"]
                /\ row'.limits["cost"] > 0 => ~Unpriced
    PROVE  /\ EmptyAtFirst' /\ WithinLimit' /\ CountedOnce'
           /\ CostIsKnown' /\ EndedIsSettled'
<1>1. EmptyAtFirst' /\ EndedIsSettled'
  BY DEF EmptyAtFirst, EndedIsSettled, Open
<1>2. WithinLimit' /\ CountedOnce'
  BY DEF BudgetInv, WithinLimit, CountedOnce
<1>3. CostIsKnown'
  BY DEF BudgetInv, CostIsKnown, Unpriced, Rows
<1> QED BY <1>1, <1>2, <1>3

LEMMA PauseStep ==
    ASSUME BudgetInv, TypeOK', NEW x \in Callers, Pause(x)
    PROVE  BudgetInv'
<1>1. /\ row'.state = "paused" /\ row'.limits = row.limits
      /\ row'.version = row.version + 1 /\ row.version \in Nat
      /\ row'.model_calls = row.model_calls /\ row'.tool_calls = row.tool_calls
  BY RowCounts DEF Pause, Paused, BudgetInv, TypeOK, TaskRow
<1>2. calls' = calls /\ tools' = tools /\ pc' = pc /\ mine' = mine /\ seen' = seen
      /\ stale' = stale
  BY DEF Pause, local
<1>3. /\ EmptyAtFirst' /\ WithinLimit' /\ CountedOnce' /\ CostIsKnown' /\ EndedIsSettled'
  BY <1>1, <1>2, RowStep DEF Open
<1>4. SentIsReserved'
  BY <1>2 DEF BudgetInv, SentIsReserved, Rows
<1>5. AcceptedIsPast'
  <2>1. \A r \in Posts : seen[r] \in Nat
    BY DEF BudgetInv, TypeOK
  <2> QED BY <1>1, <1>2, <2>1 DEF BudgetInv, AcceptedIsPast
<1>6. OneAnswer' /\ ReadIsOver'
  BY <1>2 DEF BudgetInv, OneAnswer, ReadIsOver
<1> QED BY <1>3, <1>4, <1>5, <1>6 DEF BudgetInv

LEMMA OpenStep ==
    ASSUME BudgetInv, TypeOK', OpenTask
    PROVE  BudgetInv'
<1>1. PICK limits \in Configured : row' = Opened(limits)
  BY DEF OpenTask
<1>2. calls' = calls /\ tools' = tools /\ pc' = pc /\ mine' = mine /\ seen' = seen
      /\ stale' = stale
  BY DEF OpenTask, local
<1>3. LocalsKept
  BY <1>2 DEF LocalsKept
<1>4. CASE row.state = "none"
  <2>1. row = NoRow /\ calls = <<>> /\ tools = {}
    BY <1>4 DEF BudgetInv, EmptyAtFirst
  <2>2. /\ row'.state = "running" /\ row'.limits = limits /\ row'.version = row.version
        /\ row'.model_calls = 0 /\ row'.tool_calls = 0
        /\ row.model_calls = 0 /\ row.tool_calls = 0
    BY <1>1, <1>4, <2>1 DEF Opened, NoRow
  <2>3. limits \in [Kinds -> Nat]
    BY BudgetAssumption
  <2>4. limits["model_calls"] \in Nat /\ ~Unpriced
    BY <2>1, <2>3 DEF Kinds, Unpriced, Rows
  <2>5. row'.version >= row.version
    BY <2>2 DEF BudgetInv, TypeOK, TaskRow
  <2>6. /\ EmptyAtFirst' /\ WithinLimit' /\ CountedOnce' /\ CostIsKnown' /\ EndedIsSettled'
    BY <1>2, <2>2, <2>4, <2>5, RowStep DEF Open
  <2>7. /\ SentIsReserved' /\ AcceptedIsPast' /\ OneAnswer' /\ ReadIsOver'
    BY <1>2, <2>2 DEF BudgetInv, SentIsReserved, AcceptedIsPast, OneAnswer, ReadIsOver, Rows
  <2> QED BY <2>6, <2>7 DEF BudgetInv
<1>5. CASE row.state = "suspended"
  <2>1. /\ row'.state \in Open /\ row'.limits = row.limits /\ row'.version = row.version
        /\ row'.model_calls = row.model_calls /\ row'.tool_calls = row.tool_calls
    BY <1>1, <1>5 DEF Opened, BudgetInv, TypeOK, TaskRow, Open
  <2>2. row'.version >= row.version
    BY <2>1 DEF BudgetInv, TypeOK, TaskRow
  <2>3. /\ EmptyAtFirst' /\ WithinLimit' /\ CountedOnce' /\ CostIsKnown' /\ EndedIsSettled'
    BY <1>2, <2>1, <2>2, RowStep
  <2>4. /\ SentIsReserved' /\ AcceptedIsPast' /\ OneAnswer' /\ ReadIsOver'
    BY <1>2, <2>1 DEF BudgetInv, SentIsReserved, AcceptedIsPast, OneAnswer, ReadIsOver, Rows
  <2> QED BY <2>3, <2>4 DEF BudgetInv
<1>6. CASE row.state \notin {"none", "suspended"}
  BY <1>1, <1>2, <1>3, <1>6, QuietStep DEF Opened
<1> QED BY <1>4, <1>5, <1>6

\* The version an accepted request has seen is the row's last one.
LEMMA ContinueStep ==
    ASSUME BudgetInv, TypeOK', NEW r \in Posts, Continue(r)
    PROVE  BudgetInv'
<1> USE BudgetAssumption DEF Callers, Requests
<1>1. PICK limits \in Raised :
        /\ Enough(limits)
        /\ row' = [row EXCEPT !.state = "running", !.reason = "none",
                             !.limits = limits, !.version = @ + 1]
  BY DEF Continue
<1>2. /\ calls' = calls /\ tools' = tools /\ mine' = mine /\ seen' = seen /\ stale' = stale
      /\ row.state = "paused" /\ row.version = seen[r]
  BY DEF Continue, AnswersPause
<1>3. /\ row'.state = "running" /\ row'.limits = limits
      /\ row'.version = row.version + 1 /\ row.version \in Nat
      /\ row'.model_calls = row.model_calls /\ row'.tool_calls = row.tool_calls
  BY <1>1, RowCounts DEF BudgetInv, TypeOK, TaskRow
<1>4. /\ limits["model_calls"] > 0 => row.model_calls <= limits["model_calls"]
      /\ limits["cost"] > 0 => ~Unpriced
  <2>1. limits \in [Kinds -> Nat]
    OBVIOUS
  <2>2. limits["model_calls"] \in Nat /\ row.model_calls \in Nat
    BY <2>1 DEF Kinds, BudgetInv, TypeOK, TaskRow
  <2>3. limits["model_calls"] > 0 => limits["model_calls"] > row.model_calls
    BY <1>1, UsedCalls DEF Enough, Kinds
  <2> QED BY <1>1, <2>2, <2>3 DEF Enough
<1>5. /\ EmptyAtFirst' /\ WithinLimit' /\ CountedOnce' /\ CostIsKnown' /\ EndedIsSettled'
  BY <1>2, <1>3, <1>4, RowStep DEF Open
<1>6. \A y \in DOMAIN pc : pc'[y] = IF y = r THEN "accepted" ELSE pc[y]
  BY DEF Continue, Move, BudgetInv, TypeOK
<1>7. \A y \in Callers \cup Polls : pc'[y] = pc[y]
  BY <1>6 DEF BudgetInv, TypeOK
<1>8. SentIsReserved' /\ ReadIsOver'
  BY <1>2, <1>7 DEF BudgetInv, SentIsReserved, ReadIsOver, Rows
<1>9. \A q \in Posts : q # r => pc'[q] = pc[q]
  BY <1>6 DEF BudgetInv, TypeOK
<1>10. \A q \in Posts : seen[q] \in Nat
  BY DEF BudgetInv, TypeOK
<1>11. AcceptedIsPast' /\ OneAnswer'
  BY <1>2, <1>3, <1>9, <1>10 DEF BudgetInv, AcceptedIsPast, OneAnswer
<1> QED BY <1>5, <1>8, <1>11 DEF BudgetInv

LEMMA ReadControlStep ==
    ASSUME BudgetInv, TypeOK', NEW u \in Polls, ReadControl(u)
    PROVE  BudgetInv'
<1> USE BudgetAssumption DEF Callers, Requests
<1>1. /\ row' = row /\ calls' = calls /\ tools' = tools /\ mine' = mine /\ seen' = seen
      /\ \A v \in Polls : v # u => stale'[v] = stale[v]
      /\ pc'[u] = "read" => stale'[u] = control /\ control # "running"
      /\ pc'[u] \in {"idle", "read"}
  BY DEF ReadControl, NoStore, tables, ledger, Move, BudgetInv, TypeOK
<1>2. \A y \in Callers \cup Requests : y # u => pc'[y] = pc[y]
  BY DEF ReadControl, Move, BudgetInv, TypeOK
<1>3. ReadIsOver'
  BY <1>1, <1>2 DEF BudgetInv, ReadIsOver, TypeOK
<1>4. /\ EmptyAtFirst' /\ WithinLimit' /\ CountedOnce' /\ EndedIsSettled' /\ CostIsKnown'
  BY <1>1 DEF BudgetInv, EmptyAtFirst, WithinLimit, CountedOnce, EndedIsSettled, CostIsKnown,
     Unpriced, Rows
<1>5. SentIsReserved' /\ AcceptedIsPast' /\ OneAnswer'
  BY <1>1, <1>2 DEF BudgetInv, SentIsReserved, AcceptedIsPast, OneAnswer, Rows
<1> QED BY <1>3, <1>4, <1>5 DEF BudgetInv

LEMMA SendStep ==
    ASSUME BudgetInv, TypeOK', NEW x \in Callers, Send(x)
    PROVE  BudgetInv'
<1> USE BudgetAssumption DEF Callers, Requests
<1>1. \A y \in Callers \cup Requests : pc'[y] = IF y = x THEN "sending" ELSE pc[y]
  BY DEF Send, Move, BudgetInv, TypeOK
<1>2. LocalsKept
  BY <1>1 DEF LocalsKept, Send, ledger
<1> QED BY <1>2, QuietStep DEF Send, NoStore, tables

\* The steps of an agent or a title.
LEMMA CallerPreserves ==
    ASSUME BudgetInv, TypeOK', NEW x \in Callers, CallerStep(x)
    PROVE  BudgetInv'
<1> USE BudgetAssumption
<1>1. TypeOK
  BY DEF BudgetInv
<1>2. CASE AskModel(x)
  <2>1. LocalsKept
    BY <1>1, <1>2, MoveKeeps DEF AskModel
  <2> QED BY <1>2, <2>1, QuietStep DEF AskModel, NoStore, tables
<1>3. CASE PassModel(x)
  BY <1>3, PassModelStep
<1>4. CASE Pause(x)
  BY <1>4, PauseStep
<1>5. CASE Refuse(x)
  <2>1. LocalsKept
    BY <1>1, <1>5, MoveKeeps DEF Refuse
  <2> QED BY <1>5, <2>1, QuietStep DEF Refuse, NoStore, tables
<1>6. CASE Send(x)
  BY <1>6, SendStep
<1>7. CASE NotSent(x)
  BY <1>7, SettleStep DEF NotSent
<1>8. CASE Answered(x)
  BY <1>8, SettleStep DEF Answered
<1>9. CASE Retry(x)
  BY <1>9, SettleStep DEF Retry
<1>10. CASE Broken(x)
  BY <1>10, SettleStep DEF Broken
<1> QED BY <1>2, <1>3, <1>4, <1>5, <1>6, <1>7, <1>8, <1>9, <1>10 DEF CallerStep

\* Those of an agent alone.
LEMMA AgentPreserves ==
    ASSUME BudgetInv, TypeOK', NEW a \in Agents, AgentStep(a)
    PROVE  BudgetInv'
<1>1. TypeOK /\ a \in Callers
  BY DEF BudgetInv, Callers
<1>2. CASE AskTools(a)
  <2>1. LocalsKept
    BY <1>1, <1>2, MoveKeeps DEF AskTools
  <2> QED BY <1>2, <2>1, QuietStep DEF AskTools, NoStore, tables
<1>3. CASE PassTools(a)
  BY <1>3, PassToolsStep
<1>4. CASE ToolsDone(a)
  <2>1. LocalsKept
    BY <1>1, <1>4, MoveKeeps DEF ToolsDone
  <2> QED BY <1>4, <2>1, QuietStep DEF ToolsDone, NoStore, tables
<1>5. CASE Cancelled(a)
  <2>1. LocalsKept
    BY <1>1, <1>5, MoveKeeps DEF Cancelled
  <2> QED BY <1>5, <2>1, QuietStep DEF Cancelled, NoStore, tables
<1> QED BY <1>2, <1>3, <1>4, <1>5 DEF AgentStep

\* What goes with a generation is not what the others keep.
LEMMA GoneKeeps ==
    ASSUME TypeOK, Gone
    PROVE  LocalsKept
<1> USE BudgetAssumption DEF Callers, Requests
<1>1. /\ \A x \in Callers \cup Requests : pc'[x] = IF x \in Agents THEN "idle" ELSE pc[x]
      /\ \A x \in Callers : mine'[x] = IF x \in Agents THEN 0 ELSE mine[x]
      /\ seen' = seen /\ stale' = stale
  BY DEF Gone, TypeOK
<1> QED BY <1>1 DEF LocalsKept

\* The steps of the generation.
LEMMA WorkerPreserves ==
    ASSUME BudgetInv, TypeOK', WorkerStep
    PROVE  BudgetInv'
<1>1. TypeOK
  BY DEF BudgetInv
<1>2. CASE OpenTask
  BY <1>2, OpenStep
<1>3. ASSUME local' = local, NoStore PROVE BudgetInv'
  <2>1. LocalsKept
    BY <1>3 DEF LocalsKept, local
  <2> QED BY <1>3, <2>1, QuietStep DEF NoStore, tables
<1>4. CASE FailOpening
  BY <1>3, <1>4 DEF FailOpening, local
<1>5. CASE FinishTask
  <2> DEFINE end == IF final.saw = "suspended" THEN "suspended"
                    ELSE IF stopping # "no" /\ final.did # "completed" THEN "cancelled"
                    ELSE final.did
  <2>1. end \in LedgerStates \ {"running"} /\ Finish(end)
    BY <1>1, <1>5 DEF FinishTask, TypeOK, LedgerStates, Terminal
  <2>2. LocalsKept
    BY <1>5 DEF FinishTask, local, LocalsKept
  <2> HIDE DEF end
  <2> QED BY <2>1, <2>2, FinishStep
<1>6. ASSUME Gone, NoStore PROVE BudgetInv'
  BY <1>1, <1>6, GoneKeeps, QuietStep DEF NoStore, tables
<1>7. CASE CloseTask
  BY <1>6, <1>7 DEF CloseTask
<1>8. CASE CrashWorker
  BY <1>6, <1>8 DEF CrashWorker
<1>9. CASE StopWorker
  BY <1>3, <1>9 DEF StopWorker, local
<1>10. CASE Suspend
  BY <1>3, <1>10 DEF Suspend, local
<1>11. CASE \E did \in {"completed", "failed"} : Leave(did)
  BY <1>3, <1>11 DEF Leave, local
<1> QED BY <1>2, <1>4, <1>5, <1>7, <1>8, <1>9, <1>10, <1>11 DEF WorkerStep

\* Those of the backend.
LEMMA BackendPreserves ==
    ASSUME BudgetInv, TypeOK', BackendStep
    PROVE  BudgetInv'
<1> USE BudgetAssumption
<1>1. TypeOK
  BY DEF BudgetInv
<1>2. ASSUME local' = local, row' = row, calls' = calls, tools' = tools PROVE BudgetInv'
  <2>1. LocalsKept
    BY <1>2 DEF LocalsKept, local
  <2> QED BY <1>2, <2>1, QuietStep
<1>3. CASE Resume
  BY <1>2, <1>3 DEF Resume, local, NoStore, tables
<1>4. CASE GiveUp
  BY <1>2, <1>4 DEF GiveUp, local, NoStore, tables
<1>5. CASE Claim
  BY <1>2, <1>5 DEF Claim, local, NoStore, tables
<1>6. CASE Unclaim
  BY <1>2, <1>6 DEF Unclaim, local, NoStore, tables
<1>7. CASE RetireTask
  BY <1>2, <1>7 DEF RetireTask, local, NoStore, tables
<1>8. CASE RetireBudget
  <2>1. Finish("cancelled") /\ "cancelled" \in LedgerStates \ {"running"}
    BY <1>8 DEF RetireBudget, LedgerStates, Terminal
  <2>2. LocalsKept
    BY <1>8 DEF RetireBudget, local, LocalsKept
  <2> QED BY <2>1, <2>2, FinishStep
<1>9. CASE RestartBackend
  <2>1. /\ \A x \in Callers \cup Requests :
             pc'[x] = IF x \in Agents \/ pc[x] = "idle" THEN pc[x]
                      ELSE IF x \in Polls THEN "idle" ELSE "ended"
        /\ \A x \in Callers : mine'[x] = IF x \in Agents THEN mine[x] ELSE 0
        /\ seen' = seen /\ stale' = stale
    BY <1>1, <1>9 DEF RestartBackend, TypeOK
  <2>2. LocalsKept
    BY <2>1 DEF LocalsKept, Callers, Requests
  <2> QED BY <1>9, <2>2, QuietStep DEF RestartBackend, NoStore, tables
<1>10. CASE SavePricing
  BY <1>2, <1>10 DEF SavePricing, local, tables
<1> QED BY <1>3, <1>4, <1>5, <1>6, <1>7, <1>8, <1>9, <1>10 DEF BackendStep

\* Those of the routes.
LEMMA RoutePreserves ==
    ASSUME BudgetInv, TypeOK', RouteStep
    PROVE  BudgetInv'
<1> USE BudgetAssumption
<1>1. TypeOK
  BY DEF BudgetInv
<1>2. ASSUME LocalsKept, NoStore PROVE BudgetInv'
  BY <1>2, QuietStep DEF NoStore, tables
<1>3. ASSUME NEW r \in Posts, Show(r) \/ Post(r) \/ Check(r) \/ Continue(r) \/ RefusePost(r)
      PROVE  BudgetInv'
  <2>1. r \in Callers \cup Requests
    BY DEF Requests
  <2>2. CASE Show(r)
    <3>1. \A q \in Posts \ {r} : seen'[q] = seen[q]
      BY <1>1, <2>2 DEF Show, TypeOK
    <3>2. LocalsKept
      BY <1>1, <2>1, <2>2, <3>1, MoveKeeps DEF Show
    <3> QED BY <1>2, <2>2, <3>2 DEF Show
  <2>3. CASE Post(r)
    BY <1>1, <1>2, <2>1, <2>3, MoveKeeps DEF Post, Sweep
  <2>4. CASE Check(r)
    <3> DEFINE to == IF control = "running" THEN "checked" ELSE "ended"
    <3>1. Move(r, to) /\ to \notin {"granted", "sending", "accepted", "read"}
      BY <2>4 DEF Check
    <3> HIDE DEF to
    <3>2. LocalsKept
      BY <1>1, <2>1, <2>4, <3>1, MoveKeeps DEF Check
    <3> QED BY <1>2, <2>4, <3>2 DEF Check
  <2>5. CASE Continue(r)
    BY <2>5, ContinueStep
  <2>6. CASE RefusePost(r)
    BY <1>1, <1>2, <2>1, <2>6, MoveKeeps DEF RefusePost
  <2> QED BY <1>3, <2>2, <2>3, <2>4, <2>5, <2>6
<1>4. ASSUME NEW u \in Polls, Poll(u) \/ List(u) \/ ReadControl(u) \/ FinishStale(u)
      PROVE  BudgetInv'
  <2>1. u \in Callers \cup Requests
    BY DEF Requests
  <2>2. CASE Poll(u)
    BY <1>1, <1>2, <2>1, <2>2, MoveKeeps DEF Poll, Sweep
  <2>3. CASE List(u)
    <3> DEFINE to == IF row.state \in Open THEN "listed" ELSE "idle"
    <3>1. Move(u, to) /\ to \notin {"granted", "sending", "accepted", "read"}
      BY <2>3 DEF List
    <3> HIDE DEF to
    <3>2. LocalsKept
      BY <1>1, <2>1, <2>3, <3>1, MoveKeeps DEF List
    <3> QED BY <1>2, <2>3, <3>2 DEF List
  <2>4. CASE ReadControl(u)
    BY <2>4, ReadControlStep
  <2>5. CASE FinishStale(u)
    <3>1. stale[u] \in LedgerStates \ {"running"} /\ Finish(stale[u])
      BY <2>5 DEF FinishStale, BudgetInv, ReadIsOver
    <3>2. \A v \in Polls \ {u} : stale'[v] = stale[v]
      BY <1>1, <2>5 DEF FinishStale, TypeOK
    <3>3. LocalsKept
      BY <1>1, <2>1, <2>5, <3>2, MoveKeeps DEF FinishStale
    <3> QED BY <3>1, <3>3, FinishStep
  <2> QED BY <1>4, <2>2, <2>3, <2>4, <2>5
<1>5. ASSUME NEW s \in Stops, StopTask(s) \/ Terminate(s) \/ StopSaved(s) \/ StopRow(s)
      PROVE  BudgetInv'
  <2>1. s \in Callers \cup Requests
    BY DEF Requests
  <2>2. CASE StopTask(s)
    BY <1>1, <1>2, <2>1, <2>2, MoveKeeps DEF StopTask
  <2>3. CASE Terminate(s)
    BY <1>1, <1>2, <2>3, GoneKeeps DEF Terminate
  <2>4. CASE StopSaved(s)
    BY <1>1, <1>2, <2>1, <2>4, MoveKeeps DEF StopSaved
  <2>5. CASE StopRow(s)
    <3>1. Finish("cancelled") /\ "cancelled" \in LedgerStates \ {"running"}
      BY <2>5 DEF StopRow, LedgerStates, Terminal
    <3>2. LocalsKept
      BY <1>1, <2>1, <2>5, MoveKeeps DEF StopRow, ledger
    <3> QED BY <3>1, <3>2, FinishStep
  <2> QED BY <1>5, <2>2, <2>3, <2>4, <2>5
<1> QED BY <1>3, <1>4, <1>5 DEF RouteStep

\* Every step preserves BudgetInv.
LEMMA BudgetStep ==
    ASSUME BudgetInv, [Next]_vars
    PROVE  BudgetInv'
<1>1. CASE Next
  <2>1. TypeOK'
    BY <1>1, TypeStep DEF BudgetInv
  <2>2. CASE \E x \in Callers : CallerStep(x)
    BY <2>1, <2>2, CallerPreserves
  <2>3. CASE \E a \in Agents : AgentStep(a)
    BY <2>1, <2>3, AgentPreserves
  <2>4. CASE WorkerStep
    BY <2>1, <2>4, WorkerPreserves
  <2>5. CASE BackendStep
    BY <2>1, <2>5, BackendPreserves
  <2>6. CASE RouteStep
    BY <2>1, <2>6, RoutePreserves
  <2>7. CASE Tick
    <3>1. LocalsKept
      BY <2>7 DEF Tick, local, LocalsKept
    <3> QED BY <2>1, <2>7, <3>1, QuietStep DEF Tick, tables
  <2> QED BY <1>1, <2>2, <2>3, <2>4, <2>5, <2>6, <2>7 DEF Next
<1>2. CASE UNCHANGED vars
  <2>1. TypeOK'
    BY <1>2 DEF BudgetInv, TypeOK, vars, ledger, tables, local
  <2>2. LocalsKept
    BY <1>2 DEF vars, local, LocalsKept
  <2> QED BY <1>2, <2>1, <2>2, QuietStep DEF vars, tables
<1> QED BY <1>1, <1>2

\* It holds at the start.
LEMMA BudgetInit == Init => BudgetInv
<1> SUFFICES ASSUME Init PROVE BudgetInv
  OBVIOUS
<1> USE BudgetAssumption DEF Callers, Requests
<1>1. NoRow \in TaskRow /\ NoFinal \in [did : {"failed", "completed"}, saw : LedgerStates]
  BY DEF NoRow, TaskRow, NoFinal, LedgerStates, Kinds
<1>2. calls \in Seq(CallRow) /\ Len(calls) = 0
  BY EmptySeq DEF Init
<1>3. TypeOK
  BY <1>1, <1>2 DEF Init, TypeOK, LedgerStates
<1>4. row = NoRow /\ calls = <<>> /\ tools = {} /\ \A x \in Callers \cup Requests : pc[x] = "idle"
  BY DEF Init
<1>5. EmptyAtFirst /\ WithinLimit /\ EndedIsSettled
  BY <1>4 DEF EmptyAtFirst, WithinLimit, EndedIsSettled, NoRow, Kinds
<1>6. CountedOnce
  BY <1>2, <1>4, FS_EmptySet DEF CountedOnce, NoRow
<1>7. CostIsKnown
  BY <1>4 DEF CostIsKnown, NoRow, Kinds
<1>8. SentIsReserved /\ OneAnswer /\ AcceptedIsPast /\ ReadIsOver
  BY <1>4 DEF SentIsReserved, OneAnswer, AcceptedIsPast, ReadIsOver
<1> QED BY <1>3, <1>5, <1>6, <1>7, <1>8 DEF BudgetInv

-----------------------------------------------------------------------------
\* BudgetInv holds in every state: the budget of memory/task_cost_store.py for
\* any number of agents, titles and pages, and with any limits.
THEOREM BudgetAlways == Spec => []BudgetInv
<1>1. Init => BudgetInv
  BY BudgetInit
<1>2. BudgetInv /\ [Next]_vars => BudgetInv'
  BY BudgetStep
<1> QED BY <1>1, <1>2, PTL DEF Spec

\* The number of model calls never passes its limit (reserve).
THEOREM LimitHolds == Spec => []WithinLimit
<1>1. BudgetInv => WithinLimit
  BY DEF BudgetInv
<1> QED BY <1>1, BudgetAlways, PTL

\* A tool call that is brought again is not counted again (reserve).
THEOREM CountsOnce == Spec => []CountedOnce
<1>1. BudgetInv => CountedOnce
  BY DEF BudgetInv
<1> QED BY <1>1, BudgetAlways, PTL

\* A limit on the cost never stands over a call of unknown cost (reserve,
\* continue_task).
THEOREM CostKnown == Spec => []CostIsKnown
<1>1. BudgetInv => CostIsKnown
  BY DEF BudgetInv
<1> QED BY <1>1, BudgetAlways, PTL

\* No request is on its way without a row of its own (gate, settle, finish).
THEOREM SentReserved == Spec => []SentIsReserved
<1>1. BudgetInv => SentIsReserved
  BY DEF BudgetInv
<1> QED BY <1>1, BudgetAlways, PTL

\* A task that is over or suspended has no pending call (finish).
THEOREM EndSettles == Spec => []EndedIsSettled
<1>1. BudgetInv => EndedIsSettled
  BY DEF BudgetInv
<1> QED BY <1>1, BudgetAlways, PTL

\* A pause is answered at most once, by any number of pages (continue_task).
THEOREM AnsweredOnce == Spec => []OneAnswer
<1>1. BudgetInv => OneAnswer
  BY DEF BudgetInv
<1> QED BY <1>1, BudgetAlways, PTL
=============================================================================
