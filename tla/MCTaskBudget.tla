---------------------------- MODULE MCTaskBudget ----------------------------
(***************************************************************************)
(* TaskBudget on a small instance.                                         *)
(***************************************************************************)
EXTENDS TaskBudget, TLC

CONSTANTS main, title

None == [k \in Kinds |-> 0]
On(k, n) == [None EXCEPT ![k] = n]

\* Nothing tells one request to continue from another.
Pages == Permutations(Posts)

OneKey == [a \in {main} |-> {"m1"}]

\* A task starts with one limit; a page raises it or takes it away.
OneOf == {On("model_calls", 1), On("tool_calls", 1)}
AnyOf == OneOf \cup {On("tokens", 1), On("cost", 1), On("seconds", 1)}
Higher == {On("model_calls", 2), On("cost", 2), None}

\* docs/task_budgets.md:35: a task with a snapshot is resumed first and its budget
\* dealt with after that.  So a generation nobody stops finds its row open.
ResumedMaySpend ==
    worker = "working" /\ stopping = "no" /\ control = "running" => row.state \in Open
=============================================================================
