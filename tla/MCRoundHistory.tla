--------------------------- MODULE MCRoundHistory ---------------------------
(***************************************************************************)
(* RoundHistory on a small instance, and what the documents of the         *)
(* repository say of it that the code does not keep.                       *)
(***************************************************************************)
EXTENDS RoundHistory, TLC

\* Nothing tells one worker process from another.
Workers == Permutations(Pids)

\* Bound: behind a known weakness only states are looked at in which nothing has
\* failed, and rounds are inserted between two others only where neither is the case.
InsertsAreSure ==
    /\ Sure \/ ~failed
    /\ (Sure /\ ~failed) \/ \A r \in Rounds : ask[r].place.how # "insert"

\* Somebody has the round: the history, the checkpoint file, the ledger or a
\* living worker.
Kept(r) ==
    \/ r \in Done \union Unfinished
    \/ pend.id = r
    \/ \E p \in Pids : Held(p, r)

\* chat_memory.py:1331: a round that was not finished is recovered after a
\* restart, and its tool calls, thoughts and results are not lost.  So a round
\* whose checkpoint has been written is somewhere (add_chat_history removes the
\* checkpoint before it writes the history).
EveryRoundIsKept == \A r \in saved : Kept(r)
=============================================================================
