------------------------------ MODULE ToolOnce ------------------------------
(***************************************************************************)
(* What the ledger promises for each tool call, whatever happens to the    *)
(* processes: an intent is written before the call takes effect, the       *)
(* effect takes place at most once and only between the intent and the     *)
(* recorded result, a result is recorded only after the effect, and a      *)
(* refused call has no effect at all.  A call may stay in its intent for   *)
(* ever: its effect is unknown, and nobody runs it again.                  *)
(*                                                                         *)
(* Abstracts claim_execution, completed and the replay of recorded results *)
(* (memory/permission_store.py, factory/agent_runtime/permission_runtime). *)
(***************************************************************************)
EXTENDS Naturals

CONSTANT Items      \* the tool calls of every task

VARIABLES outcome, runs

Outcomes == {"open", "intent", "done", "refused"}

OnceInit ==
    /\ outcome = [i \in Items |-> "open"]
    /\ runs = [i \in Items |-> 0]

Intend(i) ==
    /\ outcome[i] = "open"
    /\ outcome' = [outcome EXCEPT ![i] = "intent"]
    /\ UNCHANGED runs

Refuse(i) ==
    /\ outcome[i] = "open"
    /\ outcome' = [outcome EXCEPT ![i] = "refused"]
    /\ UNCHANGED runs

Run(i) ==
    /\ outcome[i] = "intent" /\ runs[i] = 0
    /\ runs' = [runs EXCEPT ![i] = 1]
    /\ UNCHANGED outcome

Record(i) ==
    /\ outcome[i] = "intent" /\ runs[i] = 1
    /\ outcome' = [outcome EXCEPT ![i] = "done"]
    /\ UNCHANGED runs

OnceNext == \E i \in Items : Intend(i) \/ Refuse(i) \/ Run(i) \/ Record(i)

OnceSpec == OnceInit /\ [][OnceNext]_<<outcome, runs>>
=============================================================================
