---------------------------- MODULE MCModelSlots ----------------------------
(***************************************************************************)
(* ModelSlots on small instances, and what the documents of the repository *)
(* say of it that the code does not keep.                                  *)
(***************************************************************************)
EXTENDS ModelSlotsInv

CONSTANTS a1, a2, b1, b2, u, v, p, q

\* Accounts u and v make two calls each, from two processes.
Account == [c \in {a1, a2, b1, b2} |-> IF c \in {a1, a2} THEN u ELSE v]
Worker == [c \in {a1, a2, b1, b2} |-> IF c \in {a1, b1} THEN p ELSE q]

AccountOfV == [c \in {a1, b1, b2} |-> Account[c]]
WorkerOfV == [c \in {a1, b1, b2} |-> Worker[c]]

OneADayOfV == [x \in {u, v} |-> IF x = v THEN 1 ELSE 0]

\* docs/security_implementation.md:32: a reservation whose request was not
\* sent is released.  So a call that was stopped while it started, and has no
\* thread left, holds no reservation of the day.
UnsentIsReleased ==
    \A c \in Calls :
        pc[c] = "stopped" /\ (\A op \in Ops : <<op, c>> \notin thr)
            => quota[c] # "reserved"
=============================================================================
