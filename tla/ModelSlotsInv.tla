---------------------------- MODULE ModelSlotsInv ----------------------------
(***************************************************************************)
(* The inductive invariant of ModelSlots.                                  *)
(*                                                                         *)
(* A call that may be sending owns a running row that nobody can delete:   *)
(* its process lives, and none of its transactions is left in a thread.    *)
(* So the rows the admission counts are at least the requests in use.      *)
(***************************************************************************)
EXTENDS ModelSlots

\* The transactions a coroutine may have on their way in threads.  Only one
\* that has been stopped can leave any of them behind.
ThreadsAt(place) ==
    CASE place = "reserving" -> {"reserve"}
      [] place \in {"polling", "draining"} -> {"attempt"}
      [] place = "releasing" -> {"release"}
      [] place = "cancelling" -> {"attempt", "release", "cancel", "free"}
      [] place = "stopped" -> Ops
      [] OTHER -> {}

ThreadsKnown ==
    \A op \in Ops, c \in Calls : <<op, c>> \in thr => op \in ThreadsAt(pc[c])

\* The coroutines of a dead process are gone, and those of a living one not.
DeadAreDead == \A c \in Calls : pc[c] = "dead" <=> ProcOf[c] \notin alive

HolderHasRow == \A c \in Calls : pc[c] \in {"granted", "settled"} => c \in running

RunningFits == Cardinality(running) <= Capacity

AccountFits ==
    \A x \in Users :
        UserLimit[x] # 0 => Cardinality(running \cap CallsOf(x)) <= UserLimit[x]

\* A call on its way to the network holds its reservation of the day.
ReservedFirst ==
    \A c \in Calls : pc[c] \in {"gate", "loop", "polling", "granted"}
                         => quota[c] = "reserved"

\* A request on the network belongs to a call that got its slot.
SentHadSlot ==
    \A c \in sent : /\ pc[c] \in {"granted", "settled", "done", "dead"}
                    /\ quota[c] \in {"reserved", "settled"}

DayFits ==
    \A x \in Users : Daily[x] # 0 => Cardinality(Used(x)) <= Daily[x]

\* The parts above are together preserved by every step, whatever the numbers
\* of processes, calls and cancellations (resource_limits.py, quotas.py).
SlotInv ==
    /\ TypeOK /\ ThreadsKnown /\ DeadAreDead /\ HolderHasRow
    /\ RunningFits /\ AccountFits
    /\ ReservedFirst /\ SentHadSlot /\ DayFits

-----------------------------------------------------------------------------
(* Why one cancellation of a starting call leaves no lease behind.         *)

Row(c) == c \in waiting \cup running

\* A transaction that is about to delete the row.
Freeing(c) == <<"cancel", c>> \in thr \/ <<"free", c>> \in thr

\* acquire awaits its attempt before it releases; a call has no row before
\* its first attempt; and the clean-up that may lose its release to a
\* cancellation is then not cancelled again.
LeaseAt(c) ==
    /\ <<"attempt", c>> \in thr => pc[c] \in {"polling", "draining"}
    /\ pc[c] = "draining" => cancels[c] # 0
    /\ Row(c) => pc[c] \notin {"idle", "reserving", "gate", "done"}
    /\ pc[c] = "cancelling" /\ Row(c) => cancels[c] # 0 /\ Freeing(c)
    /\ pc[c] = "stopped" /\ Row(c) => Freeing(c)

LeaseInv == \A c \in Calls : LeaseAt(c)
=============================================================================
