----------------------------- MODULE ModelSlots -----------------------------
(***************************************************************************)
(* Admission of model calls: the day's quota of the account and the lease  *)
(* on one of the instance's model slots, which worker processes and the    *)
(* backend take through one database.                                      *)
(*                                                                         *)
(* A call reserves its quota, passes the budget gate of its task, polls    *)
(* for a slot, sends its request, and settles.  Each transaction runs in a *)
(* thread while the coroutine waits for it; a cancellation ends the wait,  *)
(* not the thread.  A process may die at any point.                        *)
(***************************************************************************)
EXTENDS Naturals, FiniteSets

CONSTANTS
    Calls,       \* model calls (a retry on the network is a call of its own)
    Users,       \* accounts
    Procs,       \* worker processes, and the backend for titles
    UserOf,      \* the account of a call
    ProcOf,      \* the process that makes it
    Capacity,    \* YTOOLS_MODEL_CONCURRENCY
    UserLimit,   \* concurrent_models of an account; 0 is no limit
    Daily,       \* daily_calls of an account; 0 is no limit
    MaxCancels,  \* bound: cancellations of one call while it starts
    Crashing,    \* bound: the processes that may die in a run
    Disabling,   \* bound: the accounts that may be disabled in a run
    Renewable    \* bound: calls whose coroutine makes another one afterwards

ASSUME SlotAssumption ==
    /\ IsFiniteSet(Calls)
    /\ UserOf \in [Calls -> Users]
    /\ ProcOf \in [Calls -> Procs]
    /\ Capacity \in Nat \ {0}
    /\ UserLimit \in [Users -> Nat]
    /\ Daily \in [Users -> Nat]
    /\ MaxCancels \in Nat
    /\ Crashing \subseteq Procs /\ Disabling \subseteq Users
    /\ Renewable \subseteq {c \in Calls : Daily[UserOf[c]] = 0}

VARIABLES
    alive,      \* processes that run
    enabled,    \* accounts that may make calls
    pc,         \* where the coroutine of a call is
    thr,        \* transactions on their way in threads: operation and call
    cancels,    \* cancellations a call has met while it started
    sent,       \* calls whose request is on the network (network_started)
    quota,      \* rows of account_usage
    waiting,    \* rows of model_slots in state waiting
    running,    \* rows of model_slots in state running
    ahead,      \* <<c, d>>: c's row was created before d's
    sooner      \* <<u, v>>: u was last admitted before v (model_fairness)

vars == <<alive, enabled, pc, thr, cancels, sent, quota, waiting, running,
          ahead, sooner>>

PcOf == {"idle", "reserving", "gate", "loop", "polling", "draining",
         "releasing", "cancelling", "granted", "settled", "done", "stopped",
         "dead"}

Ops == {"reserve", "attempt", "release", "cancel", "free"}

TypeOK ==
    /\ alive \subseteq Procs
    /\ enabled \subseteq Users
    /\ pc \in [Calls -> PcOf]
    /\ thr \subseteq Ops \X Calls
    /\ cancels \in [Calls -> 0..MaxCancels]
    /\ sent \subseteq Calls
    /\ quota \in [Calls -> {"none", "reserved", "settled", "cancelled"}]
    /\ waiting \subseteq Calls
    /\ running \subseteq Calls
    /\ ahead \subseteq Calls \X Calls
    /\ sooner \subseteq Users \X Users

Init ==
    /\ alive = Procs
    /\ enabled = Users
    /\ pc = [c \in Calls |-> "idle"]
    /\ thr = {}
    /\ cancels = [c \in Calls |-> 0]
    /\ sent = {}
    /\ quota = [c \in Calls |-> "none"]
    /\ waiting = {} /\ running = {}
    /\ ahead = {} /\ sooner = {}

-----------------------------------------------------------------------------
(* The database.                                                           *)

CallsOf(u) == {c \in Calls : UserOf[c] = u}

\* The account's rows of the day that count: a row given back does not.
Used(u) == {c \in CallsOf(u) : quota[c] \notin {"none", "cancelled"}}

\* Mutant: the limit itself counts as room.
MayReserveOneMore(c) ==
    /\ UserOf[c] \in enabled
    /\ Daily[UserOf[c]] = 0 \/ Cardinality(Used(UserOf[c])) <= Daily[UserOf[c]]

MayReserve(c) ==
    /\ UserOf[c] \in enabled
    /\ Daily[UserOf[c]] = 0 \/ Cardinality(Used(UserOf[c])) < Daily[UserOf[c]]

\* settle: only a reserved row changes; a request that was sent stays counted.
SettledAs(c, state) ==
    [quota EXCEPT ![c] = IF @ = "reserved" THEN state ELSE @]

Without(c) == waiting' = waiting \ {c} /\ running' = running \ {c}
              /\ ahead' = {p \in ahead : c \notin {p[1], p[2]}}

\* Mutant: the rows of dead processes stay.
ReapedNone(rows) == rows

\* An attempt deletes the rows of dead processes first, then adds its own.
Reaped(rows) == {c \in rows : ProcOf[c] \in alive}

Queued(c) == Reaped(waiting) \cup ({c} \ Reaped(running))

Order(c) == {p \in ahead : p[1] \in Reaped(waiting) /\ p[2] \in Reaped(waiting)}
            \cup (Reaped(waiting) \ {c}) \X ({c} \ Reaped(waiting \cup running))

\* The accounts are asked in the order of their last admission, an account
\* that never had one first, then in that of their first row.
FirstOf(u, rows, order) ==
    CHOOSE c \in rows \cap CallsOf(u) :
        \A d \in rows \cap CallsOf(u) : <<d, c>> \notin order

Precedes(u, v, rows, order) ==
    \/ <<u, v>> \in sooner
    \/ /\ <<v, u>> \notin sooner
       /\ <<FirstOf(u, rows, order), FirstOf(v, rows, order)>> \in order

BelowLimit(u, rows) ==
    UserLimit[u] = 0 \/ Cardinality(rows \cap CallsOf(u)) < UserLimit[u]

HasRow(u, rows) == rows \cap CallsOf(u) # {}

Eligible(u, rows, held) ==
    u \in enabled /\ HasRow(u, rows) /\ BelowLimit(u, held)

\* The attempt of c admits it if an account is to be served, that account is
\* c's, and c is the first of its rows.
Turn(u, rows, held, order) ==
    /\ Eligible(u, rows, held)
    /\ \A v \in Users \ {u} :
          Eligible(v, rows, held) => Precedes(u, v, rows, order)

\* Mutant: off by one.
HasRoomOneMore(held) == Cardinality(held) <= Capacity

HasRoom(held) == Cardinality(held) < Capacity

Admits(c, rows, held, order) ==
    /\ HasRoom(held)
    /\ Turn(UserOf[c], rows, held, order)
    /\ FirstOf(UserOf[c], rows, order) = c

\* The rows of disabled accounts it meets before that one are deleted.
Dropped(rows, held, order) ==
    {d \in rows :
        /\ HasRoom(held)
        /\ UserOf[d] \notin enabled
        /\ \A u \in Users :
              Turn(u, rows, held, order) => Precedes(UserOf[d], u, rows, order)}

-----------------------------------------------------------------------------
(* Starting a call (ModelMeter.start, acquire).                            *)

Goto(c, place) == pc' = [pc EXCEPT ![c] = place]
Spawn(op, c) == thr' = thr \cup {<<op, c>>}
Ends(op, c) == thr' = thr \ {<<op, c>>}
Rows == <<waiting, running, ahead, sooner>>

Start(c) ==
    /\ pc[c] = "idle" /\ ProcOf[c] \in alive
    /\ Goto(c, "reserving") /\ Spawn("reserve", c)
    /\ UNCHANGED <<alive, enabled, cancels, sent, quota, Rows>>

\* quotas.reserve, in its thread.  A refusal is raised outside of the try.
ReserveThread(c) ==
    /\ <<"reserve", c>> \in thr
    /\ Ends("reserve", c)
    /\ quota' = IF MayReserve(c) THEN [quota EXCEPT ![c] = "reserved"] ELSE quota
    /\ IF pc[c] = "reserving"
          THEN Goto(c, IF MayReserve(c) THEN "gate" ELSE "stopped")
          ELSE UNCHANGED pc
    /\ UNCHANGED <<alive, enabled, cancels, sent, Rows>>

\* The task's budget lets the call pass.
PassGate(c) ==
    /\ pc[c] = "gate"
    /\ Goto(c, "loop")
    /\ UNCHANGED <<alive, enabled, thr, cancels, sent, quota, Rows>>

Poll(c) ==
    /\ pc[c] = "loop"
    /\ Goto(c, "polling") /\ Spawn("attempt", c)
    /\ UNCHANGED <<alive, enabled, cancels, sent, quota, Rows>>

\* The gate or the slot wait finds that the task was stopped, and raises.
Stop(c) ==
    /\ \/ pc[c] = "gate" /\ Goto(c, "cancelling") /\ Spawn("cancel", c)
       \/ pc[c] = "loop" /\ Goto(c, "releasing") /\ Spawn("release", c)
    /\ UNCHANGED <<alive, enabled, cancels, sent, quota, Rows>>

\* attempt, in its thread: one transaction, whatever became of the coroutine.
Refused(c) == UserOf[c] \notin enabled
Wins(c) == c \notin Reaped(running)
           /\ Admits(c, Queued(c), Reaped(running), Order(c))
Holds(c) == c \in Reaped(running) \/ Wins(c)
Discarded(c) ==
    IF c \in Reaped(running) THEN {}
    ELSE Dropped(Queued(c), Reaped(running), Order(c))
Admitted(c) == IF Wins(c) THEN {c} ELSE {}

AttemptRows(c) ==
    /\ waiting' = Queued(c) \ (Discarded(c) \cup Admitted(c))
    /\ running' = Reaped(running) \cup Admitted(c)
    /\ ahead' = {p \in Order(c) : p[1] \in waiting' /\ p[2] \in waiting'}
    /\ sooner' = IF Wins(c)
                 THEN {p \in sooner : p[1] # UserOf[c]}
                      \cup (Users \ {UserOf[c]}) \X {UserOf[c]}
                 ELSE sooner

\* The coroutine goes on with the result, or with the release when the
\* attempt was refused or the wait cancelled; an abandoned one wakes nobody.
Wakes(c) ==
    IF pc[c] = "draining" \/ (pc[c] = "polling" /\ Refused(c))
    THEN Goto(c, "releasing")
         /\ thr' = (thr \ {<<"attempt", c>>}) \cup {<<"release", c>>}
    ELSE /\ Ends("attempt", c)
         /\ IF pc[c] = "polling"
               THEN Goto(c, IF Holds(c) THEN "granted" ELSE "loop")
               ELSE UNCHANGED pc

AttemptThread(c) ==
    /\ <<"attempt", c>> \in thr
    /\ IF Refused(c) THEN UNCHANGED Rows ELSE AttemptRows(c)
    /\ Wakes(c)
    /\ UNCHANGED <<alive, enabled, cancels, sent, quota>>

\* acquire's release, then cancel_start: the quota, then the row once more.
ReleaseThread(c) ==
    /\ <<"release", c>> \in thr
    /\ Without(c)
    /\ IF pc[c] = "releasing"
          THEN Goto(c, "cancelling")
               /\ thr' = (thr \ {<<"release", c>>}) \cup {<<"cancel", c>>}
          ELSE Ends("release", c) /\ UNCHANGED pc
    /\ UNCHANGED <<alive, enabled, cancels, sent, quota, sooner>>

CancelThread(c) ==
    /\ <<"cancel", c>> \in thr
    /\ quota' = SettledAs(c, "cancelled")
    /\ thr' = (thr \ {<<"cancel", c>>}) \cup {<<"free", c>>}
    /\ UNCHANGED <<alive, enabled, pc, cancels, sent, Rows>>

FreeThread(c) ==
    /\ <<"free", c>> \in thr
    /\ Without(c)
    /\ Ends("free", c)
    /\ IF pc[c] = "cancelling" THEN Goto(c, "stopped") ELSE UNCHANGED pc
    /\ UNCHANGED <<alive, enabled, cancels, sent, quota, sooner>>

\* A cancellation.  The operation awaited at that point may still be queued
\* in the executor, and is then never run; the shield of the first attempt
\* keeps it.
Awaited == [reserving |-> "reserve", draining |-> "attempt",
            releasing |-> "release", cancelling |-> "cancel"]

\* Mutant: the release does not wait for the attempt on its way.
CancelUndrained(c) ==
    /\ cancels[c] < MaxCancels
    /\ cancels' = [cancels EXCEPT ![c] = @ + 1]
    /\ \/ pc[c] = "polling" /\ Goto(c, "releasing") /\ Spawn("release", c)
       \/ /\ pc[c] \in {"reserving", "cancelling"}
          /\ Goto(c, "stopped")
          /\ thr' \in {thr, thr \ {<<Awaited[pc[c]], c>>}}
       \/ /\ pc[c] \in {"draining", "releasing"}
          /\ Goto(c, "cancelling")
          /\ \E kept \in {thr, thr \ {<<Awaited[pc[c]], c>>}} :
                thr' = kept \cup {<<"cancel", c>>}
    /\ UNCHANGED <<alive, enabled, sent, quota, Rows>>

Cancel(c) ==
    /\ cancels[c] < MaxCancels
    /\ cancels' = [cancels EXCEPT ![c] = @ + 1]
    /\ \/ pc[c] = "polling" /\ Goto(c, "draining") /\ UNCHANGED thr
       \/ /\ pc[c] \in {"reserving", "cancelling"}
          /\ Goto(c, "stopped")
          /\ thr' \in {thr, thr \ {<<Awaited[pc[c]], c>>}}
       \/ /\ pc[c] \in {"draining", "releasing"}
          /\ Goto(c, "cancelling")
          /\ \E kept \in {thr, thr \ {<<Awaited[pc[c]], c>>}} :
                thr' = kept \cup {<<"cancel", c>>}
    /\ UNCHANGED <<alive, enabled, sent, quota, Rows>>

-----------------------------------------------------------------------------
(* The request and its end (network_attempt, ModelMeter.settle).           *)

Send(c) ==
    /\ pc[c] = "granted" /\ c \notin sent
    /\ sent' = sent \cup {c}
    /\ UNCHANGED <<alive, enabled, pc, thr, cancels, quota, Rows>>

\* Mutant: an unknown end gives the reservation back.
SettleAsCancelled(c) ==
    /\ pc[c] = "granted"
    /\ quota' \in {SettledAs(c, "settled"), SettledAs(c, "cancelled")}
    /\ Goto(c, "settled")
    /\ UNCHANGED <<alive, enabled, thr, cancels, sent, Rows>>

Settle(c) ==
    /\ pc[c] = "granted"
    /\ quota' = SettledAs(c, IF c \in sent THEN "settled" ELSE "cancelled")
    /\ Goto(c, "settled")
    /\ UNCHANGED <<alive, enabled, thr, cancels, sent, Rows>>

Release(c) ==
    /\ pc[c] = "settled"
    /\ Without(c)
    /\ Goto(c, "done")
    /\ UNCHANGED <<alive, enabled, thr, cancels, sent, quota, sooner>>

\* A coroutine that was not stopped makes its next call (the next round, or
\* a retry on the network), under a new identifier.
Renew(c) ==
    /\ c \in Renewable /\ pc[c] = "done"
    /\ Goto(c, "idle")
    /\ quota' = [quota EXCEPT ![c] = "none"]
    /\ sent' = sent \ {c}
    /\ UNCHANGED <<alive, enabled, thr, cancels, Rows>>

-----------------------------------------------------------------------------

Crash(p) ==
    /\ p \in alive \cap Crashing
    /\ alive' = alive \ {p}
    /\ pc' = [c \in Calls |-> IF ProcOf[c] = p THEN "dead" ELSE pc[c]]
    /\ thr' = {t \in thr : ProcOf[t[2]] # p}
    /\ UNCHANGED <<enabled, cancels, sent, quota, Rows>>

Disable(u) ==
    /\ u \in enabled \cap Disabling
    /\ enabled' = enabled \ {u}
    /\ UNCHANGED <<alive, pc, thr, cancels, sent, quota, Rows>>

Next ==
    \/ \E c \in Calls :
          \/ Start(c) \/ ReserveThread(c) \/ PassGate(c) \/ Poll(c) \/ Stop(c)
          \/ AttemptThread(c) \/ ReleaseThread(c) \/ CancelThread(c)
          \/ FreeThread(c) \/ Cancel(c) \/ Send(c) \/ Settle(c) \/ Release(c)
          \/ Renew(c)
    \/ \E p \in Procs : Crash(p)
    \/ \E u \in Users : Disable(u)

Spec == Init /\ [][Next]_vars

\* Threads end (a transaction is bounded), the 0.15 s of the loop pass, and a
\* request ends (the clients read with a timeout).  Nobody has to start a
\* call, to let it through the gate, to stop it or to cancel it.
Fairness ==
    \A c \in Calls :
        /\ WF_vars(ReserveThread(c)) /\ WF_vars(AttemptThread(c))
        /\ WF_vars(ReleaseThread(c)) /\ WF_vars(CancelThread(c))
        /\ WF_vars(FreeThread(c)) /\ WF_vars(Poll(c))
        /\ WF_vars(Settle(c)) /\ WF_vars(Release(c))

FairSpec == Spec /\ Fairness

-----------------------------------------------------------------------------

InUse == {c \in Calls : pc[c] = "granted"}

\* docs/account_storage.md:58: the instance has at most Capacity requests to
\* the providers at a time, though leases are dropped by cancelled waiters,
\* by late threads and for processes found dead.
InstanceLimit == Cardinality(InUse) <= Capacity

\* The same for the requests of one account and its concurrent_models.
AccountLimit ==
    \A u \in Users :
        UserLimit[u] # 0 => Cardinality(InUse \cap CallsOf(u)) <= UserLimit[u]

\* docs/security_implementation.md:32: what was sent stays counted, also after
\* a crash or an unknown end, so that an account sends at most its daily calls.
SentIsCharged == \A c \in sent : quota[c] \in {"reserved", "settled"}

DailyLimit ==
    \A u \in Users :
        Daily[u] # 0 => Cardinality(sent \cap CallsOf(u)) <= Daily[u]

\* docs/account_storage.md:58: cancellation, the end and errors release the
\* lease.  So a row of a living process has a coroutine that will release it,
\* or a thread that is about to; nobody else ever deletes it.
LeaseIsReleased ==
    \A c \in waiting \cup running :
        ProcOf[c] \in alive /\ pc[c] \in {"idle", "done", "stopped"}
            => \E op \in {"cancel", "free"} : <<op, c>> \in thr

\* docs/account_storage.md:58: accounts take turns and the calls of an account
\* keep their order.  So every call that polls is admitted, or its wait ends
\* otherwise, however many calls the other accounts make.
Served ==
    \A c \in Calls : pc[c] = "polling" ~> pc[c] \notin {"polling", "loop"}
=============================================================================
