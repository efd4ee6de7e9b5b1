------------------------------ MODULE Monitor ------------------------------
(***************************************************************************)
(* Condvar::wait_while and wait_timeout_while (src/src/sync/condvar.rs)    *)
(* with a caller: consumers take items under the lock, producers add one   *)
(* and notify_one, a closer ends it with notify_all.                       *)
(***************************************************************************)
EXTENDS Condvar

CONSTANTS Consumers, Producers, Closers

VARIABLES items, closed

mvars == <<items, closed>>
vars == <<cvars, mvars>>

Init ==
    /\ CondvarInit("start")
    /\ items = 0
    /\ closed = FALSE

\* the caller's critical sections, entered at "start" and left with the unlock
produce(c) ==
    /\ c \in Producers \cup Closers
    /\ owner = None
    /\ Step(c, "start", IF c \in Producers THEN "pop" ELSE "popall")
    /\ IF c \in Producers THEN items' = items + 1 /\ UNCHANGED closed
                          ELSE closed' = TRUE /\ UNCHANGED items
    /\ then' = [then EXCEPT ![c] = "done"]
    /\ UNCHANGED <<flags, w, all, owner, to_wake, err>>

consume_lock(c) ==
    /\ c \in Consumers
    /\ owner = None
    /\ Step(c, "start", "woken")
    /\ owner' = c
    /\ UNCHANGED <<flags, notify, to_wake, err, mvars>>

\* while condition(&mut *guard) { wait }, or return what wait_timeout says
wait_while(c) ==
    /\ Step(c, "woken", IF err[c] = "timeout" THEN "timedout"
                        ELSE IF closed \/ items > 0 THEN "guard" ELSE "wait")
    /\ UNCHANGED <<flags, notify, owner, to_wake, err, mvars>>

\* the caller uses the guard and drops it
consume(c) ==
    /\ \/ Step(c, "guard", "done") /\ items' = IF items > 0 THEN items - 1 ELSE items
       \/ Step(c, "timedout", "done") /\ UNCHANGED items
    /\ owner' = None
    /\ UNCHANGED <<flags, notify, to_wake, err, closed>>

Run(c) == (Inside(c) /\ UNCHANGED mvars) \/ consume_lock(c) \/ wait_while(c) \/ consume(c)

Done(c) == pc[c] \in {"done", "canceled"}

\* nobody left to notify the ones that wait
Quiet ==
    /\ \A c \in Calls : Done(c) \/ (pc[c] = "park" /\ Cur(c) \notin token)
    /\ UNCHANGED vars

Next ==
    \/ \E c \in Calls : Run(c) \/ produce(c) \/ (park_err(c) /\ UNCHANGED mvars)
    \/ Quiet

Fairness == \A c \in Calls : WF_vars(Run(c))

Spec == Init /\ [][Next]_vars /\ Fairness

-----------------------------------------------------------------------------

\* A waiter in wait_while is let through only when its condition is false:
\* whoever holds the guard finds an item, or the end.
GuardedTruth ==
    \A c \in Calls : pc[c] = "guard" => owner = c /\ (items > 0 \/ closed)

\* No waiter stays parked beside an item, or after the end: a signal that
\* notify_one gives to a waiter leaving by timeout or cancel reaches a waiter
\* that stays, however the two cross.
SignalReaches ==
    \A c \in Consumers :
        []<>(pc[c] = "park" => items = 0 /\ ~closed)
=============================================================================
