---------------------------- MODULE AbstractLock ----------------------------
(***************************************************************************)
(* What may's exclusive locks promise their users: one holder at a time,   *)
(* a holder that keeps the lock until it gives it up, and waiters that     *)
(* leave without the lock only if they can be canceled.                    *)
(***************************************************************************)
CONSTANTS Users, Cancellable
VARIABLE status

Init == status = [u \in Users |-> "idle"]

Free == \A u \in Users : status[u] # "holding"

\* lock() found the lock taken
Request(u) ==
    /\ status[u] = "idle"
    /\ status' = [status EXCEPT ![u] = "waiting"]

\* lock() or try_lock() returns a guard
Acquire(u) ==
    /\ status[u] \in {"idle", "waiting"}
    /\ Free
    /\ status' = [status EXCEPT ![u] = "holding"]

\* try_lock() returns WouldBlock
Refuse(u) ==
    /\ status[u] = "idle"
    /\ status' = [status EXCEPT ![u] = "gone"]

\* a canceled waiter unwinds
Abandon(u) ==
    /\ status[u] = "waiting"
    /\ u \in Cancellable
    /\ status' = [status EXCEPT ![u] = "gone"]

\* the guard is dropped
Release(u) ==
    /\ status[u] = "holding"
    /\ status' = [status EXCEPT ![u] = "gone"]

Next == \E u \in Users :
    Request(u) \/ Acquire(u) \/ Refuse(u) \/ Abandon(u) \/ Release(u)

Spec == Init /\ [][Next]_status
=============================================================================
