------------------------------ MODULE Condvar ------------------------------
(***************************************************************************)
(* may::sync::Condvar (src/src/sync/condvar.rs) over a Mutex taken as the  *)
(* abstract lock that Mutex.tla implements.  Monitor, Barrier and          *)
(* WaitGroup extend this module with the code of a caller.                 *)
(***************************************************************************)
EXTENDS SyncBlocker, FiniteSets

CONSTANTS Calls,      \* coroutines or threads, each making one call at a time
          Timed,      \* calls that wait with a timeout
          Cancelable, \* calls whose coroutine can be canceled
          None

VARIABLES owner,      \* holder of the Mutex
          to_wake,    \* Condvar.to_wake
          err,        \* what park returned to a waiter
          then,       \* where a notification continues
          all         \* calls inside notify_all

cvars == <<pc, n, unparked, release, token, w, owner, to_wake, err, then, all>>

CondvarInit(start) ==
    /\ pc = [c \in Calls |-> start]
    /\ n = [c \in Calls |-> 0]
    /\ unparked = {} /\ release = {} /\ token = {}
    /\ w = [c \in Calls |-> None]
    /\ owner = None
    /\ to_wake = <<>>
    /\ err = [c \in Calls |-> "none"]
    /\ then = [c \in Calls |-> "none"]
    /\ all = {}

flags == <<n, unparked, release, token>>
notify == <<w, then, all>>

-----------------------------------------------------------------------------
(* wait_impl: the caller holds the lock and stands at "wait"; it comes back*)
(* to "woken" holding it, or ends at "canceled".                           *)

\* the blocker is queued before the mutex is unlocked
wait_register(c) ==
    /\ Step(c, "wait", "wait_unlock")
    /\ n' = [n EXCEPT ![c] = @ + 1]
    /\ to_wake' = Append(to_wake, <<c, n[c] + 1>>)
    /\ UNCHANGED <<unparked, release, token, notify, owner, err>>

wait_unlock(c) ==
    /\ Step(c, "wait_unlock", "park")
    /\ owner' = None
    /\ UNCHANGED <<flags, notify, to_wake, err>>

park_ok(c) ==
    /\ Cur(c) \in token
    /\ Step(c, "park", "relock")
    /\ token' = token \ {Cur(c)}
    /\ err' = [err EXCEPT ![c] = "none"]
    /\ UNCHANGED <<n, unparked, release, notify, owner, to_wake>>

park_err(c) ==
    /\ \/ c \in Timed /\ err' = [err EXCEPT ![c] = "timeout"]
       \/ c \in Cancelable /\ err' = [err EXCEPT ![c] = "canceled"]
    /\ Step(c, "park", "check")
    /\ token' = token \ {Cur(c)}
    /\ UNCHANGED <<n, unparked, release, notify, owner, to_wake>>

\* mutant of wait_leave: a waiter that leaves keeps the signal it was given
wait_leave_keep(c) ==
    /\ Leave(c, "relock", "relock")
    /\ then' = [then EXCEPT ![c] = "relock"]
    /\ UNCHANGED <<n, unparked, token, w, all, owner, to_wake, err>>

\* the release protocol runs before the lock is taken again
wait_leave(c) ==
    /\ Leave(c, "pop", "relock")
    /\ then' = [then EXCEPT ![c] = "relock"]
    /\ UNCHANGED <<n, unparked, token, w, all, owner, to_wake, err>>

\* cancel is disabled around this lock(); wait() of a canceled coroutine
\* unlocks again and panics
wait_relock(c) ==
    /\ owner = None
    /\ Step(c, "relock", IF err[c] = "canceled" THEN "cancel_unlock" ELSE "woken")
    /\ owner' = c
    /\ UNCHANGED <<flags, notify, to_wake, err>>

wait_canceled(c) ==
    /\ Step(c, "cancel_unlock", "canceled")
    /\ owner' = None
    /\ UNCHANGED <<flags, notify, to_wake, err>>

-----------------------------------------------------------------------------
(* notify_one at "pop", notify_all at "popall"                             *)

notify_pop(c) ==
    /\ \/ /\ to_wake = <<>>
          /\ Step(c, "pop", then[c]) \/ Step(c, "popall", then[c])
          /\ all' = all \ {c}
          /\ UNCHANGED <<w, to_wake>>
       \/ /\ to_wake # <<>>
          /\ Step(c, "pop", "store") \/ Step(c, "popall", "store")
          /\ all' = IF pc[c] = "popall" THEN all \cup {c} ELSE all \ {c}
          /\ w' = [w EXCEPT ![c] = Head(to_wake)]
          /\ to_wake' = Tail(to_wake)
    /\ UNCHANGED <<flags, then, owner, err>>

\* mutant of notify_unpark: notify_all stops after one waiter
notify_unpark_one(c) ==
    /\ Unpark(c, IF c \in all THEN then[c] ELSE "take")
    /\ UNCHANGED <<n, release, notify, owner, to_wake, err>>

notify_unpark(c) ==
    /\ Unpark(c, IF c \in all THEN "popall" ELSE "take")
    /\ UNCHANGED <<n, release, notify, owner, to_wake, err>>

\* a waiter that left passes the signal on to the next one
notify_take(c) ==
    /\ TakeRelease(c, "pop", then[c])
    /\ UNCHANGED <<n, unparked, token, notify, owner, to_wake, err>>

-----------------------------------------------------------------------------

\* the steps a call inside the Condvar takes by itself
Inside(c) ==
    \/ wait_register(c) \/ wait_unlock(c) \/ park_ok(c) \/ wait_leave(c)
    \/ wait_relock(c) \/ wait_canceled(c)
    \/ notify_pop(c) \/ notify_unpark(c) \/ notify_take(c)
=============================================================================
