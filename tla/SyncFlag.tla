------------------------------ MODULE SyncFlag ------------------------------
(***************************************************************************)
(* may::sync::SyncFlag (src/src/sync/sync_flag.rs): a flag that is fired   *)
(* once and for all and wakes every waiter.                                *)
(***************************************************************************)
EXTENDS SyncBlocker

CONSTANTS Waiters, Firers,    \* calls of wait_timeout() and of fire()
          Timed, Cancelable,  \* waiters that can time out, be canceled
          MaxCnt,             \* stands for isize::MAX
          None

Calls == Waiters \cup Firers

VARIABLES cnt,      \* SyncFlag.cnt
          to_wake,  \* SyncFlag.to_wake
          then      \* where wakeup_all continues

vars == <<pc, n, unparked, release, token, w, cnt, to_wake, then>>

Init ==
    /\ pc = [c \in Calls |-> IF c \in Waiters THEN "start" ELSE "idle"]
    /\ n = [c \in Calls |-> 0]
    /\ unparked = {} /\ release = {} /\ token = {}
    /\ w = [c \in Calls |-> None]
    /\ cnt = 0
    /\ to_wake = <<>>
    /\ then = [c \in Calls |-> "none"]

\* is_fired() before anything is registered
wait_fired(c) ==
    /\ Step(c, "start", IF cnt > 0 THEN "true" ELSE "push")
    /\ UNCHANGED <<n, unparked, release, token, w, cnt, to_wake, then>>

wait_register(c) ==
    /\ Step(c, "push", "sub")
    /\ to_wake' = Append(to_wake, Cur(c))
    /\ UNCHANGED <<n, unparked, release, token, w, cnt, then>>

\* cnt.fetch_sub(1) > 0: fired meanwhile, so this waiter drains the queue
wait_sub(c) ==
    /\ Step(c, "sub", IF cnt > 0 THEN "pop" ELSE "park")
    /\ cnt' = cnt - 1
    /\ then' = [then EXCEPT ![c] = "park"]
    /\ UNCHANGED <<n, unparked, release, token, w, to_wake>>

park_ok(c) ==
    /\ Cur(c) \in token
    /\ Step(c, "park", "true")
    /\ token' = token \ {Cur(c)}
    /\ UNCHANGED <<n, unparked, release, w, cnt, to_wake, then>>

park_err(c) ==
    /\ c \in Timed \cup Cancelable
    /\ Step(c, "park", "check")
    /\ token' = token \ {Cur(c)}
    /\ then' = [then EXCEPT ![c] = "false"]
    /\ UNCHANGED <<n, unparked, release, w, cnt, to_wake>>

wait_leave(c) ==
    /\ Leave(c, "fire", "false")
    /\ UNCHANGED <<n, unparked, token, w, cnt, to_wake, then>>

fire_call(c) ==
    /\ Step(c, "idle", "fire")
    /\ then' = [then EXCEPT ![c] = "fired"]
    /\ UNCHANGED <<n, unparked, release, token, w, cnt, to_wake>>

\* mutant of fire: the count is set to one
fire_one(c) ==
    /\ Step(c, "fire", "pop")
    /\ cnt' = 1
    /\ UNCHANGED <<n, unparked, release, token, w, to_wake, then>>

fire(c) ==
    /\ Step(c, "fire", "pop")
    /\ cnt' = MaxCnt
    /\ UNCHANGED <<n, unparked, release, token, w, to_wake, then>>

wakeup_all(c) ==
    \/ /\ to_wake = <<>>
       /\ Step(c, "pop", then[c])
       /\ UNCHANGED <<n, unparked, release, token, w, cnt, to_wake, then>>
    \/ /\ to_wake # <<>>
       /\ Step(c, "pop", "store")
       /\ w' = [w EXCEPT ![c] = Head(to_wake)]
       /\ to_wake' = Tail(to_wake)
       /\ UNCHANGED <<n, unparked, release, token, cnt, then>>
    \/ Unpark(c, "take") /\ UNCHANGED <<n, release, w, cnt, to_wake, then>>
    \/ TakeRelease(c, "pop", "pop") /\ UNCHANGED <<n, unparked, token, w, cnt, to_wake, then>>

Run(c) ==
    \/ wait_fired(c) \/ wait_register(c) \/ wait_sub(c) \/ park_ok(c) \/ wait_leave(c)
    \/ fire(c) \/ wakeup_all(c)

Quiet ==
    /\ \A c \in Calls : pc[c] \in {"true", "false", "fired"}
    /\ UNCHANGED vars

Next ==
    \/ \E c \in Calls : Run(c) \/ park_err(c) \/ fire_call(c)
    \/ Quiet

\* calls run on; fire() itself and a timeout are up to the caller and the clock
Fairness == \A c \in Calls : WF_vars(Run(c))

Spec == Init /\ [][Next]_vars /\ Fairness

-----------------------------------------------------------------------------

\* wait() returns true only after a fire().
TrueMeansFired == \A c \in Waiters : pc[c] = "true" => cnt > 0

\* The flag is never unset: the waiters that count themselves in after a
\* fire() do not bring the count back to zero ("never drops back").
FiredStays == [][cnt > 0 => cnt' > 0]_vars

\* Once fired, no waiter stays parked, however late it registered.
FlagOpens == \A c \in Waiters : []<>(pc[c] = "park" => cnt <= 0)
=============================================================================
