----------------------------- MODULE WaitGroup -----------------------------
(***************************************************************************)
(* may::sync::WaitGroup (src/src/sync/wait_group.rs) on its Mutex and      *)
(* Condvar.  A call gets its reference by clone (the first one by new) and *)
(* gives it up by wait or by drop.                                         *)
(***************************************************************************)
EXTENDS Condvar

CONSTANT First        \* the call that makes the group

VARIABLES count,      \* Inner.count
          next        \* where a call continues after WaitGroup::drop

gvars == <<count, next>>
vars == <<cvars, gvars>>

Init ==
    /\ CondvarInit("none")
    /\ count = 0
    /\ next = [c \in Calls |-> "none"]

new ==
    /\ \A c \in Calls : pc[c] = "none"
    /\ Step(First, "none", "hold")
    /\ count' = 1
    /\ UNCHANGED <<flags, notify, owner, to_wake, err, next>>

\* c's reference is cloned for d, under the lock
clone(c, d) ==
    /\ pc[c] = "hold"
    /\ owner = None
    /\ Step(d, "none", "hold")
    /\ count' = count + 1
    /\ UNCHANGED <<flags, notify, owner, to_wake, err, next>>

\* wait(): the first look at the count; either way self is dropped next
wait_check(c) ==
    /\ owner = None
    /\ Step(c, "hold", "drop")
    /\ next' = [next EXCEPT ![c] = IF count = 1 THEN "waited" ELSE "block"]
    /\ UNCHANGED <<flags, notify, owner, to_wake, err, count>>

\* the second lock, and while *count > 0 { wait }
wait_block(c) ==
    /\ owner = None
    /\ Step(c, "block", IF count > 0 THEN "wait" ELSE "guard")
    /\ owner' = c
    /\ UNCHANGED <<flags, notify, to_wake, err, gvars>>

wait_again(c) ==
    /\ Step(c, "woken", IF count > 0 THEN "wait" ELSE "guard")
    /\ UNCHANGED <<flags, notify, owner, to_wake, err, gvars>>

wait_return(c) ==
    /\ Step(c, "guard", "waited")
    /\ owner' = None
    /\ UNCHANGED <<flags, notify, to_wake, err, gvars>>

drop_begin(c) ==
    /\ Step(c, "hold", "drop")
    /\ next' = [next EXCEPT ![c] = "gone"]
    /\ UNCHANGED <<flags, notify, owner, to_wake, err, count>>

drop_count(c) ==
    /\ owner = None
    /\ Step(c, "drop", IF count = 1 THEN "popall" ELSE "drop_unlock")
    /\ owner' = c
    /\ count' = count - 1
    /\ then' = [then EXCEPT ![c] = "drop_unlock"]
    /\ UNCHANGED <<flags, w, all, to_wake, err, next>>

drop_unlock(c) ==
    /\ Step(c, "drop_unlock", next[c])
    /\ owner' = None
    /\ UNCHANGED <<flags, notify, to_wake, err, gvars>>

\* the lock() in drop panics in a canceled coroutine that has to wait for it:
\* the reference is gone and was never counted out
drop_canceled(c) ==
    /\ c \in Cancelable
    /\ owner # None
    /\ Step(c, "drop", "leaked")
    /\ UNCHANGED <<flags, notify, owner, to_wake, err, gvars>>

Run(c) ==
    \/ Inside(c) /\ UNCHANGED gvars
    \/ wait_block(c) \/ wait_again(c) \/ wait_return(c) \/ drop_count(c) \/ drop_unlock(c)

Done(c) == pc[c] \in {"none", "gone", "waited", "leaked", "canceled"}

Quiet ==
    /\ pc[First] # "none"
    /\ \A c \in Calls : Done(c) \/ (pc[c] = "park" /\ Cur(c) \notin token)
    /\ UNCHANGED vars

Next ==
    \/ new
    \/ \E c, d \in Calls : clone(c, d)
    \/ \E c \in Calls : Run(c) \/ wait_check(c) \/ drop_begin(c) \/ drop_canceled(c)
                        \/ (park_err(c) /\ UNCHANGED gvars)
    \/ Quiet

\* coroutines run on; that a reference is given up is up to its owner
Fairness == \A c \in Calls : WF_vars(Run(c))

Spec == Init /\ [][Next]_vars /\ Fairness

-----------------------------------------------------------------------------

References == {c \in Calls : pc[c] \in {"hold", "drop"}}

\* wait() returns only when every other reference has been given up, those
\* waiting included.
WaitsForAll ==
    \A c \in Calls : pc[c] \in {"guard", "waited"} => References \subseteq {c}

\* When the count is zero, every waiter returns.
WaitGroupOpens == \A c \in Calls : []<>(pc[c] = "park" => count > 0)
=============================================================================
