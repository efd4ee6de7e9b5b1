------------------------------ MODULE Semphore ------------------------------
(***************************************************************************)
(* may::sync::Semphore (src/src/sync/semphore.rs) with the SyncBlocker     *)
(* hand-off (src/src/sync/blocking.rs).                                    *)
(*                                                                         *)
(* Actors are calls: wait calls (wait, wait_timeout, try_wait and the      *)
(* crate's wait_timeout_until) and post calls.  A wait call owns the       *)
(* SyncBlocker it allocates.  Steps are single atomic operations; the      *)
(* compare_exchange loops of try_wait and post are the step of their       *)
(* successful exchange.  to_wake is crossbeam's SegQueue, used as a        *)
(* linearizable FIFO.                                                      *)
(***************************************************************************)
EXTENDS Integers, Sequences, FiniteSets

CONSTANTS Waits,      \* wait calls
          Posts,      \* post calls
          Leavers,    \* wait calls that can time out or be canceled
          Stoppable,  \* wait calls with a stop predicate (the others pass || false)
          Permits,    \* the initial value
          NoCall      \* "no blocker popped"

ASSUME SemphoreAssumption ==
    /\ IsFiniteSet(Waits) /\ IsFiniteSet(Posts)
    /\ Waits \cap Posts = {}
    /\ Leavers \subseteq Waits
    /\ Stoppable \subseteq Waits
    /\ Permits \in Nat
    /\ NoCall \notin Waits \cup Posts

VARIABLES cnt,       \* Semphore.cnt
          to_wake,   \* Semphore.to_wake
          unparked, release, token,   \* the SyncBlocker of each wait call
          pc,        \* next atomic operation of each call
          w,         \* the blocker popped by wakeup_one
          then,      \* where the call continues after wakeup_one or post
          stopped    \* the stop() predicate passed to wait_timeout_until

semVars == <<cnt, to_wake, unparked, release, token, pc, w, then>>
vars == <<semVars, stopped>>

Calls == Waits \cup Posts

\* Type invariant, with the range of the counter.
TypeOK ==
    /\ cnt \in -Cardinality(Waits)..(Permits + Cardinality(Posts))
    /\ to_wake \in Seq(Waits)
    /\ unparked \in [Waits -> BOOLEAN]
    /\ release \in [Waits -> BOOLEAN]
    /\ token \in [Waits -> BOOLEAN]
    /\ pc \in [Calls -> {"start", "push", "sub", "stop", "park", "check", "setrel",
                         "recheck", "takeown", "schk", "sset", "srechk", "stake",
                         "post", "pop", "store", "wake", "take", "fwd",
                         "acquired", "refused", "stopped", "left", "posted"}]
    /\ w \in [Calls -> Waits \cup {NoCall}]
    /\ then \in [Calls -> {"stop", "left", "posted"}]
    /\ stopped \in BOOLEAN

Init ==
    /\ cnt = Permits
    /\ to_wake = <<>>
    /\ unparked = [c \in Waits |-> FALSE]
    /\ release = [c \in Waits |-> FALSE]
    /\ token = [c \in Waits |-> FALSE]
    /\ pc = [c \in Calls |-> IF c \in Waits THEN "start" ELSE "post"]
    /\ w = [c \in Calls |-> NoCall]
    /\ then = [c \in Calls |-> IF c \in Waits THEN "stop" ELSE "posted"]
    /\ stopped = FALSE

Step(c, from, to) == pc[c] = from /\ pc' = [pc EXCEPT ![c] = to]

-----------------------------------------------------------------------------
(* wait_timeout_until, wait, wait_timeout, try_wait                        *)

\* the compare_exchange(cnt, cnt - 1) of try_wait, which every wait tries first
try_wait(c) ==
    /\ cnt > 0
    /\ Step(c, "start", "acquired")
    /\ cnt' = cnt - 1
    /\ UNCHANGED <<to_wake, unparked, release, token, w, then, stopped>>

\* try_wait() returns false
try_wait_refused(c) ==
    /\ cnt <= 0
    /\ Step(c, "start", "refused")
    /\ UNCHANGED <<cnt, to_wake, unparked, release, token, w, then, stopped>>

\* ... and a blocking wait goes on
wait_blocks(c) ==
    /\ cnt <= 0
    /\ Step(c, "start", "push")
    /\ UNCHANGED <<cnt, to_wake, unparked, release, token, w, then, stopped>>

\* to_wake.push(cur.clone())
wait_register(c) ==
    /\ Step(c, "push", "sub")
    /\ to_wake' = Append(to_wake, c)
    /\ UNCHANGED <<cnt, unparked, release, token, w, then, stopped>>

\* cnt.fetch_sub(1) > 0: a permit came in meanwhile, hand it on
wait_fetch_sub(c) ==
    /\ Step(c, "sub", IF cnt > 0 THEN "pop" ELSE "stop")
    /\ cnt' = cnt - 1
    /\ then' = [then EXCEPT ![c] = "stop"]
    /\ UNCHANGED <<to_wake, unparked, release, token, w, stopped>>

\* stop(), evaluated after the registration
wait_check_stop(c) ==
    /\ Step(c, "stop", IF stopped /\ c \in Stoppable THEN "schk" ELSE "park")
    /\ UNCHANGED <<cnt, to_wake, unparked, release, token, w, then, stopped>>

\* stopped: a permit handed over already is kept
stop_check_unparked(c) ==
    /\ Step(c, "schk", IF unparked[c] THEN "acquired" ELSE "sset")
    /\ UNCHANGED <<cnt, to_wake, unparked, release, token, w, then, stopped>>

stop_set_release(c) ==
    /\ Step(c, "sset", "srechk")
    /\ release' = [release EXCEPT ![c] = TRUE]
    /\ UNCHANGED <<cnt, to_wake, unparked, token, w, then, stopped>>

stop_recheck(c) ==
    /\ Step(c, "srechk", IF unparked[c] THEN "stake" ELSE "stopped")
    /\ UNCHANGED <<cnt, to_wake, unparked, release, token, w, then, stopped>>

stop_take_release(c) ==
    /\ Step(c, "stake", IF release[c] THEN "acquired" ELSE "stopped")
    /\ release' = [release EXCEPT ![c] = FALSE]
    /\ UNCHANGED <<cnt, to_wake, unparked, token, w, then, stopped>>

\* mutant of park_ok: a spurious wake-up taken for a permit
park_spurious(c) ==
    /\ Step(c, "park", "acquired")
    /\ token' = [token EXCEPT ![c] = FALSE]
    /\ UNCHANGED <<cnt, to_wake, unparked, release, w, then, stopped>>

\* cur.park(dur) returns Ok
park_ok(c) ==
    /\ token[c]
    /\ Step(c, "park", "acquired")
    /\ token' = [token EXCEPT ![c] = FALSE]
    /\ UNCHANGED <<cnt, to_wake, unparked, release, w, then, stopped>>

\* cur.park(dur) returns Err(Timeout) or Err(Canceled)
park_err(c) ==
    /\ c \in Leavers
    /\ Step(c, "park", "check")
    /\ token' = [token EXCEPT ![c] = FALSE]
    /\ UNCHANGED <<cnt, to_wake, unparked, release, w, then, stopped>>

\* a permit handed over already is posted again
err_check_unparked(c) ==
    /\ Step(c, "check", IF unparked[c] THEN "post" ELSE "setrel")
    /\ then' = [then EXCEPT ![c] = "left"]
    /\ UNCHANGED <<cnt, to_wake, unparked, release, token, w, stopped>>

err_set_release(c) ==
    /\ Step(c, "setrel", "recheck")
    /\ release' = [release EXCEPT ![c] = TRUE]
    /\ UNCHANGED <<cnt, to_wake, unparked, token, w, then, stopped>>

err_recheck(c) ==
    /\ Step(c, "recheck", IF unparked[c] THEN "takeown" ELSE "left")
    /\ UNCHANGED <<cnt, to_wake, unparked, release, token, w, then, stopped>>

err_take_release(c) ==
    /\ Step(c, "takeown", IF release[c] THEN "post" ELSE "left")
    /\ release' = [release EXCEPT ![c] = FALSE]
    /\ UNCHANGED <<cnt, to_wake, unparked, token, w, then, stopped>>

-----------------------------------------------------------------------------
(* post and wakeup_one                                                     *)

\* compare_exchange(cnt, cnt + 1); a negative value means there is a waiter
post_cnt(c) ==
    /\ Step(c, "post", IF cnt < 0 THEN "pop" ELSE then[c])
    /\ cnt' = cnt + 1
    /\ UNCHANGED <<to_wake, unparked, release, token, w, then, stopped>>

\* to_wake.pop(); that it is not empty, the code's expect("got null
\* blocker!"), is NoNullBlocker below
wakeup_pop(c) ==
    /\ to_wake # <<>>
    /\ Step(c, "pop", "store")
    /\ w' = [w EXCEPT ![c] = Head(to_wake)]
    /\ to_wake' = Tail(to_wake)
    /\ UNCHANGED <<cnt, unparked, release, token, then, stopped>>

\* SyncBlocker::unpark: the flag, then the token
wakeup_store(c) ==
    /\ Step(c, "store", "wake")
    /\ unparked' = [unparked EXCEPT ![w[c]] = TRUE]
    /\ UNCHANGED <<cnt, to_wake, release, token, w, then, stopped>>

wakeup_wake(c) ==
    /\ Step(c, "wake", "take")
    /\ token' = [token EXCEPT ![w[c]] = TRUE]
    /\ UNCHANGED <<cnt, to_wake, unparked, release, w, then, stopped>>

\* mutant of wakeup_take_release: the release flag is not looked at
wakeup_ignore_release(c) ==
    /\ Step(c, "take", then[c])
    /\ release' = [release EXCEPT ![w[c]] = FALSE]
    /\ w' = [w EXCEPT ![c] = IF release[w[c]] THEN @ ELSE NoCall]
    /\ UNCHANGED <<cnt, to_wake, unparked, token, then, stopped>>

\* take_release(): TRUE means that the waiter left without the permit
wakeup_take_release(c) ==
    /\ Step(c, "take", IF release[w[c]] THEN "fwd" ELSE then[c])
    /\ release' = [release EXCEPT ![w[c]] = FALSE]
    /\ w' = [w EXCEPT ![c] = IF release[w[c]] THEN @ ELSE NoCall]
    /\ UNCHANGED <<cnt, to_wake, unparked, token, then, stopped>>

\* mutant of wakeup_forward: the slot of the waiter that left is not given back
wakeup_drop(c) ==
    /\ Step(c, "fwd", IF cnt >= 0 THEN then[c] ELSE "pop")
    /\ cnt' = cnt
    /\ w' = [w EXCEPT ![c] = NoCall]
    /\ UNCHANGED <<to_wake, unparked, release, token, then, stopped>>

\* cnt.fetch_add(1) for the waiter that left; another one gets the permit
wakeup_forward(c) ==
    /\ Step(c, "fwd", IF cnt >= 0 THEN then[c] ELSE "pop")
    /\ cnt' = cnt + 1
    /\ w' = [w EXCEPT ![c] = NoCall]
    /\ UNCHANGED <<to_wake, unparked, release, token, then, stopped>>

-----------------------------------------------------------------------------

\* the wake-up chain of a call that posts or hands on a permit
Wakeup(c) ==
    \/ wakeup_pop(c) \/ wakeup_store(c) \/ wakeup_wake(c)
    \/ wakeup_take_release(c) \/ wakeup_forward(c)

\* a wait call after it has blocked
Wait(c) ==
    \/ wait_register(c) \/ wait_fetch_sub(c) \/ wait_check_stop(c)
    \/ stop_check_unparked(c) \/ stop_set_release(c) \/ stop_recheck(c)
    \/ stop_take_release(c)
    \/ park_ok(c) \/ err_check_unparked(c) \/ err_set_release(c)
    \/ err_recheck(c) \/ err_take_release(c)

Begin(c) == try_wait(c) \/ try_wait_refused(c) \/ wait_blocks(c)

Done(c) == pc[c] \in {"acquired", "refused", "stopped", "left", "posted"}

\* the predicate of the caller of wait_timeout_until turns true
raise_stop ==
    /\ ~stopped
    /\ stopped' = TRUE
    /\ UNCHANGED semVars

\* no call can go on: all have returned, or wait for permits nobody posts
Quiet ==
    /\ \A c \in Calls : Done(c) \/ (pc[c] = "park" /\ ~token[c])
    /\ UNCHANGED vars

Next ==
    \/ \E c \in Waits : Begin(c) \/ Wait(c) \/ park_err(c)
    \/ \E c \in Calls : post_cnt(c) \/ Wakeup(c)
    \/ raise_stop
    \/ Quiet

Spec == Init /\ [][Next]_vars

\* calls run on; nothing obliges a post, a timeout, a cancel or a stop
FairSpec ==
    /\ Spec
    /\ \A c \in Waits : WF_vars(Wait(c) \/ post_cnt(c))
    /\ \A c \in Calls : WF_vars(Wakeup(c))

-----------------------------------------------------------------------------
(* Permits: where they are                                                 *)

Acquired == {c \in Waits : pc[c] = "acquired"}
Posted == {c \in Posts : pc[c] # "post"}

\* d took the release flag of c and has not accounted for it yet
Forwards(d, c) == pc[d] = "fwd" /\ w[d] = c

\* c's fetch_sub stands, and no permit of c's own does yet
Holds(c) ==
    \/ pc[c] \in {"stop", "park", "check", "setrel", "schk", "sset"}
    \/ pc[c] \in {"pop", "store", "wake", "take", "fwd"} /\ then[c] = "stop"
    \/ pc[c] = "post" /\ then[c] = "left"
    \/ release[c]
    \/ \E d \in Calls : Forwards(d, c)

Slots == {c \in Waits : Holds(c)}

\* permits between two calls: carried by a wake-up chain or a re-post ...
Carried == {c \in Calls : \/ pc[c] \in {"pop", "store", "fwd"}
                          \/ pc[c] = "post" /\ then[c] = "left"}

\* ... or handed to a waiter that has not acted on it
Granted ==
    {c \in Waits :
        /\ unparked[c]
        /\ \/ pc[c] \in {"sub", "stop", "park", "check", "setrel", "schk", "sset"}
           \/ pc[c] \in {"pop", "store", "wake", "take", "fwd"} /\ then[c] = "stop"
           \/ release[c]}

-----------------------------------------------------------------------------
(* Safety                                                                  *)

\* The expect("got null blocker!") of wakeup_one never fails.
NoNullBlocker ==
    Cardinality({c \in Calls : pc[c] = "pop"}) <= Len(to_wake)

\* cnt counts exactly: what was put in, less what was taken out, less one per
\* waiter registered or gone without having been compensated.
CntExact ==
    cnt = Permits + Cardinality(Posted) - Cardinality(Acquired) - Cardinality(Slots)

\* The negative part of cnt is the number of waiters no permit is on its way
\* to: so no waiter sleeps while a permit is to be had, and no permit is
\* handed on twice, whoever times out, is canceled or stops, and when.
PermitBalance ==
    Cardinality(Carried) + Cardinality(Granted) - Cardinality(Slots)
        = IF cnt < 0 THEN cnt ELSE 0

\* The accounting of the semaphore: whoever pops finds a waiter, and no permit
\* is lost or handed on twice.
PermitsExact == TypeOK /\ NoNullBlocker /\ CntExact /\ PermitBalance

\* "an integer whose value is never allowed to fall below zero" (Semphore)
value == Permits + Cardinality(Posted) - Cardinality(Acquired)

Sem == INSTANCE AbstractSemaphore

\* Every wait that succeeds takes a permit somebody put in.
ImplementsSemaphore == Sem!Spec

-----------------------------------------------------------------------------
(* Liveness                                                                *)

\* No waiter stays parked while the semaphore has a value, though others
\* leave on the way.
WaitEnds ==
    \A c \in Waits : []<>(pc[c] = "park" => value = 0)
=============================================================================
