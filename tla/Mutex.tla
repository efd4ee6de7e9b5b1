------------------------------- MODULE Mutex -------------------------------
(***************************************************************************)
(* may::sync::Mutex (src/src/sync/mutex.rs) together with the SyncBlocker  *)
(* hand-off it relies on (src/src/sync/blocking.rs).                       *)
(*                                                                         *)
(* The actors are CALLS of lock() / try_lock().  A SyncBlocker is          *)
(* allocated by one lock() call and used for that call only, so the call   *)
(* is also the identity of its blocker, and a thread that locks twice is   *)
(* two calls.  Every shared-memory access of the code is one step: two     *)
(* calls interleave between any two atomic operations.                     *)
(***************************************************************************)
EXTENDS Integers, Sequences, FiniteSets

CONSTANTS Calls,       \* lock()/try_lock() calls ever made
          Coroutines,  \* those made in coroutine context (cancellable)
          Shielded,    \* those made while cancel is disabled (Cancel::disable_cancel)
          NoCall       \* "no blocker popped"

ASSUME CallsAssumption ==
    /\ Coroutines \subseteq Calls
    /\ Shielded \subseteq Coroutines
    /\ NoCall \notin Calls

VARIABLES cnt,        \* Mutex.cnt
          to_wake,    \* Mutex.to_wake, the FIFO of registered blockers
          unparked,   \* SyncBlocker.unparked of each call's blocker
          release,    \* SyncBlocker.release
          token,      \* the wake-up token of the blocker's parker
          canceled,   \* a cancel request the caller has not acted on
          pc,         \* next atomic operation of each call
          w,          \* local variable w of lock() and unlock(): the popped blocker
          then        \* where the call continues when the hand-off chain ends

vars == <<cnt, to_wake, unparked, release, token, canceled, pc, w, then>>

PCs == {"start", "push", "add", "pop", "store", "wake", "take", "sub", "park",
        "check", "setrel", "recheck", "takeown", "hold", "done", "panicked"}

TypeOK ==
    /\ cnt \in Nat
    /\ to_wake \in Seq(Calls)
    /\ unparked \in [Calls -> BOOLEAN]
    /\ release \in [Calls -> BOOLEAN]
    /\ token \in [Calls -> BOOLEAN]
    /\ canceled \in [Calls -> BOOLEAN]
    /\ pc \in [Calls -> PCs]
    /\ w \in [Calls -> Calls \cup {NoCall}]
    /\ then \in [Calls -> {"park", "done", "panicked"}]

\* Mutex::new and, for every call, the fresh SyncBlocker::current()
Init ==
    /\ cnt = 0
    /\ to_wake = <<>>
    /\ unparked = [c \in Calls |-> FALSE]
    /\ release = [c \in Calls |-> FALSE]
    /\ token = [c \in Calls |-> FALSE]
    /\ canceled = [c \in Calls |-> FALSE]
    /\ pc = [c \in Calls |-> "start"]
    /\ w = [c \in Calls |-> NoCall]
    /\ then = [c \in Calls |-> "park"]

Goto(c, l) == pc' = [pc EXCEPT ![c] = l]

-----------------------------------------------------------------------------
(* lock() and try_lock()                                                   *)

\* mutant of try_lock: a plain store instead of the compare_exchange
try_lock_store(c) ==
    /\ pc[c] = "start"
    /\ cnt' = 1
    /\ Goto(c, "hold")
    /\ UNCHANGED <<to_wake, unparked, release, token, canceled, w, then>>

\* the compare_exchange(0, 1) of try_lock succeeds; lock() tries it first
try_lock(c) ==
    /\ pc[c] = "start"
    /\ cnt = 0
    /\ cnt' = 1
    /\ Goto(c, "hold")
    /\ UNCHANGED <<to_wake, unparked, release, token, canceled, w, then>>

\* try_lock() returns WouldBlock
try_lock_would_block(c) ==
    /\ pc[c] = "start"
    /\ cnt # 0
    /\ Goto(c, "done")
    /\ UNCHANGED <<cnt, to_wake, unparked, release, token, canceled, w, then>>

\* lock() goes on to the slow path
lock_contended(c) ==
    /\ pc[c] = "start"
    /\ cnt # 0
    /\ Goto(c, "push")
    /\ UNCHANGED <<cnt, to_wake, unparked, release, token, canceled, w, then>>

\* to_wake.push(cur.clone())
lock_register(c) ==
    /\ pc[c] = "push"
    /\ to_wake' = Append(to_wake, c)
    /\ Goto(c, "add")
    /\ UNCHANGED <<cnt, unparked, release, token, canceled, w, then>>

\* cnt.fetch_add(1) == 0: the mutex was released meanwhile, so this call
\* owns the hand-off to the first registered waiter
lock_fetch_add(c) ==
    /\ pc[c] = "add"
    /\ cnt' = cnt + 1
    /\ Goto(c, IF cnt = 0 THEN "pop" ELSE "park")
    /\ then' = [then EXCEPT ![c] = "park"]
    /\ UNCHANGED <<to_wake, unparked, release, token, canceled, w>>

\* mutant of park_ok: a spurious wake-up taken for the hand-off
park_spurious(c) ==
    /\ pc[c] = "park"
    /\ token' = [token EXCEPT ![c] = FALSE]
    /\ Goto(c, "hold")
    /\ UNCHANGED <<cnt, to_wake, unparked, release, canceled, w, then>>

\* cur.park(None) returns Ok: the token is consumed and the lock is ours
park_ok(c) ==
    /\ pc[c] = "park"
    /\ token[c]
    /\ token' = [token EXCEPT ![c] = FALSE]
    /\ Goto(c, "hold")
    /\ UNCHANGED <<cnt, to_wake, unparked, release, canceled, w, then>>

\* mutant of park_canceled: a cancel does not wake the waiter
park_ignore_cancel(c) ==
    /\ pc[c] = "park"
    /\ canceled[c] /\ token[c]
    /\ token' = [token EXCEPT ![c] = FALSE]
    /\ canceled' = [canceled EXCEPT ![c] = c \notin Shielded]
    /\ Goto(c, "check")
    /\ UNCHANGED <<cnt, to_wake, unparked, release, w, then>>

\* cur.park(None) returns Err(Canceled), whatever the token; Park clears the
\* token on every return.  A shielded coroutine can also be woken by cancel(),
\* once per cancel() call.
park_canceled(c) ==
    /\ pc[c] = "park"
    /\ canceled[c]
    /\ token' = [token EXCEPT ![c] = FALSE]
    /\ canceled' = [canceled EXCEPT ![c] = c \notin Shielded]
    /\ Goto(c, "check")
    /\ UNCHANGED <<cnt, to_wake, unparked, release, w, then>>

\* Err(Canceled): b_ignore is the shielding; is_unparked() decides whether
\* the lock has been handed to this call already
lock_check_unparked(c) ==
    /\ pc[c] = "check"
    /\ \/ /\ unparked[c]
          /\ Goto(c, IF c \in Shielded THEN "hold" ELSE "sub")
       \/ /\ ~unparked[c]
          /\ Goto(c, IF c \in Shielded THEN "park" ELSE "setrel")
    /\ then' = [then EXCEPT ![c] = IF c \in Shielded THEN @ ELSE "panicked"]
    /\ UNCHANGED <<cnt, to_wake, unparked, release, token, canceled, w>>

\* mutant of lock_set_release: the unwinding call does not register its release
lock_no_release(c) ==
    /\ pc[c] = "setrel"
    /\ release' = release
    /\ Goto(c, "recheck")
    /\ UNCHANGED <<cnt, to_wake, unparked, token, canceled, w, then>>

\* cur.set_release()
lock_set_release(c) ==
    /\ pc[c] = "setrel"
    /\ release' = [release EXCEPT ![c] = TRUE]
    /\ Goto(c, "recheck")
    /\ UNCHANGED <<cnt, to_wake, unparked, token, canceled, w, then>>

\* the second is_unparked(): if still FALSE the call unwinds and leaves its
\* blocker, with the release registered, in the queue
lock_recheck(c) ==
    /\ pc[c] = "recheck"
    /\ Goto(c, IF unparked[c] THEN "takeown" ELSE "panicked")
    /\ UNCHANGED <<cnt, to_wake, unparked, release, token, canceled, w, then>>

\* ... && cur.take_release(): only the side that takes the flag unlocks
lock_take_release(c) ==
    /\ pc[c] = "takeown"
    /\ release' = [release EXCEPT ![c] = FALSE]
    /\ Goto(c, IF release[c] THEN "sub" ELSE "panicked")
    /\ UNCHANGED <<cnt, to_wake, unparked, token, canceled, w, then>>

-----------------------------------------------------------------------------
(* unlock() and the hand-off chain, run by a guard's drop, by a canceled    *)
(* call that was handed the lock, or by the first grab in lock()            *)

\* MutexGuard::drop calls unlock()
drop_guard(c) ==
    /\ pc[c] = "hold"
    /\ Goto(c, "sub")
    /\ w' = [w EXCEPT ![c] = NoCall]
    /\ then' = [then EXCEPT ![c] = "done"]
    /\ UNCHANGED <<cnt, to_wake, unparked, release, token, canceled>>

\* cnt.fetch_sub(1): with waiters left (cnt > 1) the chain goes on
unlock_fetch_sub(c) ==
    /\ pc[c] = "sub"
    /\ cnt' = cnt - 1
    /\ Goto(c, IF cnt > 1 THEN "pop" ELSE then[c])
    /\ w' = [w EXCEPT ![c] = NoCall]
    /\ UNCHANGED <<to_wake, unparked, release, token, canceled, then>>

\* to_wake.pop(); that the queue is not empty here, the code's
\* expect("got null blocker!"), is NoNullBlocker below
pop_blocker(c) ==
    /\ pc[c] = "pop"
    /\ to_wake # <<>>
    /\ w' = [w EXCEPT ![c] = Head(to_wake)]
    /\ to_wake' = Tail(to_wake)
    /\ Goto(c, "store")
    /\ UNCHANGED <<cnt, unparked, release, token, canceled, then>>

\* SyncBlocker::unpark, first half: unparked is stored before waking
unpark_store(c) ==
    /\ pc[c] = "store"
    /\ unparked' = [unparked EXCEPT ![w[c]] = TRUE]
    /\ Goto(c, "wake")
    /\ UNCHANGED <<cnt, to_wake, release, token, canceled, w, then>>

\* SyncBlocker::unpark, second half: the parker's token is set
unpark_wake(c) ==
    /\ pc[c] = "wake"
    /\ token' = [token EXCEPT ![w[c]] = TRUE]
    /\ Goto(c, "take")
    /\ UNCHANGED <<cnt, to_wake, unparked, release, canceled, w, then>>

\* mutant of unpark_take_release: the flag is read and not taken
unpark_peek_release(c) ==
    /\ pc[c] = "take"
    /\ release' = release
    /\ Goto(c, IF release[w[c]] THEN "sub" ELSE then[c])
    /\ w' = [w EXCEPT ![c] = IF release[w[c]] THEN @ ELSE NoCall]
    /\ UNCHANGED <<cnt, to_wake, unparked, token, canceled, then>>

\* take_release() of unpark_one: TRUE means the waiter is unwinding and its
\* slot of cnt is released on its behalf
unpark_take_release(c) ==
    /\ pc[c] = "take"
    /\ release' = [release EXCEPT ![w[c]] = FALSE]
    /\ Goto(c, IF release[w[c]] THEN "sub" ELSE then[c])
    /\ w' = [w EXCEPT ![c] = IF release[w[c]] THEN @ ELSE NoCall]
    /\ UNCHANGED <<cnt, to_wake, unparked, token, canceled, then>>

-----------------------------------------------------------------------------
(* The environment: Coroutine::cancel() on the caller of c                  *)
cancel(c) ==
    /\ c \in Coroutines
    /\ pc[c] \notin {"done", "panicked"}
    /\ ~canceled[c]
    /\ canceled' = [canceled EXCEPT ![c] = TRUE]
    /\ UNCHANGED <<cnt, to_wake, unparked, release, token, pc, w, then>>

\* what a call does by itself once it is past its first compare_exchange
Run(c) ==
    \/ lock_register(c) \/ lock_fetch_add(c)
    \/ park_ok(c) \/ park_canceled(c)
    \/ lock_check_unparked(c) \/ lock_set_release(c)
    \/ lock_recheck(c) \/ lock_take_release(c)
    \/ unlock_fetch_sub(c) \/ pop_blocker(c)
    \/ unpark_store(c) \/ unpark_wake(c) \/ unpark_take_release(c)

Begin(c) == try_lock(c) \/ try_lock_would_block(c) \/ lock_contended(c)

\* every call has returned: the only state without a next step
Finished ==
    /\ \A c \in Calls : pc[c] \in {"done", "panicked"}
    /\ UNCHANGED vars

Next ==
    \/ \E c \in Calls : Begin(c) \/ Run(c) \/ drop_guard(c) \/ cancel(c)
    \/ Finished

Spec == Init /\ [][Next]_vars

\* Every running thread and every runnable coroutine is scheduled eventually;
\* a holder may keep its guard forever.
FairSpec == Spec /\ \A c \in Calls : WF_vars(Run(c))

-----------------------------------------------------------------------------
(* Safety                                                                   *)

\* At most one call is between its acquisition and its guard's drop.
MutualExclusion ==
    \A c, d \in Calls : pc[c] = "hold" /\ pc[d] = "hold" => c = d

\* to_wake is an mpsc queue (src/may_queue/src/mpsc.rs): its pop may be run
\* by one consumer at a time.  No lock of its own enforces this; only the
\* hand-off protocol does, across guard drops, first grabs and the unlocks
\* of canceled waiters.
SinglePopper ==
    \A c, d \in Calls : pc[c] = "pop" /\ pc[d] = "pop" => c = d

\* The two expect("got null blocker!") never fail: whoever decides from cnt
\* that there is a waiter finds its blocker in the queue.
NoNullBlocker == \A c \in Calls : pc[c] = "pop" => to_wake # <<>>

\* "Waiter hand-off is FIFO" (Mutex): a registered call does not hold the lock
\* while its blocker is still queued.  The pop is then the only way from the
\* queue to the lock, and waiters get it in the order of their registration.
FifoHandOff ==
    \A i \in 1..Len(to_wake) : pc[to_wake[i]] # "hold"

\* c carries the right to the lock in its own control flow.
Active(c) == pc[c] \in {"hold", "sub", "pop", "store"}

\* c has been handed the lock and will notice when it parks or checks.
Granted(c) ==
    /\ unparked[c]
    /\ \/ pc[c] \in {"add", "park", "check", "setrel"}
       \/ pc[c] \in {"wake", "take"} /\ then[c] = "park"

\* c was handed the lock while it was registering its release, and neither
\* side has taken the release flag yet.
Flagged(c) == unparked[c] /\ release[c]

Permit(c) == Active(c) \/ Granted(c) \/ Flagged(c)

\* The right to the lock is in one place at most: a waiter leaving through
\* cancellation and its waker never both forward it ("exactly one hand-off
\* happens", SyncBlocker).
OnePermit == \A c, d \in Calls : Permit(c) /\ Permit(d) => c = d

\* ... and never nowhere: while cnt says the mutex is taken, some call is
\* bound to use the lock or to pass it on, so no waiter sleeps on a free
\* mutex.
LockNotLost == cnt # 0 <=> \E c \in Calls : Permit(c)

-----------------------------------------------------------------------------
(* The inductive invariant behind them                                      *)

\* the call that d's pending fetch_sub accounts for
SubFor(d, c) == pc[d] = "sub" /\ w[d] = c

\* c is between the fetch_add and the fetch_sub of its slot of cnt
Counted(c) ==
    \/ pc[c] \in {"park", "check", "setrel", "hold"}
    \/ pc[c] \in {"pop", "store", "wake", "take", "sub"} /\ then[c] = "park"
    \/ SubFor(c, NoCall)
    \/ release[c]
    \/ \E d \in Calls : SubFor(d, c)

CountedCalls == {c \in Calls : Counted(c)}

CntIsCounted == IsFiniteSet(CountedCalls) /\ cnt = Cardinality(CountedCalls)

InQueue(c) == \E i \in 1..Len(to_wake) : to_wake[i] = c

\* d has popped c's blocker and not yet marked it
Storing(d, c) == pc[d] = "store" /\ w[d] = c

\* c is registered and has not left the wait
Waiting(c) ==
    \/ pc[c] \in {"add", "park", "check", "setrel"}
    \/ pc[c] \in {"pop", "store", "wake", "take", "sub"} /\ then[c] = "park"
    \/ release[c]

\* a registered blocker is queued, popped, or has been handed the lock
NoBlockerLost ==
    \A c \in Calls : Waiting(c) =>
        InQueue(c) \/ unparked[c] \/ \E d \in Calls : Storing(d, c)

QueueFresh ==
    /\ \A i, j \in 1..Len(to_wake) : to_wake[i] = to_wake[j] => i = j
    /\ \A i \in 1..Len(to_wake) :
          LET c == to_wake[i] IN
          /\ ~unparked[c]
          /\ \A d \in Calls : ~Storing(d, c)
          /\ Waiting(c)

LocalsOK ==
    \A c \in Calls :
        /\ pc[c] \in {"start", "push"} => ~unparked[c]
        /\ token[c] => unparked[c]
        /\ release[c] => pc[c] \in {"recheck", "takeown", "panicked"}
        /\ pc[c] = "takeown" => unparked[c]
        /\ pc[c] \in {"store", "wake", "take"} => w[c] \in Calls
        /\ pc[c] = "store" => ~unparked[w[c]] /\ Waiting(w[c])
        /\ pc[c] \in {"wake", "take"} => unparked[w[c]]
        /\ pc[c] \in {"pop", "store", "sub"} /\ then[c] = "park" => ~unparked[c]
        /\ pc[c] \in {"setrel", "recheck", "takeown"} => then[c] = "panicked"
        /\ pc[c] \in {"park", "start", "push", "add", "check"} =>
              w[c] = NoCall /\ then[c] = "park"
        /\ pc[c] \in {"recheck", "takeown", "panicked", "setrel"} => w[c] = NoCall
        /\ pc[c] = "sub" /\ w[c] = NoCall => then[c] # "park"
        /\ pc[c] = "sub" /\ w[c] # NoCall =>
              unparked[w[c]] /\ ~release[w[c]]
              /\ pc[w[c]] \in {"recheck", "takeown", "panicked"}

\* only coroutines are canceled
CancelOK ==
    \A c \in Calls : canceled[c] \/ pc[c] = "check" => c \in Coroutines

IInv ==
    /\ TypeOK /\ OnePermit /\ LockNotLost
    /\ CntIsCounted /\ NoBlockerLost /\ QueueFresh /\ LocalsOK
    /\ CancelOK

-----------------------------------------------------------------------------
(* Liveness                                                                 *)

GuardsDropped == \A d \in Calls : []<>(pc[d] # "hold")

\* If holders drop their guards, a lock() that went to the slow path ends: it
\* gets the lock or, if it can be canceled, unwinds, whatever the interleaving
\* of other calls and cancels.
LockCompletes ==
    GuardsDropped =>
        \A c \in Calls :
            []<>(\/ pc[c] \in {"start", "hold", "done"}
                 \/ pc[c] = "panicked" /\ c \in Coroutines \ Shielded)

\* "the wait is cancellable" (lock()): a canceled waiter gets out even when
\* the holder never drops its guard.
CancelCompletes ==
    \A c \in Coroutines \ Shielded :
        []<>(pc[c] \in {"park", "check", "setrel", "recheck", "takeown"} => ~canceled[c])

-----------------------------------------------------------------------------
(* What a lock promises (AbstractLock), and how a call's progress maps to it *)

leaving(c) ==
    \/ pc[c] \in {"setrel", "recheck", "takeown", "done", "panicked"}
    \/ pc[c] \in {"sub", "pop", "store", "wake", "take"} /\ then[c] # "park"

statusOf(c) == IF pc[c] = "start" THEN "idle"
               ELSE IF pc[c] = "hold" THEN "holding"
               ELSE IF leaving(c) THEN "gone" ELSE "waiting"

status == [c \in Calls |-> statusOf(c)]

Lock == INSTANCE AbstractLock
            WITH Users <- Calls, Cancellable <- Coroutines \ Shielded

\* The mutex implements the abstract lock.
ImplementsLock == Lock!Spec
=============================================================================
