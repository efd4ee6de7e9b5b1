------------------------------- MODULE RwLock -------------------------------
(***************************************************************************)
(* may::sync::RwLock (src/src/sync/rwlock.rs): a global lock of the same   *)
(* construction as Mutex, and the reader count under the Mutex rlock,      *)
(* which is taken here as the abstract lock that Mutex.tla implements.     *)
(* Every call is one read(), try_read(), write() or try_write() and the    *)
(* drop of the guard it returned.                                          *)
(***************************************************************************)
EXTENDS SyncBlocker, FiniteSets

CONSTANTS Calls, Readers,   \* the calls that read; the others write
          Tries,            \* try_read() and try_write() calls
          Cancelable,       \* calls whose coroutine can be canceled
          None

VARIABLES cnt, to_wake,     \* the global lock
          rlock,            \* holder of the Mutex around the reader count
          readers,          \* the reader count
          then              \* where a hand-off of the global lock continues

vars == <<pc, n, unparked, release, token, w, cnt, to_wake, rlock, readers, then>>

blocker == <<n, unparked, release, token, w>>
global == <<blocker, cnt, to_wake, then>>

\* RwLock::new
Init ==
    /\ pc = [c \in Calls |-> "start"]
    /\ n = [c \in Calls |-> 0]
    /\ unparked = {} /\ release = {} /\ token = {}
    /\ w = [c \in Calls |-> None]
    /\ cnt = 0
    /\ to_wake = <<>>
    /\ rlock = None
    /\ readers = 0
    /\ then = [c \in Calls |-> "none"]

-----------------------------------------------------------------------------
(* The global lock: "try" to "locked", or to "refused" (try_lock) or       *)
(* "left" (canceled)                                                       *)

try_lock(c) ==
    /\ \/ cnt = 0 /\ cnt' = 1 /\ Step(c, "try", "locked")
       \/ cnt # 0 /\ cnt' = cnt /\ Step(c, "try", IF c \in Tries THEN "refused" ELSE "push")
    /\ UNCHANGED <<blocker, to_wake, then, rlock, readers>>

\* the blocker is queued, then counted; the first to count pops a waiter
lock(c) ==
    /\ \/ /\ Step(c, "push", "add")
          /\ to_wake' = Append(to_wake, Cur(c))
          /\ UNCHANGED <<cnt, then>>
       \/ /\ Step(c, "add", IF cnt = 0 THEN "pop" ELSE "park")
          /\ cnt' = cnt + 1
          /\ then' = [then EXCEPT ![c] = "park"]
          /\ to_wake' = to_wake
    /\ UNCHANGED <<blocker, rlock, readers>>

park_ok(c) ==
    /\ Cur(c) \in token
    /\ Step(c, "park", "locked")
    /\ token' = token \ {Cur(c)}
    /\ UNCHANGED <<n, unparked, release, w, cnt, to_wake, then, rlock, readers>>

park_canceled(c) ==
    /\ c \in Cancelable
    /\ Step(c, "park", "check")
    /\ token' = token \ {Cur(c)}
    /\ then' = [then EXCEPT ![c] = "left"]
    /\ UNCHANGED <<n, unparked, release, w, cnt, to_wake, rlock, readers>>

lock_leave(c) ==
    /\ Leave(c, "sub", "left")
    /\ UNCHANGED <<n, unparked, token, w, cnt, to_wake, then, rlock, readers>>

\* unlock: fetch_sub, and the hand-off chain over waiters that left
unlock(c) ==
    /\ \/ /\ Step(c, "sub", IF cnt > 1 THEN "pop" ELSE then[c])
          /\ cnt' = cnt - 1
          /\ UNCHANGED <<blocker, to_wake>>
       \/ /\ to_wake # <<>>
          /\ Step(c, "pop", "store")
          /\ w' = [w EXCEPT ![c] = Head(to_wake)]
          /\ to_wake' = Tail(to_wake)
          /\ UNCHANGED <<n, unparked, release, token, cnt>>
       \/ Unpark(c, "take") /\ UNCHANGED <<n, release, w, cnt, to_wake>>
       \/ TakeRelease(c, "sub", then[c]) /\ UNCHANGED <<n, unparked, token, w, cnt, to_wake>>
    /\ UNCHANGED <<then, rlock, readers>>

-----------------------------------------------------------------------------
(* Readers: rlock is held from the look at the count to its change         *)

\* mutant of read: every reader takes the global lock, not just the first
read_always(c) ==
    /\ c \in Readers
    /\ rlock = None
    /\ Step(c, "start", "try")
    /\ rlock' = c
    /\ UNCHANGED <<global, readers>>

read(c) ==
    /\ c \in Readers
    /\ rlock = None
    /\ \/ readers > 0 /\ Step(c, "start", "reading") /\ readers' = readers + 1 /\ rlock' = rlock
       \/ readers = 0 /\ Step(c, "start", "try") /\ rlock' = c /\ UNCHANGED readers
    /\ UNCHANGED global

\* rlock is taken: a try_read() gives up, a read() can be canceled waiting for it
read_rlock_busy(c) ==
    /\ c \in Readers
    /\ rlock # None
    /\ \/ c \in Tries /\ Step(c, "start", "done")
       \/ c \in Cancelable \ Tries /\ Step(c, "start", "canceled")
    /\ UNCHANGED <<global, rlock, readers>>

read_locked(c) ==
    /\ c \in Readers
    /\ Step(c, "locked", "reading")
    /\ readers' = readers + 1
    /\ rlock' = None
    /\ UNCHANGED global

\* mutant of read_failed: the guard of rlock is forgotten and nothing else
read_failed_keep(c) ==
    /\ c \in Readers
    /\ \/ Step(c, "refused", "done") /\ rlock' = None
       \/ Step(c, "left", "canceled") /\ rlock' = rlock
    /\ UNCHANGED <<global, readers>>

\* the guard of rlock is dropped, or forgotten and the mutex unlocked
read_failed(c) ==
    /\ c \in Readers
    /\ Step(c, "refused", "done") \/ Step(c, "left", "canceled")
    /\ rlock' = None
    /\ UNCHANGED <<global, readers>>

\* the last guard gives the global lock back while it holds rlock
read_unlock(c) ==
    /\ \/ /\ rlock = None
          /\ Step(c, "reading", IF readers = 1 THEN "sub" ELSE "done")
          /\ readers' = readers - 1
          /\ then' = [then EXCEPT ![c] = "read_done"]
          /\ rlock' = IF readers = 1 THEN c ELSE None
       \/ /\ Step(c, "read_done", "done")
          /\ rlock' = None
          /\ UNCHANGED <<then, readers>>
    /\ UNCHANGED <<blocker, cnt, to_wake>>

-----------------------------------------------------------------------------
(* Writers                                                                 *)

write(c) ==
    /\ c \notin Readers
    /\ \/ Step(c, "start", "try")
       \/ Step(c, "locked", "writing")
       \/ Step(c, "refused", "done")
       \/ Step(c, "left", "canceled")
    /\ UNCHANGED <<global, rlock, readers>>

write_unlock(c) ==
    /\ Step(c, "writing", "sub")
    /\ then' = [then EXCEPT ![c] = "done"]
    /\ UNCHANGED <<blocker, cnt, to_wake, rlock, readers>>

-----------------------------------------------------------------------------

Run(c) ==
    \/ try_lock(c) \/ lock(c) \/ park_ok(c) \/ lock_leave(c) \/ unlock(c)
    \/ read(c) \/ read_locked(c) \/ read_failed(c) \/ read_unlock(c)
    \/ write(c) \/ write_unlock(c)

\* every call has ended or waits
Quiet ==
    /\ \A c \in Calls : pc[c] \in {"done", "canceled", "park", "start", "reading"}
    /\ UNCHANGED vars

Next ==
    \/ \E c \in Calls : Run(c) \/ park_canceled(c) \/ read_rlock_busy(c)
    \/ Quiet

\* calls run on and guards are dropped; with one use of the lock per call
\* nobody can be overtaken for ever at rlock
Fairness == \A c \in Calls : WF_vars(Run(c))

Spec == Init /\ [][Next]_vars /\ Fairness

-----------------------------------------------------------------------------

\* A writer excludes every reader and every other writer.
RwExclusion ==
    \A c, d \in Calls : c # d /\ pc[c] = "writing" => pc[d] \notin {"reading", "writing"}

\* expect("got null blocker!"): whoever pops finds a registered waiter.
RwNoNullBlocker == \A c \in Calls : pc[c] = "pop" => to_wake # <<>>

\* "a reader can only wait for the global lock after seeing *r == 0, i.e.
\* while no read guard exists" (try_lock_rlock): so a guard that is dropped
\* in an unwind finds rlock held for a few instructions only.
NoParkUnderGuards ==
    \A c, d \in Calls : rlock = c /\ pc[c] = "park" => pc[d] # "reading"

\* The lock excludes, hands over to somebody who is there, and does not keep
\* a guard from being dropped.
RwSafe == RwExclusion /\ RwNoNullBlocker /\ NoParkUnderGuards

\* Every call is served or canceled: neither the global lock nor rlock, which
\* every later reader needs, is lost in a hand-off or with a canceled reader.
RwCompletes == \A c \in Calls : <>(pc[c] \in {"done", "canceled"})
=============================================================================
