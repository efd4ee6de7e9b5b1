------------------------------- MODULE Poison -------------------------------
(***************************************************************************)
(* Lock poisoning and the cancel panic (src/src/sync/poison.rs and         *)
(* cancel.rs).  A coroutine is canceled by a panic; its unwind may be      *)
(* suspended by a Drop that parks, and `thread::panicking()` then stays    *)
(* true for the other coroutines that run on the thread.  The thread-local *)
(* CANCEL_PANICKING tells this from a panic.                               *)
(*                                                                         *)
(* Each coroutine locks a lock of its own, and then unlocks it, panics or  *)
(* is canceled, suspended at any point in between.                         *)
(***************************************************************************)
EXTENDS Integers

CONSTANTS Cos, Threads, None

VARIABLES
  at,          \* the thread that runs the coroutine, or None
  pc,
  cause,       \* why it unwinds
  canceled,    \* CancelImpl::is_canceled
  guard,       \* poison::Guard::panicking of its lock guard
  failed,      \* poison::Flag::failed of its lock
  CANCEL_PANICKING,
  local, global, \* the panic counts of std, per thread and in the process
  masked         \* masked[c]: history, a panic of c that began during another
                 \* unwind on the thread, or that met a cancel panic there

\* poison::Flag and Guard, the thread-local flag, the panic counts of std
vars == <<at, pc, cause, canceled, guard, failed, CANCEL_PANICKING, local, global, masked>>

Init ==
  /\ at = [c \in Cos |-> None]
  /\ pc = [c \in Cos |-> "start"]
  /\ cause = [c \in Cos |-> "none"]
  /\ canceled = [c \in Cos |-> FALSE]
  /\ guard = [c \in Cos |-> FALSE]
  /\ failed = [c \in Cos |-> FALSE]
  /\ CANCEL_PANICKING = [t \in Threads |-> FALSE]
  /\ local = [t \in Threads |-> 0]
  /\ global = 0
  /\ masked = [c \in Cos |-> FALSE]

\* std::thread::panicking
panicking(t) == global # 0 /\ local[t] # 0

\* std counts a panic where it begins and where it is caught
Count(t, d) ==
  /\ local' = [local EXCEPT ![t] = @ + d]
  /\ global' = global + d

\* a thread takes the coroutine up, or the coroutine suspends
resume(c, t) ==
  /\ at[c] = None /\ pc[c] # "gone"
  /\ \A d \in Cos : at[d] # t
  /\ at' = [at EXCEPT ![c] = t]
  /\ UNCHANGED <<pc, cause, canceled, guard, failed, CANCEL_PANICKING, local, global, masked>>

suspend(c) ==
  /\ at[c] # None /\ pc[c] \in {"locked", "unwind", "dropped"}
  /\ at' = [at EXCEPT ![c] = None]
  /\ UNCHANGED <<pc, cause, canceled, guard, failed, CANCEL_PANICKING, local, global, masked>>

cancel(c) ==
  /\ pc[c] \in {"start", "locked", "unwind"} /\ ~canceled[c]
  /\ canceled' = [canceled EXCEPT ![c] = TRUE]
  /\ UNCHANGED <<at, pc, cause, guard, failed, CANCEL_PANICKING, local, global, masked>>

\* Flag::borrow, of a lock or a read or write call
borrow(c) ==
  /\ at[c] # None /\ pc[c] = "start"
  /\ pc' = [pc EXCEPT ![c] = "locked"]
  /\ guard' = [guard EXCEPT ![c] = panicking(at[c])]
  /\ UNCHANGED <<at, cause, canceled, failed, CANCEL_PANICKING, local, global, masked>>

-----------------------------------------------------------------------------
\* Flag::done, when the guard is dropped
done(c, to) ==
  /\ pc' = [pc EXCEPT ![c] = to]
  /\ failed' = [failed EXCEPT
       ![c] = @ \/ (/\ ~guard[c]
                    /\ panicking(at[c]) /\ ~CANCEL_PANICKING[at[c]]
                    /\ ~canceled[c])]
  /\ UNCHANGED <<at, cause, canceled, guard, CANCEL_PANICKING, local, global, masked>>

unlock(c) == at[c] # None /\ pc[c] = "locked" /\ done(c, "end")

drop_guard(c) == at[c] # None /\ pc[c] = "unwind" /\ done(c, "dropped")

\* an unwind begins
Panic(c, why) ==
  /\ pc' = [pc EXCEPT ![c] = "unwind"]
  /\ cause' = [cause EXCEPT ![c] = why]
  /\ Count(at[c], 1)
  /\ UNCHANGED <<at, canceled, guard, failed>>

panic(c) ==
  /\ at[c] # None /\ pc[c] = "locked"
  /\ Panic(c, "panic")
  /\ masked' = [masked EXCEPT ![c] = local[at[c]] # 0]
  /\ UNCHANGED CANCEL_PANICKING

trigger_cancel_panic(c) ==
  /\ CANCEL_PANICKING' = [CANCEL_PANICKING EXCEPT ![at[c]] = TRUE]
  /\ Panic(c, "cancel")
  /\ masked' = [d \in Cos |-> masked[d] \/ pc[d] = "unwind"]

\* check_cancel, after a suspension: not while the thread is panicking
check_cancel(c) ==
  /\ at[c] # None /\ pc[c] = "locked" /\ canceled[c]
  /\ ~panicking(at[c])
  /\ trigger_cancel_panic(c)

\* the blocking calls trigger it without asking
lock_canceled(c) ==
  /\ at[c] # None /\ pc[c] = "locked" /\ canceled[c]
  /\ panicking(at[c])
  /\ trigger_cancel_panic(c)

\* mutant of run_coroutine: every completion clears the flag
run_coroutine_clears(c) ==
  /\ at[c] # None /\ pc[c] \in {"end", "dropped"}
  /\ Count(at[c], IF pc[c] = "end" THEN 0 ELSE -1)
  /\ CANCEL_PANICKING' = [CANCEL_PANICKING EXCEPT ![at[c]] = FALSE]
  /\ pc' = [pc EXCEPT ![c] = "gone"]
  /\ at' = [at EXCEPT ![c] = None]
  /\ UNCHANGED <<cause, canceled, guard, failed, masked>>

\* the coroutine completes; its unwind is caught at the generator boundary,
\* and the flag goes unless the thread is still panicking
run_coroutine(c) ==
  /\ at[c] # None /\ pc[c] \in {"end", "dropped"}
  /\ Count(at[c], IF pc[c] = "end" THEN 0 ELSE -1)
  /\ CANCEL_PANICKING' =
       IF global' # 0 /\ local'[at[c]] # 0
       THEN CANCEL_PANICKING
       ELSE [CANCEL_PANICKING EXCEPT ![at[c]] = FALSE]
  /\ pc' = [pc EXCEPT ![c] = "gone"]
  /\ at' = [at EXCEPT ![c] = None]
  /\ UNCHANGED <<cause, canceled, guard, failed, masked>>

Run(c) ==
  \/ \E t \in Threads : resume(c, t)
  \/ suspend(c) \/ cancel(c) \/ borrow(c) \/ unlock(c) \/ panic(c)
  \/ check_cancel(c) \/ lock_canceled(c) \/ drop_guard(c) \/ run_coroutine(c)

Quiet == (\A c \in Cos : pc[c] = "gone") /\ UNCHANGED vars

Next == (\E c \in Cos : Run(c)) \/ Quiet

Spec == Init /\ [][Next]_vars

-----------------------------------------------------------------------------
(* poison::done: as long as there are only cancel panics no lock is        *)
(* poisoned, neither the lock of the canceled coroutine nor one whose      *)
(* guard another coroutine drops while the unwind is suspended.            *)
NoSpuriousPoison ==
  (\A c \in Cos : cause[c] # "panic") => \A c \in Cos : ~failed[c]

(* run_coroutine clears CANCEL_PANICKING: it does not outlive the unwinds  *)
(* on the thread, after which a panic would go unnoticed by every lock.    *)
FlagEnds == \A t \in Threads : CANCEL_PANICKING[t] => local[t] # 0

(* poison::done: a panic poisons the lock whose guard it drops, however    *)
(* many cancel unwinds the thread has seen before.  The exceptions are the *)
(* code's: the coroutine is canceled, it took the lock while the thread    *)
(* was unwinding, or its own unwind overlaps a cancel panic of another     *)
(* coroutine (a panic in another's unwind may meet the flag of a third).   *)
PanicPoisons ==
  \A c \in Cos :
    /\ cause[c] = "panic" /\ pc[c] \in {"dropped", "gone"}
    /\ ~canceled[c] /\ ~guard[c] /\ ~masked[c]
    => failed[c]

(* A lock is poisoned by a panic that has the thread to itself, and not by *)
(* cancels; the flag that tells them apart ends with the unwinds.          *)
PoisonSafe == NoSpuriousPoison /\ FlagEnds /\ PanicPoisons
=============================================================================
