-------------------------------- MODULE Park --------------------------------
(***************************************************************************)
(* How a coroutine blocks and is resumed: Park (src/src/park.rs), the      *)
(* DelayDrop guard of its subscribe (src/src/sync/delay_drop.rs),          *)
(* yield_with (src/src/yield_now.rs), the coroutine's Cancel data          *)
(* (src/src/cancel.rs) and the timer handler of the scheduler.             *)
(*                                                                         *)
(* One coroutine parks on several Park instances, one call after another.  *)
(* Around it run, each on a thread of its own: the wakers, which hold an   *)
(* Arc of the Park they unpark; the timer thread; cancelers; and the       *)
(* subscribe code ("kernel") of every Park, which goes on running on the   *)
(* thread the coroutine yielded from after another thread has resumed the  *)
(* coroutine.  A kernel that finds the token set resumes the coroutine     *)
(* itself, on top of its own stack frame (fast_wake_up).                   *)
(***************************************************************************)
EXTENDS Naturals, FiniteSets

CONSTANTS Parks,         \* the Park instances the coroutine uses
          Wakers,        \* unparking threads
          Target,        \* the Park each waker unparks
          IgnoreCancel,  \* the Parks with ignore_cancel(true)
          Shield,        \* the coroutine has disabled its cancel
          OtherUnwinds,  \* another panic may be unwinding on its thread
          Timeouts,      \* the choices of a timeout: subset of BOOLEAN
          MaxCalls,      \* bound on park calls
          MaxCancels,    \* bound on cancel() calls
          NoPark,        \* a null Park
          Co             \* the coroutine as an owner of Arcs

ASSUME ParkAssumption ==
    /\ Target \in [Wakers -> Parks]
    /\ IgnoreCancel \subseteq Parks
    /\ Shield \in BOOLEAN
    /\ OtherUnwinds \in BOOLEAN
    /\ Timeouts \subseteq BOOLEAN
    /\ MaxCalls \in Nat
    /\ MaxCancels \in Nat
    /\ NoPark \notin Parks
    /\ Co \notin Wakers

VARIABLES
    \* the coroutine
    loc,        \* where its CoroutineImpl is; "slot" is wait_co of cur
    pc,         \* its next step
    cur,        \* self of its current park or drop
    timed,      \* dur of the current park_timeout is Some
    para,       \* the generator's para: why it was resumed
    ret,        \* what the last park_timeout returned
    panicking,  \* it unwinds from the cancel panic
    calls,      \* park calls made
    host,       \* the kernel beneath it on its stack, after fast_wake_up
    \* each Park
    token,      \* Park.state
    canDrop,    \* DelayDrop.can_drop = 2
    armed,      \* timeout_handle is set and its entry is linked
    stale,      \* entries del_timer has not removed from the list yet
    refs,       \* owners of an Arc of the Park
    freed,      \* its memory has been released
    kpc,        \* next step of its subscribe
    kreg,       \* what that kernel's cancel() took from Cancel.co
    under,      \* the kernel beneath that kernel on the same stack
    \* its Cancel data and the other threads
    canceled,   \* bit 0 of Cancel.state
    cancelCo,   \* Cancel.co: the Park whose wait_co is registered
    cpc,        \* the canceler's next step
    creg,       \* what it took from Cancel.co
    cancels,    \* cancel() calls made
    wpc         \* next step of each waker

coVars     == <<pc, cur, timed, ret, panicking, calls>>
placeVars  == <<loc, para, host>>
parkVars   == <<token, canDrop, armed, stale>>
memVars    == <<refs, freed>>
kernelVars == <<kpc, kreg, under>>
cancelVars == <<canceled, cancelCo>>
threadVars == <<cpc, creg, cancels, wpc>>
vars == <<coVars, placeVars, parkVars, memVars, kernelVars, cancelVars, threadVars>>

TypeOK ==
    /\ loc \in {"run", "ready", "kernel", "slot", "dead"}
    /\ pc \in {"user", "wait", "yield", "back", "clear", "result", "drop",
              "wait_back", "drop_back"}
    /\ cur \in Parks \cup {NoPark}
    /\ timed \in BOOLEAN /\ panicking \in BOOLEAN
    /\ para \in {"none", "timeout", "canceled"}
    /\ ret \in {"none", "ok", "timeout", "canceled"}
    /\ calls \in 0..MaxCalls
    /\ host \in Parks \cup {NoPark}
    /\ token \in [Parks -> BOOLEAN] /\ canDrop \in [Parks -> BOOLEAN]
    /\ armed \in [Parks -> BOOLEAN] /\ stale \in [Parks -> 0..MaxCalls]
    /\ refs \in [Parks -> SUBSET (Wakers \cup {Co})]
    /\ freed \in [Parks -> BOOLEAN]
    /\ kpc \in [Parks -> {"idle", "arm", "delay", "store", "check", "fast", "nested",
                          "setco", "recheck", "ctake", "cslot", "guard"}]
    /\ kreg \in [Parks -> Parks \cup {NoPark}]
    /\ under \in [Parks -> Parks \cup {NoPark}]
    /\ canceled \in BOOLEAN /\ cancelCo \in Parks \cup {NoPark}
    /\ cpc \in {"idle", "take", "slot"} /\ creg \in Parks \cup {NoPark}
    /\ cancels \in 0..MaxCancels
    /\ wpc \in [Wakers -> {"start", "take", "release", "drop", "done"}]

Init ==
    /\ loc = "run" /\ pc = "user" /\ cur = NoPark /\ timed = FALSE
    /\ para = "none" /\ ret = "none" /\ panicking = FALSE /\ calls = 0
    /\ host = NoPark
    /\ token = [p \in Parks |-> FALSE]
    /\ canDrop = [p \in Parks |-> FALSE]
    /\ armed = [p \in Parks |-> FALSE]
    /\ stale = [p \in Parks |-> 0]
    /\ refs = [p \in Parks |-> {Co} \cup {v \in Wakers : Target[v] = p}]
    /\ freed = [p \in Parks |-> FALSE]
    /\ kpc = [p \in Parks |-> "idle"]
    /\ kreg = [p \in Parks |-> NoPark]
    /\ under = [p \in Parks |-> NoPark]
    /\ canceled = FALSE /\ cancelCo = NoPark
    /\ cpc = "idle" /\ creg = NoPark /\ cancels = 0
    /\ wpc = [v \in Wakers |-> "start"]

is_canceled == canceled /\ ~Shield

\* thread::panicking() can be true: the coroutine unwinds, or another panic does
\* on its thread, that of a coroutine suspended in its unwind for instance
thread_panicking == panicking \/ OtherUnwinds

\* a cancel is noticed, and starts the cancel panic unless the thread is
\* panicking
CancelPanics == is_canceled /\ ~panicking
CancelPasses == is_canceled /\ thread_panicking

\* wait_co.take() on p would return the coroutine
InSlot(p) == loc = "slot" /\ cur = p

Owns(p) == Co \in refs[p]

-----------------------------------------------------------------------------
(* The coroutine, in user space                                            *)

\* park_timeout: check_park consumes a token that is there already
park_token(p) ==
    /\ loc = "run" /\ pc = "user"
    /\ Owns(p) /\ calls < MaxCalls
    /\ token[p]
    /\ token' = [token EXCEPT ![p] = FALSE]
    /\ calls' = calls + 1
    /\ ret' = "ok"
    /\ cur' = p
    /\ UNCHANGED <<pc, timed, panicking, placeVars, canDrop, armed, stale,
                   memVars, kernelVars, cancelVars, threadVars>>

\* park_timeout: no token, so the call goes on to can_drop.wait()
park_begin(p, t) ==
    /\ loc = "run" /\ pc = "user"
    /\ Owns(p) /\ calls < MaxCalls
    /\ ~token[p]
    /\ calls' = calls + 1
    /\ cur' = p /\ timed' = t /\ ret' = "none"
    /\ pc' = "wait"
    /\ UNCHANGED <<panicking, placeVars, parkVars, memVars, kernelVars,
                   cancelVars, threadVars>>

\* the kernel under the coroutine, if any, gets its thread back
ReturnToHost == kpc' = IF host = NoPark THEN kpc ELSE [kpc EXCEPT ![host] = "guard"]

\* yield_now() in DelayDrop::wait when it does yield: back to the ready queue
yield_now ==
    /\ ~is_canceled
    /\ loc' = "ready"
    /\ host' = NoPark
    /\ ReturnToHost
    /\ UNCHANGED <<para, kreg, under>>

\* can_drop.wait(): spin over yield_now until the previous kernel is done.  A
\* canceled coroutine is not switched out by yield_with: it panics instead, or
\* goes on spinning if the thread is panicking.
park_wait ==
    /\ loc = "run" /\ pc = "wait"
    /\ \/ /\ ~canDrop[cur]
          /\ pc' = "yield"
          /\ UNCHANGED <<panicking, placeVars, kernelVars>>
       \/ /\ canDrop[cur] /\ CancelPanics
          /\ pc' = "user" /\ panicking' = TRUE
          /\ UNCHANGED <<placeVars, kernelVars>>
       \/ /\ canDrop[cur] /\ CancelPasses
          /\ UNCHANGED <<pc, panicking, placeVars, kernelVars>>
       \/ /\ canDrop[cur]
          /\ yield_now
          /\ pc' = "wait_back"
          /\ UNCHANGED panicking
    /\ UNCHANGED <<cur, timed, ret, calls, parkVars, memVars, cancelVars, threadVars>>

\* yield_with(self): a cancel detected in user space sets the para and goes
\* straight to yield_back; otherwise the coroutine switches to the kernel
park_yield ==
    /\ loc = "run" /\ pc = "yield"
    /\ pc' = "back"
    /\ \/ /\ is_canceled
          /\ para' = "canceled"
          /\ UNCHANGED <<loc, host, kernelVars>>
       \/ /\ ~is_canceled
          /\ loc' = "kernel"
          /\ kpc' = [kpc EXCEPT ![cur] = "arm"]
          /\ under' = [under EXCEPT ![cur] = host]
          /\ host' = NoPark
          /\ UNCHANGED <<para, kreg>>
    /\ UNCHANGED <<cur, timed, ret, panicking, calls, parkVars, memVars,
                   cancelVars, threadVars>>

\* Park::yield_back, after the switch back: unless the Park ignores cancels,
\* check_cancel clears the para and panics, or returns on a panicking thread
park_yield_back ==
    /\ loc = "run" /\ pc = "back"
    /\ \/ /\ is_canceled /\ cur \notin IgnoreCancel
          /\ para' = "none"
          /\ \/ CancelPanics /\ pc' = "user" /\ panicking' = TRUE
             \/ CancelPasses /\ pc' = "clear" /\ UNCHANGED panicking
       \/ /\ ~(is_canceled /\ cur \notin IgnoreCancel)
          /\ pc' = "clear"
          /\ UNCHANGED <<para, panicking>>
    /\ UNCHANGED <<cur, timed, ret, calls, loc, host, parkVars, memVars, kernelVars,
                   cancelVars, threadVars>>

\* the second check_park of park_timeout
park_clear ==
    /\ loc = "run" /\ pc = "clear"
    /\ token' = [token EXCEPT ![cur] = FALSE]
    /\ pc' = "result"
    /\ UNCHANGED <<cur, timed, ret, panicking, calls, placeVars, canDrop, armed,
                   stale, memVars, kernelVars, cancelVars, threadVars>>

\* remove_timeout_handle: a linked entry is handed to the timer thread for
\* deletion; then the para decides the result
park_result ==
    /\ loc = "run" /\ pc = "result"
    /\ armed' = [armed EXCEPT ![cur] = FALSE]
    /\ stale' = [stale EXCEPT ![cur] = IF armed[cur] THEN @ + 1 ELSE @]
    /\ ret' = IF para = "none" THEN "ok" ELSE para
    /\ para' = "none"
    /\ pc' = "user"
    /\ UNCHANGED <<cur, timed, panicking, calls, loc, host, token, canDrop, memVars,
                   kernelVars, cancelVars, threadVars>>

\* the coroutine drops its Arc of p; the last owner runs Park::drop
drop_ref(p) ==
    /\ loc = "run" /\ pc = "user" /\ Owns(p)
    /\ refs' = [refs EXCEPT ![p] = @ \ {Co}]
    /\ cur' = p
    /\ ret' = "none"
    /\ pc' = IF refs[p] = {Co} THEN "drop" ELSE "user"
    /\ UNCHANGED <<timed, panicking, calls, placeVars, parkVars, freed,
                   kernelVars, cancelVars, threadVars>>

\* mutant of drop_wait: Park::drop does not wait for the kernel
drop_no_wait ==
    /\ loc = "run" /\ pc = "drop"
    /\ \/ /\ (canDrop[cur] \/ ~canDrop[cur])
          /\ freed' = [freed EXCEPT ![cur] = TRUE]
          /\ pc' = "user"
          /\ UNCHANGED <<panicking, placeVars, kernelVars>>
       \/ /\ canDrop[cur] /\ is_canceled
          /\ \/ CancelPanics /\ panicking' = TRUE
             \/ CancelPasses /\ UNCHANGED panicking
          /\ UNCHANGED <<pc, freed, placeVars, kernelVars>>
       \/ /\ canDrop[cur]
          /\ yield_now
          /\ pc' = "drop_back"
          /\ UNCHANGED <<freed, panicking>>
    /\ UNCHANGED <<cur, timed, ret, calls, parkVars, refs, cancelVars, threadVars>>

\* Park::drop: can_drop.wait() over yield_now.  For a canceled coroutine
\* yield_now panics once (the drop of the DelayDrop field then waits in the
\* same way); on a panicking thread it returns at once, without leaving it.
drop_wait ==
    /\ loc = "run" /\ pc = "drop"
    /\ \/ /\ ~canDrop[cur]
          /\ freed' = [freed EXCEPT ![cur] = TRUE]
          /\ pc' = "user"
          /\ UNCHANGED <<panicking, placeVars, kernelVars>>
       \/ /\ canDrop[cur] /\ is_canceled
          /\ \/ CancelPanics /\ panicking' = TRUE
             \/ CancelPasses /\ UNCHANGED panicking
          /\ UNCHANGED <<pc, freed, placeVars, kernelVars>>
       \/ /\ canDrop[cur]
          /\ yield_now
          /\ pc' = "drop_back"
          /\ UNCHANGED <<freed, panicking>>
    /\ UNCHANGED <<cur, timed, ret, calls, parkVars, refs, cancelVars, threadVars>>

\* EventSource::yield_back of yield_now, after the switch back: check_cancel
\* panics unless the thread is panicking already
yield_now_back ==
    /\ loc = "run" /\ pc \in {"wait_back", "drop_back"}
    /\ \/ /\ CancelPanics /\ panicking' = TRUE
          /\ pc' = IF pc = "drop_back" THEN "drop" ELSE "user"
       \/ /\ ~is_canceled \/ CancelPasses
          /\ UNCHANGED panicking
          /\ pc' = IF pc = "drop_back" THEN "drop" ELSE "wait"
    /\ UNCHANGED <<cur, timed, ret, calls, placeVars, parkVars, memVars, kernelVars,
                   cancelVars, threadVars>>

\* the coroutine's closure returns, or its unwind completes: run_coroutine
\* drops the coroutine and its local data
finish ==
    /\ loc = "run" /\ pc = "user"
    /\ \A p \in Parks : ~Owns(p)
    /\ loc' = "dead"
    /\ host' = NoPark
    /\ ReturnToHost
    /\ UNCHANGED <<coVars, para, parkVars, memVars, kreg, under, cancelVars, threadVars>>

\* a worker takes the coroutine from its ready queue
run_ready ==
    /\ loc = "ready"
    /\ loc' = "run"
    /\ UNCHANGED <<coVars, para, host, parkVars, memVars, kernelVars, cancelVars,
                   threadVars>>

-----------------------------------------------------------------------------
(* Park::subscribe, the kernel of p                                        *)

Kernel(p, from, to) == kpc[p] = from /\ kpc' = [kpc EXCEPT ![p] = to]

\* add_timer(dur, wait_co), then set_timeout_handle
subscribe_timer(p) ==
    /\ Kernel(p, "arm", "delay")
    /\ armed' = [armed EXCEPT ![p] = timed]
    /\ UNCHANGED <<coVars, placeVars, token, canDrop, stale, memVars, kreg, under,
                   cancelVars, threadVars>>

\* self.delay_drop()
subscribe_delay_drop(p) ==
    /\ Kernel(p, "delay", "store")
    /\ canDrop' = [canDrop EXCEPT ![p] = TRUE]
    /\ UNCHANGED <<coVars, placeVars, token, armed, stale, memVars, kreg, under,
                   cancelVars, threadVars>>

\* wait_co.store(co): from here on other threads can resume the coroutine
subscribe_store(p) ==
    /\ Kernel(p, "store", "check")
    /\ loc' = "slot"
    /\ UNCHANGED <<coVars, para, host, parkVars, memVars, kreg, under, cancelVars,
                   threadVars>>

\* mutant of subscribe_check_state: the state is not re-checked after the store
subscribe_no_check(p) ==
    /\ Kernel(p, "check", "setco")
    /\ UNCHANGED <<coVars, placeVars, parkVars, memVars, kreg, under, cancelVars,
                   threadVars>>

\* re-check the state
subscribe_check_state(p) ==
    /\ Kernel(p, "check", IF token[p] THEN "fast" ELSE "setco")
    /\ UNCHANGED <<coVars, placeVars, parkVars, memVars, kreg, under, cancelVars,
                   threadVars>>

\* fast_wake_up: run the coroutine on top of this kernel, if it is still there
fast_wake_up(p) ==
    /\ Kernel(p, "fast", IF InSlot(p) THEN "nested" ELSE "guard")
    /\ loc' = IF InSlot(p) THEN "run" ELSE loc
    /\ host' = IF InSlot(p) THEN p ELSE host
    /\ UNCHANGED <<coVars, para, parkVars, memVars, kreg, under, cancelVars, threadVars>>

\* cancel.set_co(wait_co)
subscribe_set_co(p) ==
    /\ Kernel(p, "setco", "recheck")
    /\ cancelCo' = p
    /\ UNCHANGED <<coVars, placeVars, parkVars, memVars, kreg, under, canceled,
                   threadVars>>

\* mutant of subscribe_check_cancel: the cancel status is not re-checked after set_co
subscribe_no_recheck(p) ==
    /\ Kernel(p, "recheck", "guard")
    /\ UNCHANGED <<coVars, placeVars, parkVars, memVars, kreg, under, cancelVars,
                   threadVars>>

\* re-check the cancel status
subscribe_check_cancel(p) ==
    /\ Kernel(p, "recheck", IF is_canceled THEN "ctake" ELSE "guard")
    /\ UNCHANGED <<coVars, placeVars, parkVars, memVars, kreg, under, cancelVars,
                   threadVars>>

\* Cancel::cancel called by subscribe: self.co.take()
subscribe_cancel_take(p) ==
    /\ Kernel(p, "ctake", IF cancelCo = NoPark THEN "guard" ELSE "cslot")
    /\ kreg' = [kreg EXCEPT ![p] = cancelCo]
    /\ cancelCo' = NoPark
    /\ UNCHANGED <<coVars, placeVars, parkVars, memVars, under, canceled, threadVars>>

\* the tail of Cancel::cancel, for the wait_co of q: take the coroutine, set
\* its para and schedule it
CancelSlot(q) ==
    /\ loc' = IF InSlot(q) THEN "ready" ELSE loc
    /\ para' = IF InSlot(q) THEN "canceled" ELSE para
    /\ UNCHANGED host

subscribe_cancel_slot(p) ==
    /\ Kernel(p, "cslot", "guard")
    /\ CancelSlot(kreg[p])
    /\ UNCHANGED <<coVars, parkVars, memVars, kreg, under, cancelVars, threadVars>>

\* mutant of subscribe_return: the DropGuard is leaked
subscribe_keep_guard(p) ==
    /\ kpc[p] = "guard"
    /\ kpc' = [q \in Parks |-> IF q = p THEN "idle"
                               ELSE IF q = under[p] THEN "guard" ELSE kpc[q]]
    /\ canDrop' = canDrop
    /\ under' = [under EXCEPT ![p] = NoPark]
    /\ kreg' = [kreg EXCEPT ![p] = NoPark]
    /\ UNCHANGED <<coVars, placeVars, token, armed, stale, memVars, cancelVars,
                   threadVars>>

\* the DropGuard is dropped and subscribe returns, to the kernel beneath if
\* there is one
subscribe_return(p) ==
    /\ kpc[p] = "guard"
    /\ kpc' = [q \in Parks |-> IF q = p THEN "idle"
                               ELSE IF q = under[p] THEN "guard" ELSE kpc[q]]
    /\ canDrop' = [canDrop EXCEPT ![p] = FALSE]
    /\ under' = [under EXCEPT ![p] = NoPark]
    /\ kreg' = [kreg EXCEPT ![p] = NoPark]
    /\ UNCHANGED <<coVars, placeVars, token, armed, stale, memVars, cancelVars,
                   threadVars>>

-----------------------------------------------------------------------------
(* The other threads                                                       *)

\* mutant of unpark_state: the result of swap taken the wrong way round
unpark_inverted(v) ==
    /\ wpc[v] = "start"
    /\ token' = [token EXCEPT ![Target[v]] = TRUE]
    /\ wpc' = [wpc EXCEPT ![v] = IF token[Target[v]] THEN "take" ELSE "release"]
    /\ UNCHANGED <<coVars, placeVars, canDrop, armed, stale, memVars, kernelVars,
                   cancelVars, cpc, creg, cancels>>

\* unpark_impl: state.swap(true); only the swap from false goes on to wake_up
unpark_state(v) ==
    /\ wpc[v] = "start"
    /\ token' = [token EXCEPT ![Target[v]] = TRUE]
    /\ wpc' = [wpc EXCEPT ![v] = IF token[Target[v]] THEN "release" ELSE "take"]
    /\ UNCHANGED <<coVars, placeVars, canDrop, armed, stale, memVars, kernelVars,
                   cancelVars, cpc, creg, cancels>>

\* wake_up: wait_co.take() and schedule
unpark_wake_up(v) ==
    /\ wpc[v] = "take"
    /\ wpc' = [wpc EXCEPT ![v] = "release"]
    /\ loc' = IF InSlot(Target[v]) THEN "ready" ELSE loc
    /\ UNCHANGED <<coVars, para, host, parkVars, memVars, kernelVars, cancelVars,
                   cpc, creg, cancels>>

\* the waker drops its Arc
waker_drop_ref(v) ==
    LET p == Target[v] IN
    /\ wpc[v] = "release"
    /\ refs' = [refs EXCEPT ![p] = @ \ {v}]
    /\ wpc' = [wpc EXCEPT ![v] = IF refs[p] = {v} THEN "drop" ELSE "done"]
    /\ UNCHANGED <<coVars, placeVars, parkVars, freed, kernelVars, cancelVars,
                   cpc, creg, cancels>>

\* Park::drop on the waker's thread: can_drop.wait() over thread::yield_now
waker_drop_wait(v) ==
    /\ wpc[v] = "drop"
    /\ ~canDrop[Target[v]]
    /\ freed' = [freed EXCEPT ![Target[v]] = TRUE]
    /\ wpc' = [wpc EXCEPT ![v] = "done"]
    /\ UNCHANGED <<coVars, placeVars, parkVars, refs, kernelVars, cancelVars,
                   cpc, creg, cancels>>

\* the timer handler: take the coroutine, set the timeout and run it on the
\* timer thread; an entry whose deletion is pending can still fire
timer_fire(p) ==
    /\ \/ /\ armed[p]
          /\ armed' = [armed EXCEPT ![p] = FALSE]
          /\ UNCHANGED stale
       \/ /\ stale[p] > 0
          /\ stale' = [stale EXCEPT ![p] = @ - 1]
          /\ UNCHANGED armed
    /\ loc' = IF InSlot(p) THEN "run" ELSE loc
    /\ para' = IF InSlot(p) THEN "timeout" ELSE para
    /\ UNCHANGED <<coVars, host, token, canDrop, memVars, kernelVars, cancelVars,
                   threadVars>>

\* the timer thread executes a pending del_timer
timer_delete(p) ==
    /\ stale[p] > 0
    /\ stale' = [stale EXCEPT ![p] = @ - 1]
    /\ UNCHANGED <<coVars, placeVars, token, canDrop, armed, memVars, kernelVars,
                   cancelVars, threadVars>>

\* Coroutine::cancel on another thread: state.fetch_or(1)
cancel_state ==
    /\ cpc = "idle" /\ cancels < MaxCancels
    /\ canceled' = TRUE
    /\ cancels' = cancels + 1
    /\ cpc' = "take"
    /\ UNCHANGED <<coVars, placeVars, parkVars, memVars, kernelVars, cancelCo, creg, wpc>>

cancel_take ==
    /\ cpc = "take"
    /\ creg' = cancelCo
    /\ cancelCo' = NoPark
    /\ cpc' = IF cancelCo = NoPark THEN "idle" ELSE "slot"
    /\ UNCHANGED <<coVars, placeVars, parkVars, memVars, kernelVars, canceled, cancels,
                   wpc>>

cancel_slot ==
    /\ cpc = "slot"
    /\ CancelSlot(creg)
    /\ creg' = NoPark
    /\ cpc' = "idle"
    /\ UNCHANGED <<coVars, parkVars, memVars, kernelVars, cancelVars, cancels, wpc>>

-----------------------------------------------------------------------------

\* the code of the coroutine after a park began, up to its return
CoStep ==
    \/ park_wait \/ park_yield \/ park_yield_back \/ park_clear \/ park_result
    \/ drop_wait \/ yield_now_back \/ run_ready

\* what the user's code chooses to do
User ==
    \/ \E p \in Parks : park_token(p) \/ drop_ref(p)
                        \/ \E t \in Timeouts : park_begin(p, t)
    \/ finish

KernelStep(p) ==
    \/ subscribe_timer(p) \/ subscribe_delay_drop(p) \/ subscribe_store(p)
    \/ subscribe_check_state(p) \/ fast_wake_up(p) \/ subscribe_set_co(p)
    \/ subscribe_check_cancel(p) \/ subscribe_cancel_take(p)
    \/ subscribe_cancel_slot(p) \/ subscribe_return(p)

UnparkStep(v) == unpark_wake_up(v) \/ waker_drop_ref(v) \/ waker_drop_wait(v)

Cancel == cancel_take \/ cancel_slot

Finished ==
    /\ \/ loc = "dead"
       \/ loc = "slot"    \* parked for good: nobody is bound to unpark it
    /\ UNCHANGED vars

Next ==
    \/ CoStep \/ User
    \/ \E p \in Parks : KernelStep(p) \/ timer_fire(p) \/ timer_delete(p)
    \/ \E v \in Wakers : unpark_state(v) \/ UnparkStep(v)
    \/ cancel_state \/ Cancel
    \/ Finished

Spec == Init /\ [][Next]_vars

\* Threads run, workers serve their ready queues, armed timers expire; nobody
\* is bound to unpark or to cancel, and user code may stop anywhere.
FairSpec ==
    /\ Spec
    /\ WF_vars(CoStep) /\ WF_vars(Cancel)
    /\ \A p \in Parks : WF_vars(KernelStep(p)) /\ WF_vars(timer_fire(p) /\ armed[p])
    /\ \A v \in Wakers : WF_vars(UnparkStep(v))

-----------------------------------------------------------------------------
(* Safety                                                                  *)

\* A Park is not released while its subscribe still runs, whoever of the
\* coroutine and the wakers drops the last Arc, and when.
NotFreedUnderKernel == \A p \in Parks : kpc[p] # "idle" => ~freed[p]

\* No lost unpark: a coroutine sits in wait_co with the token set only while
\* someone is about to take it out.
NoLostUnpark ==
    \A p \in Parks : InSlot(p) /\ token[p] =>
        \/ kpc[p] \in {"check", "fast"}
        \/ \E v \in Wakers : Target[v] = p /\ wpc[v] = "take"

\* park_timeout returns Ok only if somebody called unpark on that Park, or, with
\* check_cancel's early return, to a canceled coroutine on a panicking thread;
\* it returns Canceled only if the coroutine was canceled.
ResultHasCause ==
    /\ ret = "ok" /\ pc = "user" =>
          \/ \E v \in Wakers : Target[v] = cur /\ wpc[v] # "start"
          \/ CancelPasses /\ cur \notin IgnoreCancel
    /\ ret = "canceled" => canceled

\* One kernel of a Park at a time, and a suspended kernel has something
\* above it on its stack.
KernelsNested ==
    \A p \in Parks : kpc[p] = "nested" =>
        \/ host = p
        \/ \E q \in Parks : under[q] = p /\ kpc[q] # "idle"

\* The safety of a Park: no kernel on a released Park or without the coroutine
\* it stopped for, and no result of park_timeout without its cause, a park in a
\* destructor that a cancel panic runs included.
ParkSafe == TypeOK /\ NotFreedUnderKernel /\ KernelsNested /\ ResultHasCause

-----------------------------------------------------------------------------
(* Liveness                                                                *)

\* An unpark resumes a parked coroutine.
UnparkResumes == \A p \in Parks : []<>(InSlot(p) => ~token[p])

\* "if cancellation detected, return Err(ParkError::Canceled)" (park_timeout):
\* a coroutine that stays parked notices a cancel.
CancelResumes == []<>(loc = "slot" => ~canceled)

\* "if timeout happens, return Err(ParkError::Timeout)" (park_timeout): a park
\* with a timeout does not last forever.
TimeoutResumes == (loc = "slot" /\ timed) ~> (loc # "slot")

\* "Safe to call from both the kernel owner and a concurrent Drop"
\* (DelayDrop::wait): a Park's drop comes to an end.
DropEnds == pc \in {"drop", "drop_back"} ~> pc \notin {"drop", "drop_back"}

\* The drop of a Park (Park::drop, DelayDrop::wait) comes to an end, for a
\* coroutine that is not canceled meanwhile.
DropEndsUncanceled ==
    []<>(pc \in {"drop", "drop_back"} => is_canceled)
=============================================================================
