------------------------------ MODULE MCMutex -------------------------------
(***************************************************************************)
(* Mutex, and the Park its coroutines wait in, on small instances.  The    *)
(* components do not share state: a behaviour is one of them, chosen by    *)
(* `part`, with its own variables, its own next-state relation and its own *)
(* fairness.                                                               *)
(***************************************************************************)
EXTENDS Mutex, Naturals, FiniteSets, Sequences, TLC

CONSTANTS
    c1, c2, c3, p1, v1, v2, NoPark, Co

VARIABLES part,     \* the component that runs
\* Park
    k_loc, k_pc, k_cur, k_timed, k_para, k_ret, k_panicking, k_calls, k_host,
    k_token, k_canDrop, k_armed, k_stale, k_refs, k_freed, k_kpc, k_kreg,
    k_under, k_canceled, k_cancelCo, k_cpc, k_creg, k_cancels, k_wpc

Park == INSTANCE Park WITH
    loc <- k_loc, pc <- k_pc, cur <- k_cur, timed <- k_timed, para <- k_para,
    ret <- k_ret, panicking <- k_panicking, calls <- k_calls, host <- k_host,
    token <- k_token, canDrop <- k_canDrop, armed <- k_armed,
    stale <- k_stale, refs <- k_refs, freed <- k_freed, kpc <- k_kpc,
    kreg <- k_kreg, under <- k_under, canceled <- k_canceled,
    cancelCo <- k_cancelCo, cpc <- k_cpc, creg <- k_creg,
    cancels <- k_cancels, wpc <- k_wpc, Parks <- {p1}, Wakers <- {v1, v2},
    Target <- [v \in {v1, v2} |-> p1], IgnoreCancel <- {p1}, Shield <- FALSE,
    OtherUnwinds <- TRUE, Timeouts <- {FALSE, TRUE}, MaxCalls <- 2,
    MaxCancels <- 1, NoPark <- NoPark, Co <- Co

ParkVars ==
    <<k_loc, k_pc, k_cur, k_timed, k_para, k_ret, k_panicking, k_calls,
    k_host, k_token, k_canDrop, k_armed, k_stale, k_refs, k_freed, k_kpc,
    k_kreg, k_under, k_canceled, k_cancelCo, k_cpc, k_creg, k_cancels, k_wpc>>

\* one component is chosen; the others stay in their initial state
BlockInit ==
    /\ part \in {"mutex", "park"}
    /\ Init
    /\ Park!Init

BlockNext ==
    \/ /\ part = "mutex" /\ Next
       /\ UNCHANGED <<part, ParkVars>>
    \/ /\ part = "park" /\ Park!Next
       /\ UNCHANGED <<part, vars>>

BlockVars ==
    <<part, vars, ParkVars>>

\* the fairness of each component, while it is the one that runs
BlockFairness ==
    /\ \A c \in Calls : WF_vars(part = "mutex" /\ Run(c))
    /\ WF_ParkVars(part = "park" /\ Park!CoStep)
    /\ WF_ParkVars(part = "park" /\ Park!Cancel)
    /\ WF_ParkVars(part = "park" /\ Park!KernelStep(p1))
    /\ WF_ParkVars(part = "park" /\ Park!timer_fire(p1) /\ k_armed[p1])
    /\ \A v \in {v1, v2} : WF_ParkVars(part = "park" /\ Park!UnparkStep(v))

BlockSpec == BlockInit /\ [][BlockNext]_BlockVars /\ BlockFairness

-----------------------------------------------------------------------------
\* An unpark resumes a parked coroutine.
UnparkResumes == Park!UnparkResumes

\* "if cancellation detected, return Err(ParkError::Canceled)" (park_timeout):
\* a coroutine that stays parked notices a cancel.
CancelResumes == Park!CancelResumes

\* The drop of a Park (Park::drop, DelayDrop::wait) comes to an end, for a
\* coroutine that is not canceled meanwhile.
DropEndsUncanceled == Park!DropEndsUncanceled
=============================================================================
