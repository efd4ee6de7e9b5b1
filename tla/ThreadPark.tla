----------------------------- MODULE ThreadPark -----------------------------
(***************************************************************************)
(* The parker of a thread (src/src/sync/blocking.rs): a token under a      *)
(* mutex, and a condition variable.  What is done with the mutex held is   *)
(* one step; the wait gives the mutex up and takes it again.               *)
(***************************************************************************)
EXTENDS Naturals

CONSTANTS Wakers, MaxParks, MaxUnparks   \* bounds on the calls

VARIABLES pc,        \* the thread: idle, enter, wait, leave
          timed,     \* the call has a timeout
          timeout,   \* result is Err(Timeout)
          token,     \* *lock
          notified,  \* the thread has been picked by notify_one
          parks, unparks,
          sets, oks, late  \* tokens set, taken with Ok, discarded with Timeout

vars == <<pc, timed, timeout, token, notified, parks, unparks, sets, oks, late>>

Init ==
    /\ pc = "idle" /\ timed = FALSE /\ timeout = FALSE
    /\ token = 0 /\ notified = FALSE
    /\ parks = 0 /\ unparks = [v \in Wakers |-> 0]
    /\ sets = 0 /\ oks = 0 /\ late = 0

park ==
    /\ pc = "idle" /\ parks < MaxParks
    /\ pc' = "enter" /\ timed' \in BOOLEAN /\ timeout' = FALSE
    /\ parks' = parks + 1
    /\ UNCHANGED <<token, notified, unparks, sets, oks, late>>

\* the loop, each round with the mutex: to wait, to find the time gone, or to
\* clear the token and return
park_timeout ==
    /\ pc = "enter"
    /\ IF token = 0 /\ ~timeout
       THEN \/ pc' = "wait" /\ UNCHANGED <<timeout, token, oks, late>>
            \/ timed /\ timeout' = TRUE /\ UNCHANGED <<pc, token, oks, late>>
       ELSE /\ pc' = "idle" /\ token' = 0
            /\ oks' = IF timeout THEN oks ELSE oks + 1
            /\ late' = IF timeout THEN late + token ELSE late
            /\ UNCHANGED timeout
    /\ UNCHANGED <<timed, notified, parks, unparks, sets>>

\* cvar.wait ends: notified, or timed out, also when a notify comes too late
cvar_wait ==
    /\ pc = "wait"
    /\ \/ notified /\ UNCHANGED timeout
       \/ timed /\ timeout' = TRUE
    /\ pc' = "enter" /\ notified' = FALSE
    /\ UNCHANGED <<timed, token, parks, unparks, sets, oks, late>>

\* the token is set once; notify_one reaches a thread that waits by now
unpark(v) ==
    /\ unparks[v] < MaxUnparks
    /\ unparks' = [unparks EXCEPT ![v] = @ + 1]
    /\ IF token = 0
       THEN token' = 1 /\ notified' = (pc = "wait") /\ sets' = sets + 1
       ELSE UNCHANGED <<token, notified, sets>>
    /\ UNCHANGED <<pc, timed, timeout, parks, oks, late>>

Run == park_timeout \/ cvar_wait

Quiet == pc \in {"idle", "wait"} /\ UNCHANGED vars

Next == park \/ Run \/ (\E v \in Wakers : unpark(v)) \/ Quiet

Spec == Init /\ [][Next]_vars /\ WF_vars(Run)

-----------------------------------------------------------------------------
\* "the token is cleared on every return": each token that was set is still
\* there, was taken by one Ok, or was discarded by a Timeout; no park of a
\* thread returns Ok without one.
TokenOnce == sets = oks + late + token

\* A thread does not stay in the wait once the token is set.
TokenWakes == []<>(pc = "wait" => token = 0)
=============================================================================
