---------------------------- MODULE SyncBlocker ----------------------------
(***************************************************************************)
(* The SyncBlocker hand-off (src/src/sync/blocking.rs) as Condvar, RwLock  *)
(* and SyncFlag use it: a waiter that leaves its park with an error, and a *)
(* waker that unparks a blocker it popped.  A blocker is <<call, number of *)
(* the wait>>, because every wait allocates a fresh one and an old one can *)
(* still be queued.  Park itself is the token it promises: park returns Ok *)
(* only by a token, and Err at any moment where the call can time out or   *)
(* be canceled.                                                            *)
(***************************************************************************)
EXTENDS Integers, Sequences

VARIABLES pc,         \* next atomic operation of each call
          n,          \* waits a call has begun: <<c, n[c]>> is its blocker
          unparked, release, token,  \* blockers with the flag set
          w           \* blocker a call has popped and is waking

Step(c, from, to) == pc[c] = from /\ pc' = [pc EXCEPT ![c] = to]
Cur(c) == <<c, n[c]>>

\* park returned Err: if (is_unparked) forward, else set_release and, if
\* is_unparked after all, take_release decides who forwards
Leave(c, forward, gone) ==
    \/ /\ Step(c, "check", IF Cur(c) \in unparked THEN forward ELSE "setrel")
       /\ UNCHANGED release
    \/ /\ Step(c, "setrel", "recheck")
       /\ release' = release \cup {Cur(c)}
    \/ /\ Step(c, "recheck", IF Cur(c) \in unparked THEN "takeown" ELSE gone)
       /\ UNCHANGED release
    \/ /\ Step(c, "takeown", IF Cur(c) \in release THEN forward ELSE gone)
       /\ release' = release \ {Cur(c)}

\* SyncBlocker::unpark: the flag, then the parker's token
Unpark(c, taken) ==
    \/ Step(c, "store", "wake") /\ unparked' = unparked \cup {w[c]} /\ UNCHANGED token
    \/ Step(c, "wake", taken) /\ token' = token \cup {w[c]} /\ UNCHANGED unparked

\* take_release of the blocker just woken: TRUE means it left without the signal
TakeRelease(c, left, taken) ==
    /\ Step(c, "take", IF w[c] \in release THEN left ELSE taken)
    /\ release' = release \ {w[c]}
=============================================================================
