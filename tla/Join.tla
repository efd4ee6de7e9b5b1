-------------------------------- MODULE Join --------------------------------
(***************************************************************************)
(* Join (src/src/join.rs): how a coroutine tells its end to whoever waits  *)
(* for it.  Scope and Cqueue extend this module.  The Blocker of a wait is *)
(* <<waiter, coroutine>>; it is parked on at most once.                    *)
(***************************************************************************)
EXTENDS Integers, Sequences, FiniteSets

CONSTANT None

VARIABLES pc,        \* next atomic operation of each actor
          finished,  \* coroutines whose Join.state is false
          jwake,     \* Join.to_wake of each coroutine
          token      \* Blockers that have been unparked

Step(a, from, to) == pc[a] = from /\ pc' = [pc EXCEPT ![a] = to]

JoinInit(actors, start, coroutines) ==
    /\ pc = [a \in actors |-> start[a]]
    /\ finished = {}
    /\ jwake = [k \in coroutines |-> None]
    /\ token = {}

\* mutant of wait: the state is not looked at again after registering
wait_no_recheck(a, k, out) ==
    /\ \/ Step(a, "load", IF k \in finished THEN out ELSE "register") /\ UNCHANGED <<jwake, token>>
       \/ Step(a, "register", "joining") /\ jwake' = [jwake EXCEPT ![k] = a] /\ UNCHANGED token
       \/ /\ <<a, k>> \in token
          /\ Step(a, "joining", out)
          /\ token' = token \ {<<a, k>>}
          /\ UNCHANGED jwake
    /\ UNCHANGED finished

\* Join::wait by a for the coroutine k
wait(a, k, out) ==
    /\ \/ Step(a, "load", IF k \in finished THEN out ELSE "register") /\ UNCHANGED <<jwake, token>>
       \/ Step(a, "register", "recheck") /\ jwake' = [jwake EXCEPT ![k] = a] /\ UNCHANGED token
       \/ k \notin finished /\ Step(a, "recheck", "joining") /\ UNCHANGED <<jwake, token>>
       \/ /\ k \in finished
          /\ Step(a, "recheck", out)
          /\ jwake' = [jwake EXCEPT ![k] = None]
          /\ UNCHANGED token
       \/ /\ <<a, k>> \in token
          /\ Step(a, "joining", out)
          /\ token' = token \ {<<a, k>>}
          /\ UNCHANGED jwake
    /\ UNCHANGED finished

\* Join::trigger: the state first, then the waiter if there is one
trigger(k, out) ==
    \/ /\ Step(k, "trigger", "take_waiter")
       /\ finished' = finished \cup {k}
       /\ UNCHANGED <<jwake, token>>
    \/ /\ Step(k, "take_waiter", out)
       /\ jwake' = [jwake EXCEPT ![k] = None]
       /\ token' = IF jwake[k] = None THEN token ELSE token \cup {<<jwake[k], k>>}
       /\ UNCHANGED finished
=============================================================================
