------------------------------ MODULE Barrier ------------------------------
(***************************************************************************)
(* may::sync::Barrier (src/src/sync/barrier.rs) on its Mutex and Condvar.  *)
(* Every call of Calls waits once; calls come in any order, so that they   *)
(* form several generations of the same barrier.                           *)
(***************************************************************************)
EXTENDS Condvar

CONSTANT num_threads

VARIABLES count, generation_id,   \* BarrierState
          local_gen,              \* the generation a call arrived in
          leader                  \* calls that return is_leader() = true

bvars == <<count, generation_id, local_gen, leader>>
vars == <<cvars, bvars>>

Init ==
    /\ CondvarInit("start")
    /\ count = 0
    /\ generation_id = 0
    /\ local_gen = [c \in Calls |-> -1]
    /\ leader = {}

\* lock() of a canceled coroutine panics while it waits, before it has counted
wait_lock_canceled(c) ==
    /\ c \in Cancelable
    /\ owner # None
    /\ Step(c, "start", "canceled")
    /\ UNCHANGED <<flags, notify, owner, to_wake, err, bvars>>

\* mutant of wait_arrive: the last one in does not reset the count
wait_arrive_keep(c) ==
    /\ owner = None
    /\ owner' = c
    /\ local_gen' = [local_gen EXCEPT ![c] = generation_id]
    /\ IF count + 1 < num_threads
         THEN /\ Step(c, "start", "wait")
              /\ count' = count + 1
              /\ UNCHANGED <<then, generation_id, leader>>
         ELSE /\ Step(c, "start", "popall")
              /\ count' = count
              /\ generation_id' = generation_id + 1
              /\ leader' = leader \cup {c}
              /\ then' = [then EXCEPT ![c] = "guard"]
    /\ UNCHANGED <<flags, w, all, to_wake, err>>

\* under the lock: arrive, and end the generation if this is the last one in
wait_arrive(c) ==
    /\ owner = None
    /\ owner' = c
    /\ local_gen' = [local_gen EXCEPT ![c] = generation_id]
    /\ IF count + 1 < num_threads
         THEN /\ Step(c, "start", "wait")
              /\ count' = count + 1
              /\ UNCHANGED <<then, generation_id, leader>>
         ELSE /\ Step(c, "start", "popall")
              /\ count' = 0
              /\ generation_id' = generation_id + 1
              /\ leader' = leader \cup {c}
              /\ then' = [then EXCEPT ![c] = "guard"]
    /\ UNCHANGED <<flags, w, all, to_wake, err>>

\* wait_while: local_gen == state.generation_id
wait_generation(c) ==
    /\ Step(c, "woken", IF local_gen[c] = generation_id THEN "wait" ELSE "guard")
    /\ UNCHANGED <<flags, notify, owner, to_wake, err, bvars>>

\* the guard is dropped
wait_return(c) ==
    /\ Step(c, "guard", "done")
    /\ owner' = None
    /\ UNCHANGED <<flags, notify, to_wake, err, bvars>>

Run(c) ==
    \/ Inside(c) /\ UNCHANGED bvars
    \/ wait_arrive(c) \/ wait_generation(c) \/ wait_return(c)

Done(c) == pc[c] \in {"done", "canceled"}

Quiet ==
    /\ \A c \in Calls : Done(c) \/ (pc[c] = "park" /\ Cur(c) \notin token)
    /\ UNCHANGED vars

Next ==
    \/ \E c \in Calls : Run(c) \/ (park_err(c) /\ UNCHANGED bvars) \/ wait_lock_canceled(c)
    \/ Quiet

Fairness == \A c \in Calls : WF_vars(Run(c))

Spec == Init /\ [][Next]_vars /\ Fairness

-----------------------------------------------------------------------------

Arrived(g) == {c \in Calls : local_gen[c] = g}

\* A call returns only from a generation that num_threads calls have entered,
\* the canceled ones included, and exactly one of them is its leader.
GenerationComplete ==
    \A c \in Calls :
        pc[c] \in {"guard", "done"} /\ local_gen[c] >= 0 =>
            /\ Cardinality(Arrived(local_gen[c])) = num_threads
            /\ Cardinality(Arrived(local_gen[c]) \cap leader) = 1

\* Once a generation is complete, everyone in it comes back, though later
\* generations already use the same barrier.
BarrierOpens ==
    \A c \in Calls : []<>(local_gen[c] \notin {-1, generation_id} => Done(c))
=============================================================================
