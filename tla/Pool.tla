-------------------------------- MODULE Pool --------------------------------
(***************************************************************************)
(* CoroutinePool (src/src/pool.rs): raw coroutines kept for reuse, and a   *)
(* count of them that is changed apart from the queue.  Users spawn a      *)
(* coroutine (get) and end it (put), one after the other.                  *)
(***************************************************************************)
EXTENDS Integers

CONSTANTS Users,
          Capacity,      \* config().get_pool_capacity()
          MaxSize        \* stands for usize::MAX

VARIABLES pc, pool, size

vars == <<pc, pool, size>>

Step(u, from, to) == pc[u] = from /\ pc' = [pc EXCEPT ![u] = to]
Wrap(x) == x % (MaxSize + 1)

\* CoroutinePool::new
Init ==
    /\ pc = [u \in Users |-> "idle"]
    /\ pool = Capacity
    /\ size = Capacity

\* the count, then the queue, then the count again if there was none
get(u) ==
    \/ Step(u, "idle", "pop") /\ size' = Wrap(size - 1) /\ pool' = pool
    \/ pool > 0 /\ Step(u, "pop", "running") /\ pool' = pool - 1 /\ size' = size
    \/ pool = 0 /\ Step(u, "pop", "create") /\ UNCHANGED <<pool, size>>
    \/ Step(u, "create", "running") /\ size' = Wrap(size + 1) /\ pool' = pool

\* mutant of put: the count is not taken back when the pool is full
put_leak(u) ==
    \/ /\ Step(u, "running", IF size >= Capacity THEN "idle" ELSE "push")
       /\ size' = Wrap(size + 1) /\ pool' = pool
    \/ Step(u, "push", "idle") /\ pool' = pool + 1 /\ size' = size

put(u) ==
    \/ /\ Step(u, "running", IF size >= Capacity THEN "discard" ELSE "push")
       /\ size' = Wrap(size + 1) /\ pool' = pool
    \/ Step(u, "discard", "idle") /\ size' = Wrap(size - 1) /\ pool' = pool
    \/ Step(u, "push", "idle") /\ pool' = pool + 1 /\ size' = size

Next == \E u \in Users : get(u) \/ put(u)

Spec == Init /\ [][Next]_vars

-----------------------------------------------------------------------------

\* Between calls the count is that of the pool: the separate steps of get()
\* and put(), the wrap of an empty pool's count included, lose nothing.
PoolCounted ==
    (\A u \in Users : pc[u] \in {"idle", "running"}) => size = pool
=============================================================================
