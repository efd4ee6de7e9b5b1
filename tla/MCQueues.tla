------------------------------ MODULE MCQueues ------------------------------
(***************************************************************************)
(* The queues of may_queue, the timer list, the coroutine pool and the     *)
(* poisoning of locks on small instances.  The components do not share     *)
(* state: a behaviour is one of them, chosen by `part`, with its own       *)
(* variables, its own next-state relation and its own fairness.            *)
(***************************************************************************)
EXTENDS Naturals, FiniteSets, Sequences, TLC

CONSTANTS
    p1, p2, c, o, t1, t2, u1, u2, u3, u4, l1, l2, l3, None

VARIABLES part,     \* the component that runs
\* MpscQueue
    q_pc, q_mem, q_tail, q_head, q_old_block, q_reg, q_left, q_out, q_done,
    q_seen,
\* MpscList
    l_pc, l_cpc, l_mem, l_head, l_tail, l_reg, l_requests, l_freeing, l_left,
    l_pops, l_order, l_out,
\* SpscQueue
    s_inner_cache, s_ppc, s_cpc, s_mem, s_head, s_tail, s_first, s_last_head,
    s_seen, s_fresh, s_left, s_pops, s_out,
\* SpmcQueue
    m_pc, m_mem, m_head, m_tail, m_reg, m_left, m_taken,
\* Pool
    p_pc, p_pool, p_size,
\* Poison
    x_at, x_pc, x_cause, x_canceled, x_guard, x_failed, x_CANCEL_PANICKING,
    x_local, x_global, x_masked,
\* TimeoutList
    t_now, t_pc, t_time, t_where, t_prev, t_interval_map, t_list, t_in_use,
    t_timer_bh, t_remove_list, t_wakeup, t_token, t_tpc, t_entry, t_at,
    t_made, t_fired

MpscQueue == INSTANCE MpscQueue WITH
    pc <- q_pc, mem <- q_mem, tail <- q_tail, head <- q_head,
    old_block <- q_old_block, reg <- q_reg, left <- q_left, out <- q_out,
    done <- q_done, seen <- q_seen, Producers <- {p1, p2}, Consumer <- c,
    Pushes <- 2, MaxPops <- 3, BLOCK_SIZE <- 2, Addr <- 1..6, None <- None
MpscList == INSTANCE MpscList WITH
    pc <- l_pc, cpc <- l_cpc, mem <- l_mem, head <- l_head, tail <- l_tail,
    reg <- l_reg, requests <- l_requests, freeing <- l_freeing,
    left <- l_left, pops <- l_pops, order <- l_order, out <- l_out,
    Producers <- {p1, p2}, Pushes <- 2, MaxPops <- 3, Addr <- 1..5,
    None <- None
SpscQueue == INSTANCE SpscQueue WITH
    inner_cache <- s_inner_cache, ppc <- s_ppc, cpc <- s_cpc, mem <- s_mem,
    head <- s_head, tail <- s_tail, first <- s_first,
    last_head <- s_last_head, seen <- s_seen, fresh <- s_fresh,
    left <- s_left, pops <- s_pops, out <- s_out, Pushes <- 5, MaxPops <- 4,
    BLOCK_SIZE <- 2, Addr <- 1..5, None <- None
SpmcQueue == INSTANCE SpmcQueue WITH
    pc <- m_pc, mem <- m_mem, head <- m_head, tail <- m_tail, reg <- m_reg,
    left <- m_left, taken <- m_taken, Owner <- o, Thieves <- {t1, t2},
    Pushes <- 4, Pops <- 2, Steals <- 1, BLOCK_SIZE <- 2, Addr <- 1..4,
    None <- None
Pool == INSTANCE Pool WITH
    pc <- p_pc, pool <- p_pool, size <- p_size, Users <- {u1, u2, u3, u4},
    Capacity <- 1, MaxSize <- 15
Poison == INSTANCE Poison WITH
    at <- x_at, pc <- x_pc, cause <- x_cause, canceled <- x_canceled,
    guard <- x_guard, failed <- x_failed,
    CANCEL_PANICKING <- x_CANCEL_PANICKING, local <- x_local,
    global <- x_global, masked <- x_masked, Cos <- {u1, u2, u3},
    Threads <- {t1}, None <- None
TimeoutList == INSTANCE TimeoutList WITH
    now <- t_now, pc <- t_pc, time <- t_time, where <- t_where,
    prev <- t_prev,
    interval_map <- t_interval_map, list <- t_list, in_use <- t_in_use,
    timer_bh <- t_timer_bh, remove_list <- t_remove_list, wakeup <- t_wakeup,
    token <- t_token, tpc <- t_tpc, entry <- t_entry, at <- t_at,
    made <- t_made, fired <- t_fired, Timers <- {u1, u2},
    Dur <- (u1 :> 2 @@ u2 :> 9), Lists <- {l1, l2, l3}, HASH_CAP <- 0,
    U64_MAX <- 3, MaxTime <- 3, None <- None

MpscQueueVars ==
    <<q_pc, q_mem, q_tail, q_head, q_old_block, q_reg, q_left, q_out, q_done,
    q_seen>>
MpscListVars ==
    <<l_pc, l_cpc, l_mem, l_head, l_tail, l_reg, l_requests, l_freeing,
    l_left, l_pops, l_order, l_out>>
SpscQueueVars ==
    <<s_inner_cache, s_ppc, s_cpc, s_mem, s_head, s_tail, s_first,
    s_last_head, s_seen, s_fresh, s_left, s_pops, s_out>>
SpmcQueueVars ==
    <<m_pc, m_mem, m_head, m_tail, m_reg, m_left, m_taken>>
PoolVars ==
    <<p_pc, p_pool, p_size>>
PoisonVars ==
    <<x_at, x_pc, x_cause, x_canceled, x_guard, x_failed, x_CANCEL_PANICKING,
    x_local, x_global, x_masked>>
TimeoutListVars ==
    <<t_now, t_pc, t_time, t_where, t_prev, t_interval_map, t_list, t_in_use,
    t_timer_bh, t_remove_list, t_wakeup, t_token, t_tpc, t_entry, t_at,
    t_made, t_fired>>

\* one component is chosen; the others stay in their initial state
QueueInit ==
    /\ part \in {"mpsc", "mpsc_list", "spsc", "spmc", "pool", "poison",
             "timeout_list"}
    /\ MpscQueue!Init
    /\ MpscList!Init
    /\ SpscQueue!Init
    /\ part # "spsc" => s_inner_cache
    /\ SpmcQueue!Init
    /\ Pool!Init
    /\ Poison!Init
    /\ TimeoutList!Init

QueueNext ==
    \/ /\ part = "mpsc" /\ MpscQueue!Next
       /\ UNCHANGED <<part, MpscListVars, SpscQueueVars, SpmcQueueVars,
                        PoolVars, PoisonVars, TimeoutListVars>>
    \/ /\ part = "mpsc_list" /\ MpscList!Next
       /\ UNCHANGED <<part, MpscQueueVars, SpscQueueVars, SpmcQueueVars,
                        PoolVars, PoisonVars, TimeoutListVars>>
    \/ /\ part = "spsc" /\ SpscQueue!Next
       /\ UNCHANGED <<part, MpscQueueVars, MpscListVars, SpmcQueueVars,
                        PoolVars, PoisonVars, TimeoutListVars>>
    \/ /\ part = "spmc" /\ SpmcQueue!Next
       /\ UNCHANGED <<part, MpscQueueVars, MpscListVars, SpscQueueVars,
                        PoolVars, PoisonVars, TimeoutListVars>>
    \/ /\ part = "pool" /\ Pool!Next
       /\ UNCHANGED <<part, MpscQueueVars, MpscListVars, SpscQueueVars,
                        SpmcQueueVars, PoisonVars, TimeoutListVars>>
    \/ /\ part = "poison" /\ Poison!Next
       /\ UNCHANGED <<part, MpscQueueVars, MpscListVars, SpscQueueVars,
                        SpmcQueueVars, PoolVars, TimeoutListVars>>
    \/ /\ part = "timeout_list" /\ TimeoutList!Next
       /\ UNCHANGED <<part, MpscQueueVars, MpscListVars, SpscQueueVars,
                        SpmcQueueVars, PoolVars, PoisonVars>>

QueueVars ==
    <<part, MpscQueueVars, MpscListVars, SpscQueueVars, SpmcQueueVars,
    PoolVars, PoisonVars, TimeoutListVars>>

\* the fairness of the timer list, while it is the one that runs
QueueFairness ==
    /\ WF_TimeoutListVars(part = "timeout_list" /\ TimeoutList!tick)
    /\ WF_TimeoutListVars(part = "timeout_list" /\ TimeoutList!RunTimer)
    /\ \A t \in {u1, u2} : WF_TimeoutListVars(part = "timeout_list" /\ TimeoutList!RunAdd(t))

QueueSpec == QueueInit /\ [][QueueNext]_QueueVars /\ QueueFairness

-----------------------------------------------------------------------------
\* Every value pushed is read once, out of a live block, by the owner or by one
\* thief.
SpmcSafe == SpmcQueue!SpmcSafe

-----------------------------------------------------------------------------
\* Between calls the count is that of the pool: the separate steps of get()
\* and put(), the wrap of an empty pool's count included, lose nothing.
PoolCounted == Pool!PoolCounted

-----------------------------------------------------------------------------
\* One heap entry per list, and no timer early.
TimersSound == TimeoutList!TimersSound

\* Every timer that is not deleted fires: its list is in the heap, and the
\* timer thread does not sleep past it.
TimerFires == TimeoutList!TimerFires

-----------------------------------------------------------------------------
(* A lock is poisoned by a panic that has the thread to itself, and not by *)
(* cancels; the flag that tells them apart ends with the unwinds.          *)
PoisonSafe == Poison!PoisonSafe

-----------------------------------------------------------------------------
\* No queue reads or writes a block or node after it has been freed, or loses
\* one, and none says empty while it holds a value.
BlocksSafe ==
    /\ MpscQueue!MpscSafe
    /\ MpscList!ListSafe
    /\ SpscQueue!SpscBlocksLive

\* The mpsc queue, the mpsc list and the spsc queue implement a FIFO queue.
QueuesFifo ==
    /\ MpscQueue!MpscImplements
    /\ MpscList!ListImplements
    /\ SpscQueue!SpscImplements
=============================================================================
