------------------------------- MODULE MCSync -------------------------------
(***************************************************************************)
(* The semaphore, the condition variable and its users, the flag and the   *)
(* reader-writer lock of src/src/sync on small instances.  The components  *)
(* do not share state: a behaviour is one of them, chosen by `part`, with  *)
(* its own variables, its own next-state relation and its own fairness.    *)
(***************************************************************************)
EXTENDS Semphore, Naturals, FiniteSets, Sequences, TLC

CONSTANTS
    c1, c2, c3, c4, c5, None

VARIABLES part,     \* the component that runs
\* Monitor
    m_pc, m_n, m_unparked, m_release, m_token, m_w, m_owner, m_to_wake, m_err,
    m_then, m_all, m_items, m_closed,
\* Barrier
    b_pc, b_n, b_unparked, b_release, b_token, b_w, b_owner, b_to_wake, b_err,
    b_then, b_all, b_count, b_generation_id, b_local_gen, b_leader,
\* WaitGroup
    g_pc, g_n, g_unparked, g_release, g_token, g_w, g_owner, g_to_wake, g_err,
    g_then, g_all, g_count, g_next,
\* SyncFlag
    f_pc, f_n, f_unparked, f_release, f_token, f_w, f_cnt, f_to_wake, f_then,
\* RwLock
    rw_pc, rw_n, rw_unparked, rw_release, rw_token, rw_w, rw_cnt, rw_to_wake,
    rw_rlock, rw_readers, rw_then,
\* ThreadPark
    t_pc, t_timed, t_timeout, t_token, t_notified, t_parks, t_unparks, t_sets,
    t_oks, t_late

Monitor == INSTANCE Monitor WITH
    pc <- m_pc, n <- m_n, unparked <- m_unparked, release <- m_release,
    token <- m_token, w <- m_w, owner <- m_owner, to_wake <- m_to_wake,
    err <- m_err, then <- m_then, all <- m_all, items <- m_items,
    closed <- m_closed, Calls <- {c1, c2, c3, c4, c5}, Consumers <- {c1, c2},
    Producers <- {c3, c4}, Closers <- {c5}, Cancelable <- {c1}, Timed <- {c1},
    None <- None
Barrier == INSTANCE Barrier WITH
    pc <- b_pc, n <- b_n, unparked <- b_unparked, release <- b_release,
    token <- b_token, w <- b_w, owner <- b_owner, to_wake <- b_to_wake,
    err <- b_err, then <- b_then, all <- b_all, count <- b_count,
    generation_id <- b_generation_id, local_gen <- b_local_gen,
    leader <- b_leader, Calls <- {c1, c2, c3, c4}, num_threads <- 2,
    Cancelable <- {c1}, Timed <- {}, None <- None
WaitGroup == INSTANCE WaitGroup WITH
    pc <- g_pc, n <- g_n, unparked <- g_unparked, release <- g_release,
    token <- g_token, w <- g_w, owner <- g_owner, to_wake <- g_to_wake,
    err <- g_err, then <- g_then, all <- g_all, count <- g_count,
    next <- g_next, Calls <- {c1, c2, c3}, First <- c1, Cancelable <- {c2},
    Timed <- {}, None <- None
SyncFlag == INSTANCE SyncFlag WITH
    pc <- f_pc, n <- f_n, unparked <- f_unparked, release <- f_release,
    token <- f_token, w <- f_w, cnt <- f_cnt, to_wake <- f_to_wake,
    then <- f_then, Waiters <- {c1, c2}, Firers <- {c3}, Timed <- {c1},
    Cancelable <- {c2}, MaxCnt <- 5, None <- None
RwLock == INSTANCE RwLock WITH
    pc <- rw_pc, n <- rw_n, unparked <- rw_unparked, release <- rw_release,
    token <- rw_token, w <- rw_w, cnt <- rw_cnt, to_wake <- rw_to_wake,
    rlock <- rw_rlock, readers <- rw_readers, then <- rw_then,
    Calls <- {c1, c2, c3, c4}, Readers <- {c1, c2, c3}, Tries <- {c3},
    Cancelable <- {c2, c4}, None <- None
ThreadPark == INSTANCE ThreadPark WITH
    pc <- t_pc, timed <- t_timed, timeout <- t_timeout, token <- t_token,
    notified <- t_notified, parks <- t_parks, unparks <- t_unparks,
    sets <- t_sets, oks <- t_oks, late <- t_late, Wakers <- {c1, c2},
    MaxParks <- 3, MaxUnparks <- 2

MonitorVars ==
    <<m_pc, m_n, m_unparked, m_release, m_token, m_w, m_owner, m_to_wake,
    m_err, m_then, m_all, m_items, m_closed>>
BarrierVars ==
    <<b_pc, b_n, b_unparked, b_release, b_token, b_w, b_owner, b_to_wake,
    b_err, b_then, b_all, b_count, b_generation_id, b_local_gen, b_leader>>
WaitGroupVars ==
    <<g_pc, g_n, g_unparked, g_release, g_token, g_w, g_owner, g_to_wake,
    g_err, g_then, g_all, g_count, g_next>>
SyncFlagVars ==
    <<f_pc, f_n, f_unparked, f_release, f_token, f_w, f_cnt, f_to_wake,
    f_then>>
RwLockVars ==
    <<rw_pc, rw_n, rw_unparked, rw_release, rw_token, rw_w, rw_cnt,
    rw_to_wake, rw_rlock, rw_readers, rw_then>>
ThreadParkVars ==
    <<t_pc, t_timed, t_timeout, t_token, t_notified, t_parks, t_unparks,
    t_sets, t_oks, t_late>>

\* one component is chosen; the others stay in their initial state
SyncInit ==
    /\ part \in {"semphore", "monitor", "barrier", "wait_group", "sync_flag", "rwlock", "thread_park"}
    /\ Init
    /\ Monitor!Init
    /\ Barrier!Init
    /\ WaitGroup!Init
    /\ SyncFlag!Init
    /\ RwLock!Init
    /\ ThreadPark!Init

SyncNext ==
    \/ /\ part = "semphore" /\ Next
       /\ UNCHANGED <<part, MonitorVars, BarrierVars, WaitGroupVars,
                        SyncFlagVars, RwLockVars, ThreadParkVars>>
    \/ /\ part = "monitor" /\ Monitor!Next
       /\ UNCHANGED <<part, vars, BarrierVars, WaitGroupVars, SyncFlagVars,
                        RwLockVars, ThreadParkVars>>
    \/ /\ part = "barrier" /\ Barrier!Next
       /\ UNCHANGED <<part, vars, MonitorVars, WaitGroupVars, SyncFlagVars,
                        RwLockVars, ThreadParkVars>>
    \/ /\ part = "wait_group" /\ WaitGroup!Next
       /\ UNCHANGED <<part, vars, MonitorVars, BarrierVars, SyncFlagVars,
                        RwLockVars, ThreadParkVars>>
    \/ /\ part = "sync_flag" /\ SyncFlag!Next
       /\ UNCHANGED <<part, vars, MonitorVars, BarrierVars, WaitGroupVars,
                        RwLockVars, ThreadParkVars>>
    \/ /\ part = "rwlock" /\ RwLock!Next
       /\ UNCHANGED <<part, vars, MonitorVars, BarrierVars, WaitGroupVars,
                        SyncFlagVars, ThreadParkVars>>
    \/ /\ part = "thread_park" /\ ThreadPark!Next
       /\ UNCHANGED <<part, vars, MonitorVars, BarrierVars, WaitGroupVars,
                        SyncFlagVars, RwLockVars>>

SyncVars ==
    <<part, vars, MonitorVars, BarrierVars, WaitGroupVars, SyncFlagVars,
    RwLockVars, ThreadParkVars>>

\* the fairness of each component, while it is the one that runs
SyncFairness ==
    /\ \A c \in Waits : WF_vars(part = "semphore" /\ (Wait(c) \/ post_cnt(c)))
    /\ \A c \in Calls : WF_vars(part = "semphore" /\ Wakeup(c))
    /\ \A c \in {c1, c2, c3, c4, c5} : WF_MonitorVars(part = "monitor" /\ Monitor!Run(c))
    /\ \A c \in {c1, c2, c3, c4} : WF_BarrierVars(part = "barrier" /\ Barrier!Run(c))
    /\ \A c \in {c1, c2, c3} : WF_WaitGroupVars(part = "wait_group" /\ WaitGroup!Run(c))
    /\ \A c \in {c1, c2, c3} : WF_SyncFlagVars(part = "sync_flag" /\ SyncFlag!Run(c))
    /\ \A c \in {c1, c2, c3, c4} : WF_RwLockVars(part = "rwlock" /\ RwLock!Run(c))
    /\ WF_ThreadParkVars(part = "thread_park" /\ ThreadPark!Run)

SyncSpec == SyncInit /\ [][SyncNext]_SyncVars /\ SyncFairness

-----------------------------------------------------------------------------
\* No waiter stays parked beside an item, or after the end: a signal that
\* notify_one gives to a waiter leaving by timeout or cancel reaches a waiter
\* that stays, however the two cross.
SignalReaches == Monitor!SignalReaches

-----------------------------------------------------------------------------
\* The flag is never unset: the waiters that count themselves in after a
\* fire() do not bring the count back to zero ("never drops back").
FiredStays == SyncFlag!FiredStays

-----------------------------------------------------------------------------
\* The lock excludes, hands over to somebody who is there, and does not keep
\* a guard from being dropped.
RwSafe == RwLock!RwSafe

\* Every call is served or canceled: neither the global lock nor rlock, which
\* every later reader needs, is lost in a hand-off or with a canceled reader.
RwCompletes == part = "rwlock" => RwLock!RwCompletes

-----------------------------------------------------------------------------
\* A wait returns only when what it waits for has come about: the condition
\* of wait_while, the barrier's num_threads, the end of all references, the
\* fire(), or the unpark of a thread.
WaitsJustified ==
    /\ Monitor!GuardedTruth
    /\ Barrier!GenerationComplete
    /\ WaitGroup!WaitsForAll
    /\ SyncFlag!TrueMeansFired
    /\ ThreadPark!TokenOnce

\* A notify_all and a fire() reach everybody, whoever is just registering and
\* whoever leaves: the barrier's generation, the waiters of the group and
\* those of the flag; and an unpark reaches its thread.
AllWake ==
    /\ Barrier!BarrierOpens
    /\ WaitGroup!WaitGroupOpens
    /\ SyncFlag!FlagOpens
    /\ ThreadPark!TokenWakes
=============================================================================
