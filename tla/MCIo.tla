-------------------------------- MODULE MCIo --------------------------------
(***************************************************************************)
(* The runtime on small instances: the io of Unix and of Windows and the   *)
(* scheduler.  The components do not share state: a behaviour is one of    *)
(* them, chosen by `part`, with its own variables, its own next-state      *)
(* relation and its own fairness.                                          *)
(***************************************************************************)
EXTENDS Naturals, FiniteSets, Sequences, TLC

CONSTANTS
    c1, c2, p1, None

VARIABLES part,     \* the component that runs
\* UnixIo
    u_env, u_me, u_op, u_pc, u_para, u_base, u_n, u_ev, u_life, u_k, u_timers,
    u_spc, u_sarg, u_avail, u_edge, u_sent, u_canceled, u_io, u_xpc, u_wpc,
\* WinIo
    w_op, w_n, w_pc, w_para, w_k, w_ev, w_canceled, w_io, w_xpc, w_tpc,
\* Scheduler
    s_build, s_at, s_evfd, s_timed, s_tries, s_local_queues, s_global_queues,
    s_next_id, s_cur, s_poster, s_asleep, s_readied

UnixOps == INSTANCE UnixOps
WinOps == INSTANCE WinOps

\* a read with a timeout, a write and a connect without
UnixCalls ==
    {UnixOps!SocketRead(TRUE), UnixOps!SocketWrite(FALSE), UnixOps!TcpStreamConnect(FALSE)}

UnixIo == INSTANCE UnixIo WITH
    env <- u_env, me <- u_me, op <- u_op, pc <- u_pc, para <- u_para,
    base <- u_base, n <- u_n, ev <- u_ev, life <- u_life, k <- u_k,
    timers <- u_timers, spc <- u_spc, sarg <- u_sarg, avail <- u_avail,
    edge <- u_edge, sent <- u_sent, canceled <- u_canceled, io <- u_io,
    xpc <- u_xpc, wpc <- u_wpc, Users <- {1, 2}, Calls <- UnixCalls,
    Cancelable <- {1}, MaxYields <- 2, MaxEvents <- 1
WinIo == INSTANCE WinIo WITH
    op <- w_op, n <- w_n, pc <- w_pc, para <- w_para, k <- w_k, ev <- w_ev,
    canceled <- w_canceled, io <- w_io, xpc <- w_xpc, tpc <- w_tpc,
    Calls <- WinOps!AllCalls, MaxOps <- 2
Scheduler == INSTANCE Scheduler WITH
    build <- s_build, at <- s_at, evfd <- s_evfd, timed <- s_timed,
    tries <- s_tries, local_queues <- s_local_queues,
    global_queues <- s_global_queues, next_id <- s_next_id, cur <- s_cur,
    poster <- s_poster, asleep <- s_asleep, readied <- s_readied,
    workers <- 2, Cos <- {c1, c2}, Posters <- {p1}, MaxReady <- 2,
    None <- None

UnixIoVars ==
    <<u_env, u_me, u_op, u_pc, u_para, u_base, u_n, u_ev, u_life, u_k,
    u_timers, u_spc, u_sarg, u_avail, u_edge, u_sent, u_canceled, u_io, u_xpc,
    u_wpc>>
WinIoVars ==
    <<w_op, w_n, w_pc, w_para, w_k, w_ev, w_canceled, w_io, w_xpc, w_tpc>>
SchedulerVars ==
    <<s_build, s_at, s_evfd, s_timed, s_tries, s_local_queues,
    s_global_queues, s_next_id, s_cur, s_poster, s_asleep, s_readied>>

\* one component is chosen; the others stay in their initial state
IoInit ==
    /\ part \in {"unix", "windows", "scheduler"}
    /\ UnixIo!Init
    /\ part # "unix" => u_env = "cancel"
    /\ WinIo!Init
    /\ Scheduler!Init
    /\ part # "scheduler" => s_build = [steal |-> TRUE, io_timeout |-> TRUE, os |-> "epoll"]

IoNext ==
    \/ /\ part = "unix" /\ UnixIo!Next
       /\ UNCHANGED <<part, WinIoVars, SchedulerVars>>
    \/ /\ part = "windows" /\ WinIo!Next
       /\ UNCHANGED <<part, UnixIoVars, SchedulerVars>>
    \/ /\ part = "scheduler" /\ Scheduler!Next
       /\ UNCHANGED <<part, UnixIoVars, WinIoVars>>

IoVars ==
    <<part, UnixIoVars, WinIoVars, SchedulerVars>>

\* the fairness of each component, while it is the one that runs
IoFairness ==
    /\ \A i \in 1..2 : WF_UnixIoVars(part = "unix" /\ UnixIo!Subscribe(i))
    /\ \A u \in 1..2 : WF_UnixIoVars(part = "unix" /\ u_xpc[u] # "start" /\ UnixIo!cancel(u))
    /\ WF_UnixIoVars(part = "unix" /\ u_wpc # "start" /\ UnixIo!wakeup)
    /\ WF_UnixIoVars(part = "unix" /\ UnixIo!Selector)
    /\ WF_WinIoVars(part = "windows" /\ WinIo!subscribe)
    /\ WF_WinIoVars(part = "windows" /\ w_xpc # "start" /\ WinIo!cancel)
    /\ WF_WinIoVars(part = "windows" /\ WinIo!Coroutine)
    /\ \A i \in 1..2 : WF_WinIoVars(part = "windows" /\ WinIo!select(i))
    /\ \A w \in 0..1 : WF_SchedulerVars(part = "scheduler" /\ Scheduler!Returns(w))
    /\ \A w \in 0..1 : WF_SchedulerVars(part = "scheduler" /\ Scheduler!Busy(w))
    /\ \A w \in 0..1 : WF_SchedulerVars(part = "scheduler" /\ Scheduler!suspend(w))
    /\ WF_SchedulerVars(part = "scheduler" /\ Scheduler!schedule_global(p1))

IoSpec == IoInit /\ [][IoNext]_IoVars /\ IoFairness

-----------------------------------------------------------------------------
(* del_fd against select: an event that epoll_wait has already returned    *)
(* points to an EventData that is not freed before the event is handled,   *)
(* although the socket was dropped meanwhile on another thread.            *)
EventDataLive == UnixIo!EventDataLive

(* The edge-triggered protocol (io_flag is cleared, the system call would  *)
(* block, the coroutine is published, io_flag is read): a coroutine does   *)
(* not stay suspended while its call could go on, or after an event.       *)
IoWakes == UnixIo!IoWakes

-----------------------------------------------------------------------------
(* iocp.rs `data.co.take().expect("can't get co in selector")`: while the  *)
(* system has an operation's OVERLAPPED, or its packet is on the port, the *)
(* EventData around it is alive and holds the coroutine, whatever timeouts *)
(* and cancels do.                                                         *)
OverlappedHeld == WinIo!OverlappedHeld

(* DelayDrop: the coroutine does not leave the operation's stack frame     *)
(* while `subscribe` still runs in it on another thread, unless a cancel   *)
(* makes the yield_now of DelayDrop's own wait panic.                      *)
SubscribeOutlived == WinIo!SubscribeOutlived

-----------------------------------------------------------------------------
(* No wake-up is lost (schedule_global against select): a coroutine that   *)
(* is ready in a queue is run by some worker, whatever the selector.  One  *)
(* in a global queue is run although its worker's select is not promised   *)
(* to time out; one that a coroutine resumed by an io timer has left in    *)
(* the local queue, without a wake-up, is run when that select times out.  *)
ReadyRuns == Scheduler!ReadyRuns

-----------------------------------------------------------------------------
\* A coroutine is in one place at a time, and so resumed once: on the
\* scheduler's queues and workers, and between the selector, the timers, the
\* canceler and the io it waits in.
CoroutineOnce ==
    /\ UnixIo!HeldOnce
    /\ Scheduler!CoroutineOnce

\* A canceled coroutine does not stay suspended in an io operation that
\* registers for cancellation, whenever the cancel comes.
CanceledIoWakes ==
    /\ UnixIo!IoCancelWakes
    /\ WinIo!WinCancelWakes
=============================================================================
