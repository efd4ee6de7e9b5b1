----------------------------- MODULE MCChannels -----------------------------
(***************************************************************************)
(* The channels of src/src/sync, the scopes of src/src/scoped.rs and the   *)
(* select of src/src/cqueue.rs on small instances.  The components do not  *)
(* share state: a behaviour is one of them, chosen by `part`, with its own *)
(* variables, its own next-state relation and its own fairness.            *)
(***************************************************************************)
EXTENDS Mpmc, Naturals, FiniteSets, Sequences, TLC

CONSTANTS
    r1, r2, s1, s2, None

VARIABLES part,     \* the component that runs
\* Mpsc
    m_pc, m_queue, m_to_wake, m_channels, m_port_dropped, m_token, m_stage,
    m_mode, m_calls,
\* Spsc
    s_is_coroutine, s_rx, s_kernel, s_tx, s_queue, s_wait_co, s_timeout_wait,
    s_channels, s_port_dropped, s_cell, s_cancel_co, s_canceled, s_timer,
    s_para, s_inline, s_token, s_arc, s_mode, s_stage, s_sends, s_recvs,
\* Scope
    k_pc, k_finished, k_jwake, k_token, k_packet, k_panic, k_canceled,
    k_dtors, k_joined, k_cur, k_ret, k_unwinding, k_value, k_muted,
\* Cqueue
    q_pc, q_finished, q_jwake, q_token, q_ev_queue, q_registered, q_woken,
    q_cnt, q_selectors, q_is_panicking, q_poisoned, q_kernel, q_sent,
    q_failed, q_canceled, q_cur, q_ret

Mpsc == INSTANCE Mpsc WITH
    pc <- m_pc, queue <- m_queue, to_wake <- m_to_wake,
    channels <- m_channels, port_dropped <- m_port_dropped, token <- m_token,
    stage <- m_stage, mode <- m_mode, calls <- m_calls, Rx <- r1,
    Senders <- {s1, s2}, FirstTx <- s1, MaxSends <- 2, MaxRecvs <- 3
Spsc == INSTANCE Spsc WITH
    is_coroutine <- s_is_coroutine, rx <- s_rx, kernel <- s_kernel,
    tx <- s_tx, queue <- s_queue, wait_co <- s_wait_co,
    timeout_wait <- s_timeout_wait, channels <- s_channels,
    port_dropped <- s_port_dropped, cell <- s_cell, cancel_co <- s_cancel_co,
    canceled <- s_canceled, timer <- s_timer, para <- s_para,
    inline <- s_inline, token <- s_token, arc <- s_arc, mode <- s_mode,
    stage <- s_stage, sends <- s_sends, recvs <- s_recvs, MaxSends <- 2,
    MaxRecvs <- 2
Scope == INSTANCE Scope WITH
    pc <- k_pc, finished <- k_finished, jwake <- k_jwake, token <- k_token,
    packet <- k_packet, panic <- k_panic, canceled <- k_canceled,
    dtors <- k_dtors, joined <- k_joined, cur <- k_cur, ret <- k_ret,
    unwinding <- k_unwinding, value <- k_value, muted <- k_muted,
    Parent <- r1, Kids <- {s1, s2}, Panicky <- {r1, s1},
    Cancelable <- {r1, s2}, None <- None
Cqueue == INSTANCE Cqueue WITH
    pc <- q_pc, finished <- q_finished, jwake <- q_jwake, token <- q_token,
    ev_queue <- q_ev_queue, registered <- q_registered, woken <- q_woken,
    cnt <- q_cnt, selectors <- q_selectors, is_panicking <- q_is_panicking,
    poisoned <- q_poisoned, kernel <- q_kernel, sent <- q_sent,
    failed <- q_failed, canceled <- q_canceled, cur <- q_cur, ret <- q_ret,
    Owner <- r1, Sels <- {s1, s2}, Panicky <- {s1}, MaxSends <- 1,
    None <- None

MpscVars ==
    <<m_pc, m_queue, m_to_wake, m_channels, m_port_dropped, m_token, m_stage,
    m_mode, m_calls>>
SpscVars ==
    <<s_is_coroutine, s_rx, s_kernel, s_tx, s_queue, s_wait_co,
    s_timeout_wait, s_channels, s_port_dropped, s_cell, s_cancel_co,
    s_canceled, s_timer, s_para, s_inline, s_token, s_arc, s_mode, s_stage,
    s_sends, s_recvs>>
ScopeVars ==
    <<k_pc, k_finished, k_jwake, k_token, k_packet, k_panic, k_canceled,
    k_dtors, k_joined, k_cur, k_ret, k_unwinding, k_value, k_muted>>
CqueueVars ==
    <<q_pc, q_finished, q_jwake, q_token, q_ev_queue, q_registered, q_woken,
    q_cnt, q_selectors, q_is_panicking, q_poisoned, q_kernel, q_sent,
    q_failed, q_canceled, q_cur, q_ret>>

\* one component is chosen; the others stay in their initial state
ChannelInit ==
    /\ part \in {"mpmc", "mpsc", "spsc", "scope", "cqueue"}
    /\ Init
    /\ Mpsc!Init
    /\ Spsc!Init
    /\ part # "spsc" => s_is_coroutine
    /\ Scope!Init
    /\ Cqueue!Init

ChannelNext ==
    \/ /\ part = "mpmc" /\ Next
       /\ UNCHANGED <<part, MpscVars, SpscVars, ScopeVars, CqueueVars>>
    \/ /\ part = "mpsc" /\ Mpsc!Next
       /\ UNCHANGED <<part, vars, SpscVars, ScopeVars, CqueueVars>>
    \/ /\ part = "spsc" /\ Spsc!Next
       /\ UNCHANGED <<part, vars, MpscVars, ScopeVars, CqueueVars>>
    \/ /\ part = "scope" /\ Scope!Next
       /\ UNCHANGED <<part, vars, MpscVars, SpscVars, CqueueVars>>
    \/ /\ part = "cqueue" /\ Cqueue!Next
       /\ UNCHANGED <<part, vars, MpscVars, SpscVars, ScopeVars>>

ChannelVars ==
    <<part, vars, MpscVars, SpscVars, ScopeVars, CqueueVars>>

\* the fairness of each component, while it is the one that runs
ChannelFairness ==
    /\ \A s \in Senders : WF_vars(part = "mpmc" /\ SenderStep(s))
    /\ \A r \in Receivers : WF_vars(part = "mpmc" /\ ReceiverStep(r))
    /\ WF_MpscVars(part = "mpsc" /\ Mpsc!RunRx)
    /\ \A s \in {s1, s2} : WF_MpscVars(part = "mpsc" /\ Mpsc!RunTx(s))
    /\ WF_SpscVars(part = "spsc" /\ Spsc!RunRx)
    /\ WF_SpscVars(part = "spsc" /\ Spsc!RunKernel)
    /\ WF_SpscVars(part = "spsc" /\ Spsc!RunTx)
    /\ WF_ScopeVars(part = "scope" /\ Scope!RunParent)
    /\ \A k \in {s1, s2} : WF_ScopeVars(part = "scope" /\ Scope!run_coroutine(k))
    /\ WF_CqueueVars(part = "cqueue" /\ Cqueue!RunOwner)
    /\ \A s \in {s1, s2} : WF_CqueueVars(part = "cqueue" /\ Cqueue!RunSel(s))

ChannelSpec == ChannelInit /\ [][ChannelNext]_ChannelVars /\ ChannelFairness

-----------------------------------------------------------------------------
\* One resume per wait, and none that pulls the memory from under subscribe().
SpscSafe == Spsc!SpscSafe

-----------------------------------------------------------------------------
\* A scope is left only when the coroutines in it have ended, those of a
\* select included, and left normally only with their results, but for what a
\* join meets while another unwind is in flight on its thread.
ScopeSafe ==
    /\ Scope!ScopeOutlives
    /\ Scope!PanicPropagates
    /\ Cqueue!SelectorsCounted

\* recv() and try_recv() report the end of an mpsc or spsc channel only when
\* every value has been received and every sender is gone, and an mpsc queue
\* is dropped with no waiter in it.
EndIsReal ==
    /\ Mpsc!DisconnectedLast
    /\ Mpsc!NoWaiterLeft
    /\ Spsc!DisconnectedReal

\* A receiver does not sleep on beside a value, nor, in mpsc and spsc, after
\* the last sender is gone.
ReceiversWake ==
    /\ ValueReceived
    /\ Mpsc!RecvWakes
    /\ Spsc!SpscRecvWakes

\* The end of a coroutine, or its event, wakes the one that joins it or polls
\* for it.
JoinsWake ==
    /\ Scope!JoinWakes
    /\ Cqueue!PollWakes
=============================================================================
