-------------------------------- MODULE Mpmc --------------------------------
(***************************************************************************)
(* may::sync::mpmc (src/src/sync/mpmc.rs): an unbounded channel made of a  *)
(* SegQueue, a Semphore with one permit per queued value, and two port     *)
(* counters.  The semaphore is module Semphore: a receiver is a wait call, *)
(* a sender the caller of post, and the stop predicate of                  *)
(* wait_timeout_until is tx_ports = 0.                                     *)
(*                                                                         *)
(* A receiver handle makes one recv, recv_timeout or try_recv call and is  *)
(* dropped; a sender handle sends up to MaxSends values and is dropped.    *)
(* Handles other than the first of each kind are clones.                   *)
(***************************************************************************)
EXTENDS Integers, Sequences, FiniteSets

CONSTANTS Receivers, Senders, FirstRx, FirstTx,
          Leavers,     \* receivers that can time out or be canceled
          MaxSends,    \* bound: values sent on one handle
          NoCall

ASSUME MpmcAssumption ==
    /\ IsFiniteSet(Receivers) /\ IsFiniteSet(Senders)
    /\ Receivers \cap Senders = {}
    /\ FirstRx \in Receivers
    /\ FirstTx \in Senders
    /\ Leavers \subseteq Receivers
    /\ MaxSends \in Nat
    /\ NoCall \notin Receivers \cup Senders

VARIABLES queue,      \* InnerQueue.queue; a value is the handle that sent it
          tx_ports, rx_ports,
          at,         \* where each handle is in its channel operation
          sends,      \* values each sender may still send
          cnt, to_wake, unparked, release, token, pc, w, then   \* InnerQueue.sem

chanVars == <<queue, tx_ports, rx_ports, at, sends>>
semVars == <<cnt, to_wake, unparked, release, token, pc, w, then>>
vars == <<chanVars, semVars>>

Sem == INSTANCE Semphore WITH
    Waits <- Receivers, Posts <- Senders, Stoppable <- Receivers, Permits <- 0,
    stopped <- (tx_ports = 0)

Handles == Receivers \cup Senders

\* Type invariant: the queue holds values of the senders, the port counters
\* never underflow (the debug_assert of drop_tx and drop_rx).
TypeOK ==
    /\ queue \in Seq(Senders)
    /\ tx_ports \in 0..Cardinality(Senders)
    /\ rx_ports \in 0..Cardinality(Receivers)
    /\ at \in [Handles -> {"unborn", "idle", "push", "post", "drain", "drain_post",
                           "try", "load", "wait", "pop", "noitem", "ok", "empty",
                           "disc", "timeout", "clear", "gone"}]
    /\ sends \in [Senders -> 0..MaxSends]
    /\ cnt \in Int /\ to_wake \in Seq(Receivers)

\* channel(), with its two handles
Init ==
    /\ queue = <<>>
    /\ tx_ports = 1
    /\ rx_ports = 1
    /\ at = [h \in Handles |-> IF h \in {FirstRx, FirstTx} THEN "idle" ELSE "unborn"]
    /\ sends = [s \in Senders |-> MaxSends]
    /\ cnt = 0
    /\ to_wake = <<>>
    /\ unparked = [r \in Receivers |-> FALSE]
    /\ release = [r \in Receivers |-> FALSE]
    /\ token = [r \in Receivers |-> FALSE]
    /\ pc = [h \in Handles |-> IF h \in Receivers THEN "start" ELSE "posted"]
    /\ w = [h \in Handles |-> NoCall]
    /\ then = [h \in Handles |-> IF h \in Receivers THEN "stop" ELSE "posted"]

Go(h, from, to) == at[h] = from /\ at' = [at EXCEPT ![h] = to]

\* h enters, or re-enters, the semaphore at operation op
Enter(h, op) == pc' = [pc EXCEPT ![h] = op]

semFrame == <<cnt, to_wake, unparked, release, token, w, then>>

-----------------------------------------------------------------------------
(* Senders                                                                 *)

\* Sender::clone, through a handle that is alive
clone_tx(s) ==
    /\ \E t \in Senders : at[t] = "idle"
    /\ Go(s, "unborn", "idle")
    /\ tx_ports' = tx_ports + 1
    /\ UNCHANGED <<queue, rx_ports, sends, semVars>>

\* send: Err if rx_ports is 0
send_check(s) ==
    /\ sends[s] > 0
    /\ Go(s, "idle", IF rx_ports = 0 THEN "idle" ELSE "push")
    /\ sends' = [sends EXCEPT ![s] = @ - 1]
    /\ UNCHANGED <<queue, tx_ports, rx_ports, semVars>>

\* queue.push(t), then into sem.post()
send_push(s) ==
    /\ Go(s, "push", "post")
    /\ queue' = Append(queue, s)
    /\ Enter(s, "post")
    /\ UNCHANGED <<tx_ports, rx_ports, sends, semFrame>>

send_return(s) ==
    /\ pc[s] = "posted"
    /\ Go(s, "post", "idle")
    /\ UNCHANGED <<queue, tx_ports, rx_ports, sends, semVars>>

\* the steps of sem.post(), for send and for the wake-up loop of drop_tx
post_step(s) ==
    /\ at[s] \in {"post", "drain_post"}
    /\ UNCHANGED chanVars
    /\ Sem!post_cnt(s) \/ Sem!Wakeup(s)

\* tx_ports.fetch_sub(1); the last sender wakes the receivers
drop_tx(s) ==
    /\ Go(s, "idle", IF tx_ports = 1 THEN "drain" ELSE "gone")
    /\ tx_ports' = tx_ports - 1
    /\ UNCHANGED <<queue, rx_ports, sends, semVars>>

\* while sem.has_waiters() { sem.post() }
drain_waiters(s) ==
    /\ cnt < 0
    /\ Go(s, "drain", "drain_post")
    /\ Enter(s, "post")
    /\ UNCHANGED <<queue, tx_ports, rx_ports, sends, semFrame>>

drain_end(s) ==
    /\ cnt >= 0
    /\ Go(s, "drain", "gone")
    /\ UNCHANGED <<queue, tx_ports, rx_ports, sends, semVars>>

drain_posted(s) ==
    /\ pc[s] = "posted"
    /\ Go(s, "drain_post", "drain")
    /\ UNCHANGED <<queue, tx_ports, rx_ports, sends, semVars>>

-----------------------------------------------------------------------------
(* Receivers                                                               *)

\* Receiver::clone, through a handle that is alive, in a call or not
clone_rx(r) ==
    /\ \E t \in Receivers : at[t] \notin {"unborn", "clear", "gone"}
    /\ Go(r, "unborn", "idle")
    /\ rx_ports' = rx_ports + 1
    /\ UNCHANGED <<queue, tx_ports, sends, semVars>>

\* try_recv, the start of recv too: sem.try_wait() takes a permit ...
try_recv(r) ==
    /\ Go(r, "idle", "pop")
    /\ UNCHANGED <<queue, tx_ports, rx_ports, sends>>
    /\ Sem!try_wait(r)

\* ... or fails
try_recv_refused(r) ==
    /\ Go(r, "idle", "load")
    /\ UNCHANGED <<queue, tx_ports, rx_ports, sends>>
    /\ Sem!try_wait_refused(r)

\* and then tx_ports tells Disconnected from Empty, of try_recv
try_recv_load(r) ==
    /\ Go(r, "load", IF tx_ports = 0 THEN "disc" ELSE "empty")
    /\ UNCHANGED <<queue, tx_ports, rx_ports, sends, semVars>>

\* ... and recv waits on Empty
recv_load(r) ==
    /\ Go(r, "load", IF tx_ports = 0 THEN "disc" ELSE "wait")
    /\ Enter(r, IF tx_ports = 0 THEN "refused" ELSE "start")
    /\ UNCHANGED <<queue, tx_ports, rx_ports, sends, semFrame>>

\* sem.wait_timeout_until(dur, || tx_ports == 0)
wait_step(r) ==
    /\ at[r] = "wait"
    /\ UNCHANGED chanVars
    /\ \/ Sem!try_wait(r) \/ Sem!wait_blocks(r) \/ Sem!Wait(r)
       \/ Sem!post_cnt(r) \/ Sem!Wakeup(r)

wait_err(r) ==
    /\ at[r] = "wait"
    /\ UNCHANGED chanVars
    /\ Sem!park_err(r)

\* the WaitStatus; a cancel panic unwinds from here like a timeout
wait_return(r) ==
    /\ \/ pc[r] = "acquired" /\ Go(r, "wait", "pop")
       \/ pc[r] = "stopped" /\ Go(r, "wait", "disc")
       \/ pc[r] = "left" /\ Go(r, "wait", "timeout")
    /\ UNCHANGED <<queue, tx_ports, rx_ports, sends, semVars>>

\* queue.pop() by the owner of a permit
pop_item(r) ==
    /\ Go(r, "pop", IF queue = <<>> THEN "noitem" ELSE "ok")
    /\ queue' = IF queue = <<>> THEN queue ELSE Tail(queue)
    /\ UNCHANGED <<tx_ports, rx_ports, sends, semVars>>

\* no item: a disconnect wakeup; the debug_assert of the other case is
\* ItemForPermit below
pop_none(r) ==
    /\ Go(r, "noitem", "disc")
    /\ UNCHANGED <<queue, tx_ports, rx_ports, sends, semVars>>

\* mutant of drop_rx: every receiver dropped clears the queue
drop_rx_clear(r) ==
    /\ at[r] \in {"idle", "ok", "empty", "disc", "timeout"}
    /\ at' = [at EXCEPT ![r] = "clear"]
    /\ rx_ports' = rx_ports - 1
    /\ UNCHANGED <<queue, tx_ports, sends, semVars>>

\* rx_ports.fetch_sub(1); the last receiver clears the queue
drop_rx(r) ==
    /\ at[r] \in {"idle", "ok", "empty", "disc", "timeout"}
    /\ at' = [at EXCEPT ![r] = IF rx_ports = 1 THEN "clear" ELSE "gone"]
    /\ rx_ports' = rx_ports - 1
    /\ UNCHANGED <<queue, tx_ports, sends, semVars>>

\* while queue.pop().is_some() {}
clear_queue(r) ==
    /\ Go(r, "clear", IF queue = <<>> THEN "gone" ELSE "clear")
    /\ queue' = IF queue = <<>> THEN queue ELSE Tail(queue)
    /\ UNCHANGED <<tx_ports, rx_ports, sends, semVars>>

-----------------------------------------------------------------------------

\* what a handle does once it is in a call
SenderStep(s) ==
    \/ send_push(s) \/ send_return(s) \/ post_step(s)
    \/ drain_waiters(s) \/ drain_end(s) \/ drain_posted(s)

ReceiverStep(r) ==
    \/ try_recv_load(r) \/ recv_load(r) \/ wait_step(r) \/ wait_return(r)
    \/ pop_item(r) \/ pop_none(r) \/ clear_queue(r)

\* every handle is dropped or was never made
Finished ==
    /\ \A h \in Handles : at[h] \in {"unborn", "gone"}
    /\ UNCHANGED vars

Next ==
    \/ \E s \in Senders : clone_tx(s) \/ send_check(s) \/ drop_tx(s) \/ SenderStep(s)
    \/ \E r \in Receivers : \/ clone_rx(r) \/ try_recv(r) \/ try_recv_refused(r)
                            \/ wait_err(r) \/ drop_rx(r) \/ ReceiverStep(r)
    \/ Finished

Spec == Init /\ [][Next]_vars

\* a call that has begun runs on; nobody is obliged to send, clone or drop
FairSpec ==
    /\ Spec
    /\ \A s \in Senders : WF_vars(SenderStep(s))
    /\ \A r \in Receivers : WF_vars(ReceiverStep(r))

-----------------------------------------------------------------------------
(* Safety                                                                  *)

\* The debug_assert "a semaphore permit had no queued item" of recv and
\* try_recv: a permit without a value means that every sender is gone.
ItemForPermit ==
    \A r \in Receivers : at[r] = "noitem" => tx_ports = 0

\* While the channel is open at both ends the semaphore's permits and the
\* queued values are the same number, up to the sends between push and post
\* and the receivers between acquire and pop.
PermitPerItem ==
    tx_ports > 0 /\ rx_ports > 0 =>
        cnt + Cardinality(Sem!Slots)
            + Cardinality({s \in Senders : at[s] = "post" /\ pc[s] = "post"})
        = Len(queue)
            - Cardinality({r \in Receivers : \/ at[r] = "pop"
                                             \/ at[r] = "wait" /\ pc[r] = "acquired"})

\* Disconnected is reported only once every sender is gone.
DisconnectedIsFinal ==
    \A r \in Receivers : at[r] = "disc" => tx_ports = 0

\* The channel and its semaphore agree: a value for every permit, a permit for
\* every value, and Disconnected only when every sender is gone.
MpmcSafe == TypeOK /\ ItemForPermit /\ PermitPerItem /\ DisconnectedIsFinal

-----------------------------------------------------------------------------
(* Liveness                                                                *)

\* "wake every parked receiver so it observes the disconnect" (drop_tx): no
\* receiver sleeps on after the last sender is gone, however its registration
\* and the wake-up loop of drop_tx interleave.
RecvEnds ==
    \A r \in Receivers : (at[r] = "wait" /\ tx_ports = 0) ~> at[r] # "wait"

\* A queued value and a waiting receiver do not stay side by side.
ValueReceived ==
    \A r \in Receivers :
        []<>(at[r] = "wait" => queue = <<>>)
=============================================================================
