-------------------------------- MODULE Mpsc --------------------------------
(***************************************************************************)
(* may::sync::mpsc (src/src/sync/mpsc.rs): a queue, one slot for the       *)
(* waiting receiver, a count of senders.  Rx receives again and again and  *)
(* is dropped; each of Senders sends up to MaxSends values and is dropped. *)
(***************************************************************************)
EXTENDS Integers, Sequences

CONSTANTS Rx, Senders, FirstTx,
          MaxSends, MaxRecvs   \* bounds on the calls made

VARIABLES pc,
          queue,               \* values, each named by its sender
          to_wake,             \* the Blocker of the present wait is registered
          channels, port_dropped,
          token,               \* it has been unparked
          stage,               \* which try_recv of recv() this is
          mode,                \* recv, recv_timeout or try_recv
          calls                \* calls each handle may still make

chan == <<queue, to_wake, channels, port_dropped>>
rx == <<stage, mode>>
vars == <<pc, chan, rx, token, calls>>

Step(a, from, to) == pc[a] = from /\ pc' = [pc EXCEPT ![a] = to]

Init ==
    /\ pc = [a \in Senders \cup {Rx} |-> IF a \in {Rx, FirstTx} THEN "idle" ELSE "unborn"]
    /\ queue = <<>> /\ to_wake = FALSE /\ channels = 1 /\ port_dropped = FALSE
    /\ token = FALSE /\ stage = 0 /\ mode = "none"
    /\ calls = [a \in Senders \cup {Rx} |-> IF a = Rx THEN MaxRecvs ELSE MaxSends]

-----------------------------------------------------------------------------
(* Senders                                                                 *)

\* mutant of clone_chan: the clone is not counted
clone_chan_uncounted(s) ==
    /\ \E t \in Senders : pc[t] = "idle"
    /\ Step(s, "unborn", "idle")
    /\ UNCHANGED <<chan, rx, token, calls>>

clone_chan(s) ==
    /\ \E t \in Senders : pc[t] = "idle"
    /\ Step(s, "unborn", "idle")
    /\ channels' = channels + 1
    /\ UNCHANGED <<queue, to_wake, port_dropped, rx, token, calls>>

\* to_wake.take() and unpark: of the Blocker that waits now, or of one that no
\* longer matters
TakeWaiter == to_wake' = FALSE /\ token' = (token \/ to_wake)

\* mutant of send: the waiter is taken before the value is queued
send_wake_first(s) ==
    /\ \/ /\ calls[s] > 0
          /\ Step(s, "idle", IF port_dropped THEN "idle" ELSE "push")
          /\ calls' = [calls EXCEPT ![s] = @ - 1]
          /\ UNCHANGED <<queue, to_wake, token>>
       \/ Step(s, "push", "wake") /\ TakeWaiter /\ UNCHANGED <<queue, calls>>
       \/ Step(s, "wake", "idle") /\ queue' = Append(queue, s) /\ UNCHANGED <<to_wake, token, calls>>
    /\ UNCHANGED <<channels, port_dropped, rx>>

send(s) ==
    /\ \/ /\ calls[s] > 0
          /\ Step(s, "idle", IF port_dropped THEN "idle" ELSE "push")
          /\ calls' = [calls EXCEPT ![s] = @ - 1]
          /\ UNCHANGED <<queue, to_wake, token>>
       \/ Step(s, "push", "wake") /\ queue' = Append(queue, s) /\ UNCHANGED <<to_wake, token, calls>>
       \/ Step(s, "wake", "idle") /\ TakeWaiter /\ UNCHANGED <<queue, calls>>
    /\ UNCHANGED <<channels, port_dropped, rx>>

\* the last sender wakes the receiver
drop_chan(s) ==
    /\ \/ /\ Step(s, "idle", IF channels = 1 THEN "drop_wake" ELSE "gone")
          /\ channels' = channels - 1
          /\ UNCHANGED <<to_wake, token>>
       \/ Step(s, "drop_wake", "gone") /\ TakeWaiter /\ UNCHANGED channels
    /\ UNCHANGED <<queue, port_dropped, rx, calls>>

-----------------------------------------------------------------------------
(* The receiver                                                            *)

\* what recv() does with an Empty of its first, second and last try_recv, and
\* the loops around it; try_recv() is stage 0
Empty(k) ==
    CASE k = 0 -> "idle" [] k = 1 -> "register" [] k = 2 -> "park"
      [] k = 3 -> IF mode = "recv" THEN "again" ELSE "deadline"

\* a value or Disconnected: the second try_recv drops the registration
Return(k) == IF k = 2 THEN "clear" ELSE "idle"

try_recv ==
    /\ \/ /\ queue # <<>>
          /\ Step(Rx, "pop", Return(stage)) \/ Step(Rx, "repop", Return(stage))
          /\ queue' = Tail(queue)
       \/ queue = <<>> /\ Step(Rx, "pop", "load") /\ UNCHANGED queue
       \/ Step(Rx, "load", IF channels > 0 THEN Empty(stage) ELSE "repop") /\ UNCHANGED queue
       \/ /\ queue = <<>>
          /\ Step(Rx, "repop", IF stage = 2 THEN "clear_disconnected" ELSE "disconnected")
          /\ UNCHANGED queue
    /\ UNCHANGED <<to_wake, channels, port_dropped, rx, token, calls>>

recv_call ==
    /\ calls[Rx] > 0
    /\ Step(Rx, "idle", "pop")
    /\ mode' \in {"try_recv", "recv", "recv_timeout"}
    /\ stage' = IF mode' = "try_recv" THEN 0 ELSE 1
    /\ calls' = [calls EXCEPT ![Rx] = @ - 1]
    /\ UNCHANGED <<chan, token>>

\* register, look again, park, look a last time
recv ==
    /\ \/ /\ Step(Rx, "register", "pop")
          /\ to_wake' = TRUE /\ token' = FALSE /\ stage' = 2
       \/ /\ token
          /\ Step(Rx, "park", "pop")
          /\ token' = FALSE /\ stage' = 3
          /\ UNCHANGED to_wake
       \/ /\ Step(Rx, "clear", "idle") \/ Step(Rx, "clear_disconnected", "disconnected")
          /\ to_wake' = FALSE
          /\ UNCHANGED <<token, stage>>
       \/ /\ Step(Rx, "again", "pop")
          /\ stage' = 1
          /\ UNCHANGED <<to_wake, token>>
    /\ UNCHANGED <<queue, channels, port_dropped, mode, calls>>

\* recv_timeout: the park times out and drops its registration, or the
\* deadline is found to have passed
recv_timeout ==
    /\ mode = "recv_timeout"
    /\ \/ /\ Step(Rx, "park", "pop")
          /\ to_wake' = FALSE /\ stage' = 3
       \/ /\ Step(Rx, "deadline", "idle") \/ Step(Rx, "deadline", "pop")
          /\ to_wake' = to_wake /\ stage' = 1
    /\ UNCHANGED <<queue, channels, port_dropped, mode, token, calls>>

\* a cancel unwinds out of the park, with the registration in place
recv_canceled ==
    /\ Step(Rx, "park", "drop")
    /\ UNCHANGED <<chan, rx, token, calls>>

\* Drop for Receiver: the flag, then the drain
drop_port ==
    /\ \/ /\ Step(Rx, "idle", "drain") \/ Step(Rx, "drop", "drain") \/ Step(Rx, "disconnected", "drain")
          /\ port_dropped' = TRUE
          /\ queue' = queue
       \/ /\ queue # <<>> /\ pc[Rx] = "drain"
          /\ queue' = Tail(queue)
          /\ UNCHANGED <<pc, port_dropped>>
       \/ queue = <<>> /\ Step(Rx, "drain", "gone") /\ UNCHANGED <<queue, port_dropped>>
    /\ UNCHANGED <<to_wake, channels, rx, token, calls>>

-----------------------------------------------------------------------------

RunTx(s) == (pc[s] \in {"push", "wake"} /\ send(s)) \/ (pc[s] = "drop_wake" /\ drop_chan(s))
RunRx == try_recv \/ recv

Quiet ==
    /\ pc[Rx] \in {"gone", "park"}
    /\ \A s \in Senders : pc[s] \in {"unborn", "gone"}
    /\ UNCHANGED vars

Next ==
    \/ RunRx \/ recv_call \/ recv_timeout \/ recv_canceled \/ drop_port
    \/ \E s \in Senders : clone_chan(s) \/ send(s) \/ drop_chan(s)
    \/ Quiet

\* handles finish the call they are in
Fairness == WF_vars(RunRx) /\ \A s \in Senders : WF_vars(RunTx(s))

Spec == Init /\ [][Next]_vars /\ Fairness

-----------------------------------------------------------------------------

\* recv() wakes up for a value and for the end of the last sender.
RecvWakes == []<>(pc[Rx] = "park" => queue = <<>> /\ channels > 0)

\* Disconnected is returned only when every value has been received and
\* every sender is gone.
DisconnectedLast ==
    pc[Rx] = "disconnected" => queue = <<>> /\ \A s \in Senders : pc[s] \in {"unborn", "drop_wake", "gone"}

\* debug_assert!(self.to_wake.take().is_none()) and channels == 0 in the drop
\* of the InnerQueue, also after a recv() that was canceled.
NoWaiterLeft ==
    (pc[Rx] = "gone" /\ \A s \in Senders : pc[s] \in {"unborn", "gone"}) => ~to_wake /\ channels = 0
=============================================================================
