-------------------------------- MODULE Spsc --------------------------------
(***************************************************************************)
(* may::sync::spsc (src/src/sync/spsc.rs).  Tx sends and is dropped; Rx    *)
(* receives, as a coroutine by recv (event source Park) and recv_timeout   *)
(* (RecvTimeoutSource), or as a thread; Kernel is the subscribe() of the   *)
(* event source Rx has yielded with.  The coroutine of a wait lies in a    *)
(* cell that send, drop, timer and cancel race to empty.                   *)
(***************************************************************************)
EXTENDS Integers, Sequences

CONSTANTS MaxSends, MaxRecvs   \* bounds on the calls made

VARIABLES is_coroutine,        \* whether Rx is a coroutine
          rx, kernel, tx,      \* program counters
          queue,               \* number of values queued
          wait_co, timeout_wait, \* the slots: none, cur (the present wait) or old
          channels, port_dropped,
          cell,                \* the coroutine is in the cell of the present wait
          cancel_co,           \* Cancel.co refers to that cell
          canceled, timer, para, \* Cancel.state, armed timer, TimedOut in co_para
          inline,              \* Rx runs inside subscribe()
          token,               \* thread unpark token
          arc,                 \* the cell Tx has taken from a slot
          mode, stage, sends, recvs

chan == <<queue, wait_co, timeout_wait, channels, port_dropped>>
wait == <<cell, cancel_co, timer, inline, token>>
bound == <<mode, stage, sends, recvs>>
vars == <<is_coroutine, rx, kernel, tx, chan, wait, canceled, para, arc, bound>>

Init ==
    /\ is_coroutine \in BOOLEAN
    /\ rx = "idle" /\ kernel = "none" /\ tx = "idle"
    /\ queue = 0 /\ wait_co = "none" /\ timeout_wait = "none"
    /\ channels = 1 /\ port_dropped = FALSE
    /\ cell = FALSE /\ cancel_co = FALSE /\ timer = FALSE /\ inline = FALSE /\ token = FALSE
    /\ canceled = FALSE /\ para = FALSE /\ arc = "none"
    /\ mode = "none" /\ stage = 0 /\ sends = MaxSends /\ recvs = MaxRecvs

\* get_scheduler().schedule(co) of the coroutine taken out of the cell
Schedule == rx' = IF cell THEN "resumed" ELSE rx

\* mutant of TakeCell: the coroutine is scheduled and left in the cell
TakeCellPeek == cell' = cell /\ Schedule

\* the cell is an AtomicOption: one taker gets the coroutine
TakeCell == cell' = FALSE /\ Schedule

-----------------------------------------------------------------------------
(* The sender                                                              *)

send ==
    /\ \/ /\ sends > 0 /\ tx = "idle"
          /\ tx' = IF port_dropped THEN "idle" ELSE "push"
          /\ sends' = sends - 1
          /\ UNCHANGED queue
       \/ tx = "push" /\ tx' = "take_wait" /\ queue' = queue + 1 /\ UNCHANGED sends
       \/ tx = "sent" /\ channels > 0 /\ tx' = "idle" /\ UNCHANGED <<queue, sends>>
    /\ UNCHANGED <<rx, kernel, wait_co, timeout_wait, channels, port_dropped, wait, canceled, para, arc, mode, stage, recvs>>

drop_chan ==
    /\ \/ tx = "idle" /\ channels' = 0
       \/ tx = "sent" /\ channels = 0 /\ channels' = 0
    /\ tx' = IF tx = "idle" THEN "take_wait" ELSE "gone"
    /\ UNCHANGED <<rx, kernel, queue, wait_co, timeout_wait, port_dropped, wait, canceled, para, arc, bound>>

\* wait_co.take() and Blocker::unpark, then timeout_wait.take() and its cell
wake ==
    /\ \/ /\ tx = "take_wait" /\ tx' = "unpark"
          /\ arc' = wait_co /\ wait_co' = "none"
          /\ UNCHANGED <<rx, timeout_wait, cell, token>>
       \/ /\ tx = "unpark" /\ tx' = "take_timeout"
          /\ arc' = "none"
          /\ IF arc = "cur" /\ is_coroutine THEN TakeCell /\ UNCHANGED token
                                         ELSE token' = (token \/ arc # "none") /\ UNCHANGED <<rx, cell>>
          /\ UNCHANGED <<wait_co, timeout_wait>>
       \/ /\ tx = "take_timeout" /\ tx' = "take_cell"
          /\ arc' = timeout_wait /\ timeout_wait' = "none"
          /\ UNCHANGED <<rx, wait_co, cell, token>>
       \/ /\ tx = "take_cell" /\ tx' = "sent"
          /\ arc' = "none"
          /\ IF arc = "cur" THEN TakeCell ELSE UNCHANGED <<rx, cell>>
          /\ UNCHANGED <<wait_co, timeout_wait, token>>
    /\ UNCHANGED <<kernel, queue, channels, port_dropped, cancel_co, timer, inline, canceled, para, bound>>

-----------------------------------------------------------------------------
(* The receiver                                                            *)

\* what follows an Empty: of the first try_recv a yield or, in a thread, a
\* registration; of the last one another round or the look at co_para
Empty ==
    CASE mode = "try_recv" -> "idle"
      [] mode # "try_recv" /\ stage = 1 -> IF is_coroutine THEN "yield" ELSE "register"
      [] mode # "try_recv" /\ stage = 2 -> "park"
      [] mode = "recv" /\ stage = 3 -> IF is_coroutine THEN "again" ELSE "register"
      [] mode = "recv_timeout" /\ stage = 3 -> IF is_coroutine THEN "para" ELSE "idle"

\* recv_timeout_co drops its source before it returns
Got == IF is_coroutine /\ mode = "recv_timeout" /\ stage = 3 THEN "drop_got" ELSE "idle"
Disconnected == IF is_coroutine /\ mode = "recv_timeout" /\ stage = 3 THEN "drop_disconnected" ELSE "disconnected"

\* wait_co.clear() of a registered thread that returns
Clear == wait_co' = IF ~is_coroutine /\ stage # 1 THEN "none" ELSE wait_co

recv_call ==
    /\ rx = "idle" /\ recvs > 0
    /\ rx' = "pop" /\ recvs' = recvs - 1 /\ stage' = 1
    /\ mode' \in {"try_recv", "recv", "recv_timeout"}
    /\ UNCHANGED <<kernel, tx, chan, wait, canceled, para, arc, sends>>

try_recv ==
    /\ \/ rx \in {"pop", "repop"} /\ queue > 0 /\ queue' = queue - 1 /\ rx' = Got /\ Clear
       \/ rx = "pop" /\ queue = 0 /\ rx' = "load" /\ UNCHANGED <<queue, wait_co>>
       \/ rx = "load" /\ rx' = (IF channels > 0 THEN Empty ELSE "repop") /\ UNCHANGED <<queue, wait_co>>
       \/ rx = "repop" /\ queue = 0 /\ rx' = Disconnected /\ Clear /\ UNCHANGED queue
    /\ UNCHANGED <<kernel, tx, timeout_wait, channels, port_dropped, wait, canceled, para, arc, bound>>

\* yield_with: a canceled coroutine does not enter the kernel, it unwinds
yield ==
    /\ rx = "yield"
    /\ IF canceled THEN rx' = "unwound" /\ UNCHANGED <<kernel, stage>>
                   ELSE rx' = "suspended" /\ kernel' = "begin" /\ stage' = 3
    /\ wait_co' = IF wait_co = "cur" THEN "old" ELSE wait_co
    /\ timeout_wait' = IF timeout_wait = "cur" THEN "old" ELSE timeout_wait
    /\ arc' = IF arc = "cur" THEN "old" ELSE arc
    /\ cancel_co' = FALSE
    /\ UNCHANGED <<tx, queue, channels, port_dropped, cell, timer, inline, token, canceled, para, mode, sends, recvs>>

Ready == queue > 0 \/ channels = 0

\* Park::subscribe under its DelayDrop guard
park_subscribe ==
    /\ mode = "recv"
    /\ \/ /\ kernel = "begin" /\ kernel' = "recheck"
          /\ cell' = TRUE /\ wait_co' = "cur"
          /\ UNCHANGED <<rx, cancel_co, inline>>
       \/ /\ kernel = "recheck" /\ Ready /\ kernel' = "end"
          /\ wait_co' = "none"
          /\ IF wait_co = "cur" THEN TakeCell /\ inline' = cell ELSE UNCHANGED <<rx, cell, inline>>
          /\ UNCHANGED cancel_co
       \/ /\ kernel = "recheck" /\ ~Ready /\ kernel' = "set_co"
          /\ UNCHANGED <<rx, cell, wait_co, cancel_co, inline>>
       \/ /\ kernel = "set_co" /\ kernel' = "check_cancel"
          /\ cancel_co' = TRUE
          /\ UNCHANGED <<rx, cell, wait_co, inline>>
       \/ /\ kernel = "check_cancel" /\ kernel' = "end"
          /\ IF canceled THEN TakeCell /\ wait_co' = "none" ELSE UNCHANGED <<rx, cell, wait_co>>
          /\ UNCHANGED <<cancel_co, inline>>
       \/ /\ kernel = "end" /\ ~inline /\ kernel' = "none"
          /\ UNCHANGED <<rx, cell, wait_co, cancel_co, inline>>
    /\ UNCHANGED <<tx, queue, timeout_wait, channels, port_dropped, timer, token, canceled, para, arc, bound>>

\* RecvTimeoutSource::subscribe under its DelayDrop guard: the cancel first,
\* the timer last
timeout_subscribe ==
    /\ mode = "recv_timeout"
    /\ \/ /\ kernel = "begin" /\ kernel' = "check_cancel"
          /\ cell' = TRUE /\ cancel_co' = TRUE
          /\ UNCHANGED <<rx, timeout_wait, timer>>
       \/ /\ kernel = "check_cancel" /\ canceled /\ kernel' = "end"
          /\ TakeCell /\ UNCHANGED <<timeout_wait, cancel_co, timer>>
       \/ /\ kernel = "check_cancel" /\ ~canceled /\ kernel' = "recheck"
          /\ timeout_wait' = "cur"
          /\ UNCHANGED <<rx, cell, cancel_co, timer>>
       \/ /\ kernel = "recheck" /\ Ready /\ kernel' = "end"
          /\ TakeCell /\ UNCHANGED <<timeout_wait, cancel_co, timer>>
       \/ /\ kernel = "recheck" /\ ~Ready /\ kernel' = "end"
          /\ timer' = TRUE
          /\ UNCHANGED <<rx, cell, timeout_wait, cancel_co>>
       \/ /\ kernel = "end" /\ kernel' = "none"
          /\ UNCHANGED <<rx, cell, timeout_wait, cancel_co, timer>>
    /\ UNCHANGED <<tx, queue, wait_co, channels, port_dropped, inline, token, canceled, para, arc, bound>>

\* the timer thread: TimedOut for the coroutine it finds in the cell
timer_fire ==
    /\ timer /\ timer' = FALSE
    /\ TakeCell
    /\ para' = (para \/ cell)
    /\ UNCHANGED <<kernel, tx, chan, cancel_co, inline, token, canceled, arc, bound>>

cancel ==
    /\ is_coroutine /\ ~canceled /\ rx # "gone"
    /\ canceled' = TRUE
    /\ IF cancel_co THEN TakeCell ELSE UNCHANGED <<rx, cell>>
    /\ UNCHANGED <<kernel, tx, chan, cancel_co, timer, inline, token, para, arc, bound>>

\* the coroutine is back: yield_back, and the drop of its source, which waits
\* for subscribe() to end and clears the slot; a canceled one unwinds
after_yield ==
    /\ \/ /\ rx = "resumed" /\ mode = "recv" /\ inline /\ ~canceled
          /\ inline' = FALSE
          /\ UNCHANGED <<rx, wait_co, timeout_wait, timer>>
       \/ /\ rx = "resumed" /\ mode = "recv" /\ kernel = "none"
          /\ rx' = (IF canceled THEN "unwound" ELSE "pop")
          /\ wait_co' = "none"
          /\ UNCHANGED <<timeout_wait, timer, inline>>
       \/ /\ rx = "resumed" /\ mode = "recv_timeout" /\ ~canceled
          /\ rx' = "pop" /\ timeout_wait' = "none"
          /\ UNCHANGED <<wait_co, timer, inline>>
       \/ /\ rx = "resumed" /\ mode = "recv_timeout" /\ canceled /\ kernel = "none"
          /\ rx' = "unwound" /\ timeout_wait' = "none" /\ timer' = FALSE
          /\ UNCHANGED <<wait_co, inline>>
       \/ /\ rx \in {"drop_got", "drop_timeout", "drop_disconnected"} /\ kernel = "none"
          /\ rx' = (IF rx = "drop_disconnected" THEN "disconnected" ELSE "idle")
          /\ timeout_wait' = "none" /\ timer' = FALSE
          /\ UNCHANGED <<wait_co, inline>>
    /\ UNCHANGED <<kernel, tx, queue, channels, port_dropped, cell, cancel_co, token, canceled, para, arc, bound>>

\* recv() goes round; recv_timeout_co takes an Empty without TimedOut for the
\* end of the channel
after_empty ==
    /\ \/ rx = "again" /\ rx' = "pop" /\ stage' = 1 /\ UNCHANGED para
       \/ /\ rx = "para"
          /\ rx' = IF para THEN "drop_timeout" ELSE "drop_disconnected"
          /\ para' = FALSE
          /\ UNCHANGED stage
    /\ UNCHANGED <<kernel, tx, chan, wait, canceled, arc, mode, sends, recvs>>

\* a thread: register, look, park for at most 10 ms, look again; recv_timeout
\* looks for a last time when its time is over
thread_wait ==
    /\ \/ /\ rx = "register" /\ rx' = "pop"
          /\ wait_co' = "cur" /\ stage' = 2
          /\ UNCHANGED token
       \/ /\ rx = "park" /\ mode = "recv" /\ rx' = "pop"
          /\ token' = FALSE /\ stage' = 3
          /\ UNCHANGED wait_co
       \/ /\ rx = "park" /\ mode = "recv_timeout" /\ rx' = "register"
          /\ token' = FALSE /\ wait_co' = "none"
          /\ UNCHANGED stage
       \/ /\ rx = "park" /\ mode = "recv_timeout" /\ rx' = "pop"
          /\ stage' = 3 /\ wait_co' = "none"
          /\ UNCHANGED token
    /\ UNCHANGED <<kernel, tx, queue, timeout_wait, channels, port_dropped, cell, cancel_co, timer, inline, canceled, para, arc, mode, sends, recvs>>

drop_port ==
    /\ \/ rx \in {"idle", "unwound", "disconnected"} /\ rx' = "drain" /\ port_dropped' = TRUE /\ UNCHANGED queue
       \/ rx = "drain" /\ queue > 0 /\ queue' = queue - 1 /\ UNCHANGED <<rx, port_dropped>>
       \/ rx = "drain" /\ queue = 0 /\ rx' = "gone" /\ UNCHANGED <<queue, port_dropped>>
    /\ UNCHANGED <<kernel, tx, wait_co, timeout_wait, channels, wait, canceled, para, arc, bound>>

-----------------------------------------------------------------------------

RunRx ==
    /\ try_recv \/ yield \/ after_yield \/ after_empty \/ thread_wait
    /\ UNCHANGED is_coroutine
RunKernel == (park_subscribe \/ timeout_subscribe) /\ UNCHANGED is_coroutine
RunTx == ((tx # "idle" /\ (send \/ drop_chan)) \/ wake) /\ UNCHANGED is_coroutine

Quiet == rx \in {"gone", "suspended", "resumed"} /\ tx \in {"idle", "gone"} /\ UNCHANGED vars

Next ==
    \/ RunRx \/ RunKernel \/ RunTx
    \/ /\ (tx = "idle" /\ (send \/ drop_chan)) \/ recv_call \/ timer_fire \/ cancel \/ drop_port
       /\ UNCHANGED is_coroutine
    \/ Quiet

\* the threads run on; calls, timers and cancels are the environment's
Fairness == WF_vars(RunRx) /\ WF_vars(RunKernel) /\ WF_vars(RunTx)

Spec == Init /\ [][Next]_vars /\ Fairness

-----------------------------------------------------------------------------

\* The coroutine is resumed once per wait: it is in the cell only while it
\* is suspended.
ResumedOnce == cell => rx = "suspended"

\* Neither the event source nor the coroutine's local data goes away while
\* subscribe() runs (DelayDrop).
SourceOutlives == kernel # "none" => rx \in {"suspended", "resumed", "pop", "load", "repop", "para", "drop_got", "drop_timeout", "drop_disconnected"}

\* One resume per wait, and none that pulls the memory from under subscribe().
SpscSafe == ResumedOnce /\ SourceOutlives

\* A receiver does not sleep on a value or on the end of the channel.
SpscRecvWakes == []<>(rx = "suspended" => ~Ready)

\* recv() and try_recv() report the end of the channel only when the sender is
\* gone and every value has been received.
DisconnectedReal == rx = "disconnected" /\ mode # "recv_timeout" => queue = 0 /\ channels = 0
=============================================================================
