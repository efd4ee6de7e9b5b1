------------------------------- MODULE UnixIo -------------------------------
(***************************************************************************)
(* A socket of may on a Unix system (src/src/io/sys/unix): the EventData   *)
(* that the selector, the io timers, a canceler and the coroutine share,   *)
(* the select loop of epoll.rs, and the io operations.  An operation tries *)
(* the system call, suspends when it would block, and is resumed by        *)
(* whoever takes the coroutine out of EventData::co first.                 *)
(*                                                                         *)
(* The coroutine users[me] owns the socket; when it is canceled it unwinds *)
(* and the next one goes on with the socket (an Arc<TcpStream>).  A        *)
(* suspension is numbered; the part of `subscribe` that still runs on the  *)
(* worker after the coroutine was published is k[i], its io timer          *)
(* timers[i].                                                              *)
(***************************************************************************)
EXTENDS Naturals, FiniteSets, UnixOps

CONSTANTS
  Users,         \* the coroutines that own the socket in turn, 1..n
  Calls,         \* the io operations they call
  Cancelable,    \* those that somebody may cancel
  MaxYields,     \* bound on suspensions
  MaxEvents      \* bound on what the peer sends

VARIABLES
  env,           \* who else is there: a canceler, the holder of a WaitIoWaker,
                 \* or "thread": a thread does the io, with a proxy coroutine
  me, op, pc,    \* the owner, its io operation, where it is
  para,          \* the coroutine parameter (get_co_para)
  base,          \* the number of the operation's first suspension
  n,             \* suspensions so far
  ev,            \* EventData [io_flag, co, timer]
  life,          \* EventData: live, deleted (from epoll), queued (free_ev), freed
  k, timers,
  spc, sarg,     \* the selector thread and the io timer it handles
  avail, edge, sent,  \* kernel: data to read, pending edge event, peer's sends
  canceled, io, xpc,  \* per coroutine: CancelImpl::state, ::io, and its canceler
  wpc                 \* the holder of a WaitIoWaker

\* EventData, CancelImpl, the timer list and the program counters
vars == <<env, me, op, pc, para, base, n, ev, life, k, timers, spc,
          sarg, avail, edge, sent, canceled, io, xpc, wpc>>

-----------------------------------------------------------------------------
is_coroutine == env # "thread"

\* a suspension whose subscribe has returned
End == [at |-> "end", op |-> RawIoBlock, who |-> 1]

\* add_socket: a fresh EventData, registered with the selector
Init ==
  /\ env \in {"cancel", "waker", "thread"}
  /\ me = 1 /\ op = RawIoBlock /\ pc = "idle" /\ para = "None"
  /\ base = 1 /\ n = 0
  /\ ev = [io_flag |-> FALSE, co |-> FALSE, timer |-> 0]
  /\ life = "live"
  /\ k = [i \in 1..MaxYields |-> End]
  /\ timers = [i \in 1..MaxYields |-> "none"]
  /\ spc = "wait" /\ sarg = 0
  /\ avail = 0 /\ edge = FALSE /\ sent = 0
  /\ canceled = [u \in Users |-> FALSE]
  /\ io = [u \in Users |-> FALSE]
  /\ xpc = [u \in Users |-> "start"]
  /\ wpc = "start"

kernel == <<avail, edge, sent>>
cancels == <<canceled, io, xpc>>
selector == <<spc, sarg>>
owner == <<env, me, op, base>>

\* whoever takes the coroutine out of the cell resumes it
Resumed == pc' = "back"

\* timer.take() and event_data = null: the entry does nothing when it expires
TimerOff(t) == IF t = 0 THEN timers ELSE [timers EXCEPT ![t] = "none"]

\* mutant of TakeCo: the cell is read and not emptied
TakeCoPeek == ev.co /\ ev' = ev

\* co.take() that finds the coroutine
TakeCo == ev.co /\ ev' = [ev EXCEPT !.co = FALSE]

-----------------------------------------------------------------------------
\* a call of a socket type: io.reset(), or for connect an EventData that is new
\* and has no flag ...
call ==
  /\ pc = "idle" /\ n < MaxYields
  /\ op' \in Calls
  /\ base' = n + 1
  /\ ev' = [ev EXCEPT !.io_flag = FALSE]
  /\ pc' = "try"
  /\ UNCHANGED <<env, me, para, n, life, k, timers, selector, kernel, cancels, wpc>>

\* the call returns
Return == pc' = "idle" /\ op' = RawIoBlock /\ base' = 1

\* ... and the system call, which succeeds or would block
SysCall(again) ==
  \/ /\ avail > 0
     /\ avail' = IF op.takes THEN avail - 1 ELSE avail
     /\ Return
  \/ /\ avail = 0
     /\ pc' = again
     /\ UNCHANGED <<avail, op, base>>

try ==
  /\ pc = "try"
  /\ SysCall("yield")
  /\ UNCHANGED <<env, me, para, n, ev, life, k, timers, selector, edge, sent, cancels, wpc>>

\* WaitIo::wait_io: returns at once when the flag is set
wait_io ==
  /\ pc = "idle" /\ n < MaxYields
  /\ is_coroutine
  /\ IF ev.io_flag
     THEN Return /\ ev' = [ev EXCEPT !.io_flag = FALSE]
     ELSE op' = RawIoBlock /\ base' = n + 1 /\ pc' = "yield" /\ ev' = ev
  /\ UNCHANGED <<env, me, para, n, life, k, timers, selector, kernel, cancels, wpc>>

\* yield_with_io: a canceled coroutine unwinds, any other suspends; the
\* request of a thread suspends its proxy coroutine, which nobody cancels
yield_with_io ==
  /\ pc = "yield"
  /\ IF is_coroutine /\ canceled[me]
     THEN /\ pc' = "unwound"
          /\ UNCHANGED <<n, k>>
     ELSE /\ n < MaxYields
          /\ n' = n + 1
          /\ k' = [k EXCEPT ![n + 1] = [at |-> IF op.timed THEN "timer" ELSE "store",
                                        op |-> op, who |-> me]]
          /\ pc' = "susp"
  /\ UNCHANGED <<owner, para, ev, life, timers, selector, kernel, cancels, wpc>>

-----------------------------------------------------------------------------
(* EventSource::subscribe of suspension i, on the worker that ran the      *)
(* coroutine.  add_io_timer, then co.store, then the look at the flag.     *)
add_io_timer(i) ==
  \/ /\ k[i].at = "timer"
     /\ timers' = [timers EXCEPT ![i] = "armed"]
     /\ k' = [k EXCEPT ![i].at = "replace"]
     /\ UNCHANGED <<owner, pc, para, n, ev, life, selector, kernel, cancels, wpc>>
  \/ /\ k[i].at = "replace"
     /\ ev' = [ev EXCEPT !.timer = i]
     /\ k' = [k EXCEPT ![i].at = "store"]
     /\ UNCHANGED <<owner, pc, para, n, life, timers, selector, kernel, cancels, wpc>>

subscribe(i) ==
  \/ /\ k[i].at = "store"
     /\ ev' = [ev EXCEPT !.co = TRUE]
     /\ k' = [k EXCEPT ![i].at = "flag"]
     /\ UNCHANGED <<owner, pc, para, n, life, timers, selector, kernel, cancels, wpc>>
  \/ /\ k[i].at = "flag"
     /\ k' = [k EXCEPT ![i] = IF ev.io_flag THEN [@ EXCEPT !.at = "fast"]
                              ELSE IF @.op.cancelable THEN [@ EXCEPT !.at = "set_io"]
                              ELSE End]
     /\ UNCHANGED <<owner, pc, para, n, ev, life, timers, selector, kernel, cancels, wpc>>

\* fast_schedule: takes the coroutine, turns its timer off, runs it
fast_schedule(i) ==
  /\ k[i].at = "fast"
  /\ \/ /\ ev.co
        /\ ev' = [ev EXCEPT !.co = FALSE, !.timer = 0]
        /\ timers' = TimerOff(ev.timer)
        /\ Resumed
     \/ /\ ~ev.co
        /\ UNCHANGED <<ev, timers, pc>>
  /\ k' = [k EXCEPT ![i] = End]
  /\ UNCHANGED <<owner, para, n, life, selector, kernel, cancels, wpc>>

\* mutant of set_io: no second look at the cancel state
set_io_once(i) ==
  /\ k[i].at = "set_io"
  /\ io' = [io EXCEPT ![k[i].who] = TRUE]
  /\ k' = [k EXCEPT ![i] = End]
  /\ UNCHANGED <<owner, pc, para, n, ev, life, timers, selector, kernel, canceled, xpc, wpc>>

\* cancel.set_io, then is_canceled is read again
set_io(i) ==
  \/ /\ k[i].at = "set_io"
     /\ io' = [io EXCEPT ![k[i].who] = TRUE]
     /\ k' = [k EXCEPT ![i].at = "recheck"]
     /\ UNCHANGED <<owner, pc, para, n, ev, life, timers, selector, kernel, canceled, xpc, wpc>>
  \/ /\ k[i].at = "recheck"
     /\ k' = [k EXCEPT ![i] = IF is_coroutine /\ canceled[@.who]
                              THEN [@ EXCEPT !.at = "cancel"] ELSE End]
     /\ UNCHANGED <<owner, pc, para, n, ev, life, timers, selector, kernel, cancels, wpc>>

\* CancelIoImpl::cancel: takes the registration, then the coroutine
CancelTakeIo(u, at, next, done) ==
  /\ io' = [io EXCEPT ![u] = FALSE]
  /\ at' = IF io[u] THEN next ELSE done

CancelTakeCo ==
  \/ TakeCo /\ Resumed
  \/ ~ev.co /\ UNCHANGED <<ev, pc>>

\* subscribe calls cancel.cancel() itself
recheck(i) ==
  \/ /\ k[i].at = "cancel"
     /\ CancelTakeIo(k[i].who, k, [k EXCEPT ![i].at = "cancel_co"], [k EXCEPT ![i] = End])
     /\ UNCHANGED <<owner, pc, para, n, ev, life, timers, selector, kernel, canceled, xpc, wpc>>
  \/ /\ k[i].at = "cancel_co"
     /\ CancelTakeCo
     /\ k' = [k EXCEPT ![i] = End]
     /\ UNCHANGED <<owner, para, n, life, timers, selector, kernel, cancels, wpc>>

\* Coroutine::cancel from elsewhere
cancel(u) ==
  \/ /\ u \in Cancelable /\ env = "cancel"
     /\ xpc[u] = "start"
     /\ u = me /\ life = "live"
     /\ canceled' = [canceled EXCEPT ![u] = TRUE]
     /\ xpc' = [xpc EXCEPT ![u] = "io"]
     /\ UNCHANGED <<owner, pc, para, n, ev, life, k, timers, selector, kernel, io, wpc>>
  \/ /\ xpc[u] = "io"
     /\ CancelTakeIo(u, xpc, [xpc EXCEPT ![u] = "co"], [xpc EXCEPT ![u] = "end"])
     /\ UNCHANGED <<owner, pc, para, n, ev, life, k, timers, selector, kernel, canceled, wpc>>
  \/ /\ xpc[u] = "co"
     /\ CancelTakeCo
     /\ xpc' = [xpc EXCEPT ![u] = "end"]
     /\ UNCHANGED <<owner, para, n, life, k, timers, selector, kernel, canceled, io, wpc>>

-----------------------------------------------------------------------------
\* back in the coroutine: yield_back panics when it was canceled, else the
\* registration is cleared; the proxy of a thread only passes the parameter on
yield_back ==
  /\ pc = "back"
  /\ IF is_coroutine /\ canceled[me]
     THEN pc' = "unwound" /\ para' = "None" /\ UNCHANGED io
     ELSE /\ pc' = "done" /\ para' = para
          /\ io' = IF is_coroutine THEN [io EXCEPT ![me] = FALSE] ELSE io
  /\ UNCHANGED <<owner, n, ev, life, k, timers, selector, kernel, canceled, xpc, wpc>>

\* mutant of done: the flag is cleared after the system call
done_late ==
  \/ /\ pc = "done"
     /\ IF op.loops /\ para # "TimedOut"
        THEN pc' = "sys" /\ UNCHANGED <<op, base, para, ev>>
        ELSE Return /\ para' = "None" /\ ev' = ev
     /\ UNCHANGED <<env, me, n, life, k, timers, selector, kernel, cancels, wpc>>
  \/ /\ pc = "sys"
     /\ SysCall("flag")
     /\ UNCHANGED <<env, me, para, n, ev, life, k, timers, selector, edge, sent, cancels, wpc>>
  \/ /\ pc = "flag"
     /\ ev' = [ev EXCEPT !.io_flag = FALSE]
     /\ pc' = "yield"
     /\ UNCHANGED <<owner, para, n, life, k, timers, selector, kernel, cancels, wpc>>

\* done: co_io_result, the flag is cleared, the system call; when it would
\* block, the flag tells whether an event came in meanwhile.  wait_io only
\* takes the flag.
done ==
  \/ /\ pc = "done"
     /\ IF op.loops /\ para = "TimedOut"
        THEN Return /\ para' = "None" /\ ev' = ev
        ELSE /\ IF op.loops THEN pc' = "sys" /\ UNCHANGED <<op, base>> ELSE Return
             /\ ev' = [ev EXCEPT !.io_flag = FALSE]
             /\ para' = para
     /\ UNCHANGED <<env, me, n, life, k, timers, selector, kernel, cancels, wpc>>
  \/ /\ pc = "sys"
     /\ SysCall("flag")
     /\ UNCHANGED <<env, me, para, n, ev, life, k, timers, selector, edge, sent, cancels, wpc>>
  \/ /\ pc = "flag"
     /\ pc' = IF ev.io_flag THEN "done" ELSE "yield"
     /\ UNCHANGED <<owner, para, n, ev, life, k, timers, selector, kernel, cancels, wpc>>

\* after an unwinding the next coroutine uses the socket
next_owner ==
  /\ pc = "unwound"
  /\ me + 1 \in Users
  /\ me' = me + 1
  /\ pc' = "idle"
  /\ UNCHANGED <<env, op, base, para, n, ev, life, k, timers, selector, kernel, cancels, wpc>>

\* mutant of del_fd: the EventData goes to free_ev before epoll forgets it
del_fd_late ==
  \/ /\ pc \in {"idle", "unwound"} /\ life = "live"
     /\ timers' = TimerOff(ev.timer)
     /\ ev' = [ev EXCEPT !.timer = 0]
     /\ life' = "queued"
     /\ pc' = "dropping"
     /\ edge' = edge
     /\ UNCHANGED <<owner, para, n, k, selector, avail, sent, cancels, wpc>>
  \/ /\ pc = "dropping"
     /\ edge' = FALSE
     /\ pc' = "dropped"
     /\ UNCHANGED <<owner, para, n, ev, life, k, timers, selector, avail, sent, cancels, wpc>>

\* IoData::drop: del_fd turns the timer off and deletes the fd from epoll, ...
del_fd ==
  \/ /\ pc \in {"idle", "unwound"} /\ life = "live"
     /\ timers' = TimerOff(ev.timer)
     /\ ev' = [ev EXCEPT !.timer = 0]
     /\ edge' = FALSE
     /\ life' = "deleted"
     /\ pc' = "dropping"
     /\ UNCHANGED <<owner, para, n, k, selector, avail, sent, cancels, wpc>>
  \* ... then leaves the EventData to the selector thread
  \/ /\ pc = "dropping"
     /\ life' = "queued"
     /\ pc' = "dropped"
     /\ UNCHANGED <<owner, para, n, ev, k, timers, selector, kernel, cancels, wpc>>

-----------------------------------------------------------------------------
\* the peer sends, or makes room: an edge-triggered event
arrive ==
  /\ sent < MaxEvents /\ life = "live"
  /\ sent' = sent + 1
  /\ avail' = avail + 1
  /\ edge' = TRUE
  /\ UNCHANGED <<owner, pc, para, n, ev, life, k, timers, selector, cancels, wpc>>

\* WaitIoWaker::wakeup: sets the flag, then EventData::schedule
wakeup ==
  \/ /\ env = "waker" /\ wpc = "start" /\ life = "live"
     /\ ev' = [ev EXCEPT !.io_flag = TRUE]
     /\ wpc' = "schedule"
     /\ UNCHANGED <<owner, pc, para, n, life, k, timers, selector, kernel, cancels>>
  \/ /\ wpc = "schedule"
     /\ \/ /\ ev.co
           /\ ev' = [ev EXCEPT !.co = FALSE, !.timer = 0]
           /\ timers' = TimerOff(ev.timer)
           /\ Resumed
        \/ /\ ~ev.co
           /\ UNCHANGED <<ev, timers, pc>>
     /\ wpc' = "end"
     /\ UNCHANGED <<owner, para, n, life, k, selector, kernel, cancels>>

(* Selector::select.  A round handles the events epoll_wait returned, then *)
(* frees the EventData in free_ev, then handles the expired io timers; any *)
(* of the three may be empty, and the rounds follow each other.  An event  *)
(* sets the flag, then takes the coroutine.                                *)
select ==
  \/ /\ spc = "wait"
     /\ edge
     /\ edge' = FALSE
     /\ spc' = "event"
     /\ UNCHANGED <<owner, pc, para, n, ev, life, k, timers, sarg, avail, sent, cancels, wpc>>
  \/ /\ spc = "event"
     /\ ev' = [ev EXCEPT !.io_flag = TRUE]
     /\ spc' = "take"
     /\ UNCHANGED <<owner, pc, para, n, life, k, timers, sarg, kernel, cancels, wpc>>
  \/ /\ spc = "take"
     /\ spc' = IF ev.co THEN "schedule" ELSE "wait"
     /\ TakeCo \/ (~ev.co /\ UNCHANGED ev)
     /\ UNCHANGED <<owner, pc, para, n, life, k, timers, sarg, kernel, cancels, wpc>>
  \/ /\ spc = "schedule"
     /\ timers' = TimerOff(ev.timer)
     /\ ev' = [ev EXCEPT !.timer = 0]
     /\ Resumed
     /\ spc' = "wait"
     /\ UNCHANGED <<owner, para, n, life, k, sarg, kernel, cancels, wpc>>

free_unused_event_data ==
  /\ spc = "wait"
  /\ life = "queued"
  /\ life' = "freed"
  /\ UNCHANGED <<owner, pc, para, n, ev, k, timers, selector, kernel, cancels, wpc>>

\* an io timer of the list expires; its entry may have been turned off
schedule_timer ==
  /\ spc = "wait"
  /\ \E i \in 1..MaxYields :
       /\ timers[i] = "armed"
       /\ timers' = [timers EXCEPT ![i] = "none"]
       /\ sarg' = i
  /\ spc' = "handler"
  /\ UNCHANGED <<owner, pc, para, n, ev, life, k, kernel, cancels, wpc>>

\* timeout_handler takes the timer of the EventData, then its coroutine
timeout_handler ==
  \/ /\ spc = "handler"
     /\ ev' = [ev EXCEPT !.timer = 0]
     /\ spc' = "take_co"
     /\ UNCHANGED <<owner, pc, para, n, life, k, timers, sarg, kernel, cancels, wpc>>
  \/ /\ spc = "take_co"
     /\ \/ TakeCo /\ spc' = "timed_out" /\ sarg' = sarg
        \/ ~ev.co /\ UNCHANGED ev /\ spc' = "wait" /\ sarg' = 0
     /\ UNCHANGED <<owner, pc, para, n, life, k, timers, kernel, cancels, wpc>>
  \/ /\ spc = "timed_out"
     /\ para' = "TimedOut"
     /\ Resumed
     /\ spc' = "wait"
     /\ sarg' = 0
     /\ UNCHANGED <<owner, n, ev, life, k, timers, kernel, cancels, wpc>>

-----------------------------------------------------------------------------
Subscribe(i) ==
  add_io_timer(i) \/ subscribe(i) \/ fast_schedule(i) \/ set_io(i) \/ recheck(i)
Coroutine == try \/ yield_with_io \/ yield_back \/ done
Selector == select \/ timeout_handler

\* nothing happens any more
Quiet == pc \in {"susp", "dropped", "yield", "idle", "unwound"} /\ UNCHANGED vars

Next ==
  \/ \E i \in 1..MaxYields : Subscribe(i)
  \/ \E u \in Users : cancel(u)
  \/ call \/ wait_io \/ Coroutine \/ next_owner \/ del_fd
  \/ arrive \/ wakeup \/ Selector \/ free_unused_event_data \/ schedule_timer
  \/ Quiet

\* the worker, the selector thread and a canceler that has begun go on; no
\* event, call or cancel is promised
Fairness ==
  /\ \A i \in 1..MaxYields : WF_vars(Subscribe(i))
  /\ \A u \in Users : WF_vars(xpc[u] # "start" /\ cancel(u))
  /\ WF_vars(wpc # "start" /\ wakeup)
  /\ WF_vars(Selector)

Spec == Init /\ [][Next]_vars /\ Fairness

-----------------------------------------------------------------------------
(* EventData::co against select, timeout_handler, cancel, fast_schedule    *)
(* and schedule: a suspended coroutine is held in exactly one place, so it *)
(* is resumed once and never lost.                                         *)
HeldOnce ==
  LET holders == {i \in 1..MaxYields : k[i].at \in {"timer", "replace", "store"}}
                   \cup {h \in {"cell"} : ev.co}
                   \cup {h \in {"select"} : spc \in {"schedule", "timed_out"}} IN
  Cardinality(holders) = IF pc = "susp" THEN 1 ELSE 0

(* del_fd against select: an event that epoll_wait has already returned    *)
(* points to an EventData that is not freed before the event is handled,   *)
(* although the socket was dropped meanwhile on another thread.            *)
EventDataLive ==
  spc \in {"event", "take", "schedule"} \/ edge => life # "freed"

(* The edge-triggered protocol (io_flag is cleared, the system call would  *)
(* block, the coroutine is published, io_flag is read): a coroutine does   *)
(* not stay suspended while its call could go on, or after an event.       *)
IoWakes ==
  []<>(pc = "susp" => ~ev.io_flag /\ (op.loops => avail = 0))

(* CancelImpl::cancel against set_io: a canceled coroutine does not stay   *)
(* suspended in an operation that registers for cancellation.              *)
IoCancelWakes ==
  []<>(pc = "susp" /\ is_coroutine /\ canceled[me] => ~op.cancelable)

(* unix/mod.rs:157 "tell the timer function not to cancel the io": an      *)
(* operation is ended with TimedOut by a timer of its own only.            *)
OwnTimeout ==
  spc = "timed_out" => sarg >= base
=============================================================================
