------------------------------- MODULE Cqueue -------------------------------
(***************************************************************************)
(* cqueue (src/src/cqueue.rs): the select coroutines Sels report events to *)
(* a queue that the actor Owner polls and, at the end of the scope, drops. *)
(* A select coroutine runs beside Owner also in its bottom half, which     *)
(* poll() starts and which may block.                                      *)
(***************************************************************************)
EXTENDS Join

CONSTANTS Owner, Sels,
          Panicky,      \* select coroutines that may panic
          MaxSends      \* events a select coroutine sends

VARIABLES ev_queue,     \* the events, <<kind, select coroutine>>
          registered,   \* Cqueue.to_wake is set
          woken,        \* the Blocker of the present wait is unparked
          cnt,          \* Cqueue.cnt
          selectors,    \* the handles that are still there
          is_panicking, poisoned,   \* of the Cqueue, of the mutex around selectors
          kernel,       \* select coroutines whose subscribe() has not returned
          sent, failed, canceled,   \* per select coroutine
          cur, ret

queue == <<ev_queue, registered, woken, cnt>>
panics == <<selectors, is_panicking, poisoned>>
sels == <<kernel, sent, failed, canceled>>
local == <<cur, ret>>
joins == <<finished, jwake, token>>
vars == <<pc, joins, queue, panics, sels, local>>

\* cqueue::scope
Init ==
    /\ JoinInit(Sels \cup {Owner}, [a \in Sels \cup {Owner} |-> IF a = Owner THEN "body" ELSE "none"], Sels)
    /\ ev_queue = <<>> /\ registered = FALSE /\ woken = FALSE /\ cnt = 0
    /\ selectors = {} /\ is_panicking = FALSE /\ poisoned = FALSE
    /\ kernel = {} /\ sent = [s \in Sels |-> 0] /\ failed = {} /\ canceled = {}
    /\ cur = None /\ ret = "body"

\* to_wake.take() and unpark
Wake == registered' = FALSE /\ woken' = (woken \/ registered)

-----------------------------------------------------------------------------
(* Select coroutines                                                       *)

\* EventSender::send and its subscribe: the coroutine is in the event, so it
\* can be resumed while subscribe() goes on to wake the poller
send(s) ==
    \/ /\ sent[s] < MaxSends /\ s \notin canceled
       /\ s \notin kernel
       /\ Step(s, "run", "yielded")
       /\ sent' = [sent EXCEPT ![s] = @ + 1]
       /\ kernel' = kernel \cup {s}
       /\ ev_queue' = Append(ev_queue, <<"Normal", s>>)
       /\ UNCHANGED <<joins, registered, woken, cnt, panics, failed, canceled, local>>
    \/ /\ s \in kernel
       /\ kernel' = kernel \ {s}
       /\ Wake
       /\ UNCHANGED <<pc, joins, ev_queue, cnt, panics, sent, failed, canceled, local>>

\* the select coroutine returns, panics, or unwinds from a cancel
sel_end(s) ==
    /\ Step(s, "run", "drop_push")
    /\ \/ failed' = failed
       \/ s \in Panicky /\ failed' = failed \cup {s}
    /\ UNCHANGED <<joins, queue, panics, kernel, sent, canceled, local>>

\* EventSender::drop, then the end of the coroutine
sender_drop(s) ==
    /\ \/ Step(s, "drop_push", "drop_count") /\ ev_queue' = Append(ev_queue, <<"Done", s>>)
          /\ UNCHANGED <<registered, woken, cnt>>
       \/ Step(s, "drop_count", "drop_wake") /\ cnt' = cnt - 1
          /\ UNCHANGED <<ev_queue, registered, woken>>
       \/ Step(s, "drop_wake", "trigger") /\ Wake /\ UNCHANGED <<ev_queue, cnt>>
    /\ UNCHANGED <<joins, panics, sels, local>>

sel_finish(s) ==
    /\ trigger(s, "ended")
    /\ UNCHANGED <<queue, panics, sels, local>>

-----------------------------------------------------------------------------
(* The owner                                                               *)

\* add_impl: the coroutine can already run before it is counted in
add(s) ==
    /\ \/ /\ pc[Owner] = "body" /\ cur = None /\ ~poisoned
          /\ Step(s, "none", "run")
          /\ cur' = s
          /\ UNCHANGED <<cnt, selectors>>
       \/ /\ pc[Owner] = "body" /\ cur = s
          /\ cnt' = cnt + 1
          /\ selectors' = selectors \cup {s}
          /\ cur' = None
          /\ UNCHANGED pc
    /\ UNCHANGED <<joins, ev_queue, registered, woken, is_panicking, poisoned, sels, ret>>

\* poll() by the body, with any timeout, or the end of it
body ==
    /\ cur = None
    /\ \/ Step(Owner, "body", "poll") /\ ret' = "body"
       \/ Step(Owner, "body", "drop") /\ UNCHANGED ret
    /\ UNCHANGED <<joins, queue, panics, sels, cur>>

\* run_ev: a Normal event resumes its coroutine and poll() returns, a Done
\* event joins it
RunEvent(from, kind, s) ==
    IF kind = "Normal"
      THEN /\ pc' = [pc EXCEPT ![Owner] = ret, ![s] = "run"]
           /\ UNCHANGED <<cur, panics>>
      ELSE /\ Step(Owner, from, IF is_panicking THEN "poll" ELSE "load")
           /\ cur' = IF is_panicking THEN None ELSE s
           /\ selectors' = IF is_panicking THEN selectors ELSE selectors \ {s}
           /\ UNCHANGED <<is_panicking, poisoned>>

\* poll: the queue, then the count
poll ==
    /\ \/ /\ pc[Owner] = "poll" /\ ev_queue # <<>>
          /\ RunEvent("poll", Head(ev_queue)[1], Head(ev_queue)[2])
          /\ ev_queue' = Tail(ev_queue)
       \/ /\ ev_queue = <<>>
          /\ Step(Owner, "poll", "poll_count")
          /\ UNCHANGED <<ev_queue, cur, panics>>
       \/ /\ Step(Owner, "poll_count", IF cnt # 0 THEN "register_poll" ELSE IF ret = "body" THEN "body" ELSE "left")
          /\ UNCHANGED <<ev_queue, cur, panics>>
    /\ UNCHANGED <<joins, registered, woken, cnt, sels, ret>>

\* register a new Blocker, look again, park
poll_wait ==
    /\ \/ /\ Step(Owner, "register_poll", "poll_again")
          /\ registered' = TRUE /\ woken' = FALSE
          /\ UNCHANGED <<ev_queue, cur, panics>>
       \/ /\ pc[Owner] = "poll_again" /\ ev_queue # <<>>
          /\ RunEvent("poll_again", Head(ev_queue)[1], Head(ev_queue)[2])
          /\ ev_queue' = Tail(ev_queue)
          /\ registered' = FALSE /\ woken' = woken
       \/ /\ ev_queue = <<>>
          /\ Step(Owner, "poll_again", "parked")
          /\ UNCHANGED <<ev_queue, registered, woken, cur, panics>>
       \/ /\ woken
          /\ Step(Owner, "parked", "poll")
          /\ UNCHANGED <<ev_queue, registered, woken, cur, panics>>
    /\ UNCHANGED <<joins, cnt, sels, ret>>

\* the deadline has passed
poll_timeout ==
    /\ ret = "body"
    /\ Step(Owner, "parked", "body")
    /\ UNCHANGED <<joins, queue, panics, sels, local>>

\* check_panic: join, and rethrow a panic with the selectors mutex held; out
\* of poll() in drop it ends the drop; in the body's poll() it poisons the
\* mutex, so that the drop in the unwind aborts, unless the body catches it
check_panic ==
    /\ \/ wait(Owner, cur, "checked") /\ UNCHANGED <<is_panicking, poisoned, cur>>
       \/ /\ cur \notin failed
          /\ Step(Owner, "checked", "poll")
          /\ cur' = None
          /\ UNCHANGED <<joins, is_panicking, poisoned>>
       \/ /\ cur \in failed
          /\ \/ ret = "body" /\ (Step(Owner, "checked", "aborted") \/ Step(Owner, "checked", "body"))
             \/ ret = "drop" /\ Step(Owner, "checked", "left")
          /\ is_panicking' = TRUE /\ poisoned' = TRUE
          /\ cur' = None
          /\ UNCHANGED joins
    /\ UNCHANGED <<queue, selectors, sels, ret>>

\* Cqueue::drop: cancel what has not finished, then poll until Finished; the
\* unwrap() of a poisoned lock ends it at once
drop ==
    /\ Step(Owner, "drop", IF poisoned THEN "left" ELSE "poll")
    /\ canceled' = IF poisoned THEN canceled ELSE canceled \cup (selectors \ finished)
    /\ ret' = "drop"
    /\ UNCHANGED <<joins, queue, panics, kernel, sent, failed, cur>>

-----------------------------------------------------------------------------

RunSel(s) == (s \in kernel /\ send(s)) \/ sender_drop(s) \/ sel_finish(s)
RunOwner == poll \/ poll_wait \/ check_panic \/ drop

Quiet ==
    /\ pc[Owner] \in {"left", "aborted", "parked", "joining"}
    /\ UNCHANGED vars

Next ==
    \/ RunOwner \/ body \/ poll_timeout
    \/ pc[Owner] # "aborted" /\ \E s \in Sels : RunSel(s) \/ add(s) \/ send(s) \/ sel_end(s)
    \/ Quiet

\* the threads run on; a select coroutine need not return by itself
Fairness == WF_vars(RunOwner) /\ \A s \in Sels : WF_vars(RunSel(s))

Spec == Init /\ [][Next]_vars /\ Fairness

-----------------------------------------------------------------------------

\* The scope is left only after every select coroutine has dropped its
\* sender, if no panic passes through the drop.
SelectorsCounted ==
    pc[Owner] = "left" /\ ~is_panicking =>
        \A s \in Sels : pc[s] \notin {"run", "yielded", "drop_push"}

\* A poller does not stay parked when there is an event, or nobody left to
\* send one, unless poll() is called again after it rethrew a panic: then the
\* count can reach zero unseen between the look at it and the registration.
PollWakes ==
    []<>(pc[Owner] = "parked" => is_panicking \/ (ev_queue = <<>> /\ cnt > 0))

\* "we are sure that all the coroutines are finished" (Cqueue::drop): when
\* the scope is left, no select coroutine has a step to make on the queue.
SelectorsFinished ==
    pc[Owner] = "left" => kernel = {} /\ \A s \in Sels : pc[s] # "drop_wake"
=============================================================================
