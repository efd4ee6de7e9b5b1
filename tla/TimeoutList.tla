---------------------------- MODULE TimeoutList ----------------------------
(***************************************************************************)
(* The timers (src/src/timeout_list.rs): a list for each interval, a heap  *)
(* of the lists by the time of their first timer, and the timer thread.    *)
(* Threads add timers and delete them.  A list is the queue that MpscList  *)
(* implements; in_use says whether it is in the heap.                      *)
(***************************************************************************)
EXTENDS Integers, Sequences, FiniteSets

LOCAL INSTANCE SequencesExt

CONSTANTS Timers, Dur,     \* the timers and the duration of each
          Lists,           \* the interval lists that can be made
          HASH_CAP,        \* lists kept although they are empty
          U64_MAX,         \* the largest time
          MaxTime,         \* the clock stops here
          None

VARIABLES now,
          pc,              \* of the thread that adds and deletes each timer
          time,            \* deadline and interval of a timer
          where,           \* its list
          prev,            \* the timer it was pushed behind
          interval_map, list, in_use,
          timer_bh,        \* the heap, in any order: lists with a time
          remove_list, wakeup, token,
          tpc, entry, at,  \* the timer thread, the list it works on, its now()
          made,            \* lists made
          fired            \* whether each timer fired, and whether it was early

adds == <<pc, time, where, prev>>
lists == <<interval_map, list, in_use, made>>
thread == <<tpc, entry, at, fired>>
vars == <<now, adds, lists, timer_bh, remove_list, wakeup, token, thread>>

Intervals == 0..U64_MAX

Init ==
    /\ now = 0
    /\ pc = [t \in Timers |-> "idle"]
    /\ time = [t \in Timers |-> [start |-> 0, interval |-> 0, deadline |-> 0]]
    /\ where = [t \in Timers |-> None] /\ prev = [t \in Timers |-> None]
    /\ interval_map = [i \in Intervals |-> None]
    /\ list = [l \in Lists |-> <<>>] /\ in_use = [l \in Lists |-> 0] /\ made = {}
    /\ timer_bh = <<>> /\ remove_list = <<>> /\ wakeup = FALSE /\ token = FALSE
    /\ tpc = "remove" /\ entry = None /\ at = 0
    /\ fired = [t \in Timers |-> "no"]

\* the monotonic clock
tick == now < MaxTime /\ now' = now + 1 /\ UNCHANGED <<adds, lists, timer_bh, remove_list, wakeup, token, thread>>

Least(x, y) == IF x < y THEN x ELSE y

\* the duration is cut so that the deadline is a time
timeout_deadline(n, dur) ==
    LET i == Least(dur, U64_MAX - n) IN [start |-> n, interval |-> i, deadline |-> n + i]

Step(t, from, to) == pc[t] = from /\ pc' = [pc EXCEPT ![t] = to]

-----------------------------------------------------------------------------
(* TimeOutList::add_timer and TimerThread::add_timer, del_timer            *)

IntervalOf(t) == time[t].interval
FreshList == CHOOSE l \in Lists : l \notin made

add_call(t) ==
    /\ now < MaxTime - 1 /\ Step(t, "idle", "lookup")
    /\ time' = [time EXCEPT ![t] = timeout_deadline(now, Dur[t])]
    /\ UNCHANGED <<now, where, prev, lists, timer_bh, remove_list, wakeup, token, thread>>

\* the list under the read lock; without one, list and push under the write lock
add_lookup(t) ==
    /\ \/ /\ Step(t, "lookup", "push") /\ interval_map[IntervalOf(t)] # None
          /\ where' = [where EXCEPT ![t] = interval_map[IntervalOf(t)]]
          /\ UNCHANGED <<lists>>
       \/ /\ interval_map[IntervalOf(t)] = None /\ Step(t, "lookup", "write")
          /\ UNCHANGED <<where, lists>>
       \/ /\ interval_map[IntervalOf(t)] # None /\ Step(t, "write", "push")
          /\ where' = [where EXCEPT ![t] = interval_map[IntervalOf(t)]]
          /\ UNCHANGED <<lists>>
       \/ /\ interval_map[IntervalOf(t)] = None /\ Lists # made /\ Step(t, "write", "install")
          /\ where' = [where EXCEPT ![t] = FreshList]
          /\ list' = [list EXCEPT ![FreshList] = <<t>>]
          /\ interval_map' = [interval_map EXCEPT ![IntervalOf(t)] = FreshList]
          /\ made' = made \cup {FreshList}
          /\ UNCHANGED in_use
    /\ UNCHANGED <<now, time, prev, timer_bh, remove_list, wakeup, token, thread>>

\* the push, and then the look at the tail, the node that was popped last: is
\* this the timer after it?  Not if the one it was pushed behind was removed
add_push(t) ==
    /\ \/ /\ Step(t, "push", "is_head")
          /\ LET l == list[where[t]] IN
             /\ prev' = [prev EXCEPT ![t] = IF l = <<>> THEN None ELSE l[Len(l)]]
             /\ list' = [list EXCEPT ![where[t]] = Append(@, t)]
       \/ /\ pc[t] = "is_head"
          /\ LET first == /\ list[where[t]] # <<>> /\ Head(list[where[t]]) = t
                          /\ prev[t] # None => fired[prev[t]] # "no"
             IN  Step(t, "is_head", IF first THEN "install" ELSE "added")
          /\ UNCHANGED <<list, prev>>
    /\ UNCHANGED <<now, time, where, interval_map, in_use, made, timer_bh, remove_list, wakeup, token, thread>>

\* mutant of install_timer_bh: pushed whether or not the list is in the heap
install_always(t) ==
    /\ Step(t, "install", "wakeup")
    /\ in_use' = [in_use EXCEPT ![where[t]] = @ + 1]
    /\ timer_bh' = Append(timer_bh, [list |-> where[t], time |-> time[t].deadline])
    /\ UNCHANGED <<now, time, where, prev, interval_map, list, made, remove_list, wakeup, token, thread>>

install_timer_bh(t) ==
    /\ \/ /\ pc[t] = "install" /\ Step(t, "install", IF in_use[where[t]] = 0 THEN "install_push" ELSE "wakeup")
          /\ in_use' = [in_use EXCEPT ![where[t]] = @ + 1]
          /\ UNCHANGED timer_bh
       \/ /\ Step(t, "install_push", "wakeup")
          /\ timer_bh' = Append(timer_bh, [list |-> where[t], time |-> time[t].deadline])
          /\ UNCHANGED in_use
    /\ UNCHANGED <<now, time, where, prev, interval_map, list, made, remove_list, wakeup, token, thread>>

\* wakeup.take() and unpark
Wake == wakeup' = FALSE /\ token' = (token \/ wakeup)

add_wakeup(t) ==
    /\ Step(t, "wakeup", "added")
    /\ Wake
    /\ UNCHANGED <<now, time, where, prev, lists, timer_bh, remove_list, thread>>

del_timer(t) ==
    /\ \/ /\ Step(t, "added", "del_wakeup")
          /\ remove_list' = Append(remove_list, t)
          /\ UNCHANGED <<wakeup, token>>
       \/ /\ Step(t, "del_wakeup", "deleted")
          /\ Wake
          /\ UNCHANGED remove_list
    /\ UNCHANGED <<now, time, where, prev, lists, timer_bh, thread>>

-----------------------------------------------------------------------------
(* The timer thread                                                        *)

\* Entry::remove, which leaves the last timer of a list alone
Removed(s, t) == IF s # <<>> /\ s[Len(s)] = t THEN s ELSE SelectSeq(s, LAMBDA u : u # t)

\* mutant of run: the thread registers after it has looked at the heap
run_late ==
    /\ \/ /\ tpc = "remove" /\ remove_list # <<>>
          /\ list' = [list EXCEPT ![where[Head(remove_list)]] = Removed(@, Head(remove_list))]
          /\ remove_list' = Tail(remove_list)
          /\ UNCHANGED <<tpc, at, wakeup, token>>
       \/ /\ tpc = "remove" /\ remove_list = <<>> /\ tpc' = "peek" /\ at' = now
          /\ UNCHANGED <<list, remove_list, wakeup, token>>
       \/ /\ tpc = "parking" /\ tpc' = "parked" /\ wakeup' = TRUE
          /\ UNCHANGED <<list, remove_list, token, at>>
       \/ /\ tpc = "parked" /\ (token \/ at <= now)
          /\ tpc' = "remove" /\ token' = FALSE /\ at' = 0
          /\ UNCHANGED <<list, remove_list, wakeup>>
    /\ UNCHANGED <<now, adds, interval_map, in_use, made, timer_bh, entry, fired>>

\* TimerThread::run: removals, the registration, a second look, the timers,
\* and the park until a token or the time schedule_timer returned
run ==
    /\ \/ /\ tpc = "remove" /\ remove_list # <<>>
          /\ list' = [list EXCEPT ![where[Head(remove_list)]] = Removed(@, Head(remove_list))]
          /\ remove_list' = Tail(remove_list)
          /\ UNCHANGED <<tpc, at, wakeup, token>>
       \/ /\ tpc = "remove" /\ remove_list = <<>> /\ tpc' = "recheck"
          /\ wakeup' = TRUE
          /\ UNCHANGED <<list, remove_list, token, at>>
       \/ /\ tpc = "recheck" /\ tpc' = "peek" /\ at' = now
          /\ IF remove_list # <<>> THEN Wake ELSE UNCHANGED <<wakeup, token>>
          /\ UNCHANGED <<list, remove_list>>
       \/ /\ tpc = "parking" /\ tpc' = "parked"
          /\ UNCHANGED <<list, remove_list, wakeup, token, at>>
       \/ /\ tpc = "parked" /\ (token \/ at <= now)
          /\ tpc' = "remove" /\ token' = FALSE /\ at' = 0
          /\ UNCHANGED <<list, remove_list, wakeup>>
    /\ UNCHANGED <<now, adds, interval_map, in_use, made, timer_bh, entry, fired>>

\* peek: where the earliest entries of the heap are
Top == {i \in DOMAIN timer_bh : \A j \in DOMAIN timer_bh : timer_bh[i].time <= timer_bh[j].time}

\* the first list of the heap, if its time has come; else the time to sleep
\* until, which is for ever (after MaxTime) when there is none
schedule_timer ==
    /\ tpc = "peek"
    /\ \/ \E i \in Top :
             /\ timer_bh[i].time <= at
             /\ timer_bh' = RemoveAt(timer_bh, i) /\ entry' = timer_bh[i].list
             /\ in_use' = [in_use EXCEPT ![timer_bh[i].list] = 0]
             /\ tpc' = "pop" /\ at' = at
       \/ /\ \A i \in Top : timer_bh[i].time > at
          /\ at' \in IF timer_bh = <<>> THEN {MaxTime + 1} ELSE {timer_bh[i].time : i \in Top}
          /\ tpc' = "parking" /\ entry' = None /\ UNCHANGED <<timer_bh, in_use>>
    /\ UNCHANGED <<now, adds, interval_map, list, made, remove_list, wakeup, token, fired>>

Fire(t) == IF now < Least(time[t].start + Dur[t], U64_MAX) THEN "early" ELSE "due"

\* the timers at the front whose time has come, then a look at the next one
pop_timeout ==
    /\ tpc = "pop"
    /\ LET l == list[entry] IN
       IF l # <<>> /\ time[Head(l)].deadline <= at
       THEN /\ list' = [list EXCEPT ![entry] = Tail(l)]
            /\ fired' = [fired EXCEPT ![Head(l)] = Fire(Head(l))]
            /\ UNCHANGED tpc
       ELSE /\ tpc' = IF l = <<>> THEN "empty" ELSE "readd"
            /\ UNCHANGED <<list, fired>>
    /\ UNCHANGED <<now, adds, interval_map, in_use, made, timer_bh, remove_list, wakeup, token, entry, at>>

\* the interval of the list, which is that of its timers
EntryInterval == IntervalOf(CHOOSE t \in Timers : where[t] = entry)

\* the list goes back, unless an add has put it there; if it is empty the map
\* forgets the list of that interval
reinstall ==
    /\ \/ /\ tpc = "readd"
          /\ tpc' = IF in_use[entry] = 0 THEN "repush" ELSE "peek"
          /\ in_use' = [in_use EXCEPT ![entry] = @ + 1]
          /\ UNCHANGED <<interval_map, timer_bh>>
       \/ /\ tpc = "repush" /\ tpc' = "peek"
          /\ timer_bh' = Append(timer_bh, [list |-> entry, time |-> time[Head(list[entry])].deadline])
          /\ UNCHANGED <<interval_map, in_use>>
       \/ /\ tpc = "empty" /\ list[entry] # <<>> /\ tpc' = "readd"
          /\ UNCHANGED <<interval_map, in_use, timer_bh>>
       \/ /\ tpc = "empty" /\ list[entry] = <<>> /\ tpc' = "peek"
          /\ interval_map' = IF Cardinality({i \in Intervals : interval_map[i] # None}) <= HASH_CAP THEN interval_map
                             ELSE [interval_map EXCEPT ![EntryInterval] = None]
          /\ UNCHANGED <<in_use, timer_bh>>
    /\ UNCHANGED <<now, adds, list, made, remove_list, wakeup, token, entry, at, fired>>

-----------------------------------------------------------------------------

RunTimer == run \/ schedule_timer \/ pop_timeout \/ reinstall
RunAdd(t) == add_lookup(t) \/ add_push(t) \/ install_timer_bh(t) \/ add_wakeup(t) \/ (pc[t] # "added" /\ del_timer(t))

Quiet == tpc = "parked" /\ UNCHANGED vars

Next == tick \/ RunTimer \/ (\E t \in Timers : add_call(t) \/ RunAdd(t) \/ del_timer(t)) \/ Quiet

\* the threads run and the clock does not stop
Fairness == WF_vars(tick) /\ WF_vars(RunTimer) /\ \A t \in Timers : WF_vars(RunAdd(t))

Spec == Init /\ [][Next]_vars /\ Fairness

-----------------------------------------------------------------------------

\* A list is in the heap at most once.
InHeapOnce == \A i, j \in DOMAIN timer_bh : timer_bh[i].list = timer_bh[j].list => i = j

\* No timer before its time: a duration beyond the end of the clock does not
\* wrap round.
NotEarly == \A t \in Timers : fired[t] # "early"

\* Every timer that is not deleted fires: its list is in the heap, and the
\* timer thread does not sleep past it.
TimerFires == \A t \in Timers : []<>(pc[t] = "added" => fired[t] # "no")

\* One heap entry per list, and no timer early.
TimersSound == InHeapOnce /\ NotEarly
=============================================================================
