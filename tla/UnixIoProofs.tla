---------------------------- MODULE UnixIoProofs ----------------------------
(***************************************************************************)
(* UnixIo for any coroutines, operations and events: the selector thread   *)
(* never handles an event of a freed EventData, and a suspended coroutine  *)
(* is held in exactly one place.                                           *)
(***************************************************************************)
EXTENDS UnixIo, FiniteSetTheorems, TLAPS

(* An event is pending for a registered fd only, and IoData::drop has      *)
(* taken the fd out of epoll before it gives the EventData away; the       *)
(* selector thread, and no other, frees, and only between two events.      *)
LiveInv ==
  /\ edge => life = "live"
  /\ pc = "dropping" => life # "live"
  /\ spc \in {"event", "take", "schedule"} => life # "freed"

-----------------------------------------------------------------------------
LEMMA InitLive == Init => LiveInv
BY DEF Init, LiveInv

LEMMA NextLive == LiveInv /\ [Next]_vars => LiveInv'
<1> SUFFICES ASSUME LiveInv, [Next]_vars PROVE LiveInv'
  OBVIOUS
<1> USE DEF LiveInv, kernel, selector
\* subscribe, the coroutine and the cancelers leave edge, life and spc alone
<1>1. ASSUME NEW i \in 1..MaxYields, Subscribe(i) PROVE LiveInv'
  BY <1>1 DEF Subscribe, add_io_timer, subscribe, fast_schedule, set_io, recheck, CancelTakeIo,
           CancelTakeCo, Resumed
<1>2. ASSUME NEW u \in Users, cancel(u) PROVE LiveInv'
  BY <1>2 DEF cancel, CancelTakeIo, CancelTakeCo, Resumed
<1>3. CASE call \/ wait_io \/ Coroutine \/ next_owner
  BY <1>3 DEF call, wait_io, Coroutine, try, yield_with_io, yield_back, done, next_owner,
           SysCall, Return
\* the fd leaves epoll before the EventData leaves for the selector thread
<1>4. CASE del_fd
  BY <1>4 DEF del_fd
<1>5. CASE arrive
  BY <1>5 DEF arrive
<1>6. CASE wakeup
  BY <1>6 DEF wakeup, Resumed
\* an event is taken from a live EventData, and freeing waits for its end
<1>7. CASE select
  BY <1>7 DEF select, Resumed
<1>8. CASE free_unused_event_data
  BY <1>8 DEF free_unused_event_data
<1>9. CASE timeout_handler \/ schedule_timer
  BY <1>9 DEF timeout_handler, schedule_timer, Resumed
<1>10. CASE UNCHANGED vars
  BY <1>10 DEF vars
<1> QED
  BY <1>1, <1>2, <1>3, <1>4, <1>5, <1>6, <1>7, <1>8, <1>9, <1>10
  DEF Next, Selector, Quiet

(* del_fd against Selector::select, for any number of coroutines, calls    *)
(* and events: an event that epoll_wait has returned, or that is pending,  *)
(* points to an EventData that has not been freed.                         *)
THEOREM EventDataSafe == Spec => []EventDataLive
<1>1. LiveInv => EventDataLive
  BY DEF LiveInv, EventDataLive
<1> QED
  BY <1>1, InitLive, NextLive, PTL DEF Spec

-----------------------------------------------------------------------------
Yields == 1..MaxYields

\* the parts of `subscribe` before the coroutine is in the cell
Early == {"timer", "replace", "store"}

\* where the selector thread has taken the coroutine out
Taken == {"schedule", "timed_out"}

\* what is left of a `subscribe`
Conts == [at : Early \cup {"flag", "fast", "set_io", "recheck", "cancel", "cancel_co", "end"},
          op : Calls \cup {RawIoBlock}, who : Nat]

Events == [io_flag : BOOLEAN, co : BOOLEAN, timer : 0..MaxYields]

HTypes ==
  /\ n \in 0..MaxYields /\ me \in Nat
  /\ op \in Calls \cup {RawIoBlock}
  /\ k \in [Yields -> Conts]
  /\ ev \in Events

(* The three holders exclude each other, each of them only while the       *)
(* coroutine is suspended, and one of them is there while it is.           *)
HInv ==
  /\ HTypes
  /\ \A i \in Yields : k[i].at \in Early => i = n /\ pc = "susp" /\ ~ev.co /\ spc \notin Taken
  /\ ev.co => pc = "susp" /\ spc \notin Taken
  /\ spc \in Taken => pc = "susp"
  /\ pc = "susp" => ev.co \/ spc \in Taken \/ (n \in Yields /\ k[n].at \in Early)

LEMMA InitHeld == MaxYields \in Nat /\ Init => HInv
BY DEF Init, HInv, HTypes, End, Yields, Early, Taken, Conts, Events

(* CancelIoImpl::cancel: the coroutine is taken and resumed, if it is in   *)
(* the cell.                                                               *)
LEMMA CancelTakes ==
  ASSUME ev \in Events, CancelTakeCo
  PROVE  /\ ev' \in Events
         /\ \/ ev.co /\ ~ev'.co /\ pc' = "back"
            \/ ev' = ev /\ pc' = pc
BY DEF CancelTakeCo, TakeCo, Resumed, Events

\* the assignments to EventData
Flagged(e) == [e EXCEPT !.io_flag = TRUE]
NoTimer(e) == [e EXCEPT !.timer = 0]
NoCo(e) == [e EXCEPT !.co = FALSE]
NoCoTimer(e) == [e EXCEPT !.co = FALSE, !.timer = 0]

(* The assignments keep the type; only two of them take the coroutine.     *)
LEMMA AssignEvent ==
  ASSUME NEW e \in Events, MaxYields \in Nat
  PROVE  /\ Flagged(e) \in Events /\ Flagged(e).co = e.co
         /\ NoTimer(e) \in Events /\ NoTimer(e).co = e.co
         /\ NoCo(e) \in Events /\ ~NoCo(e).co
         /\ NoCoTimer(e) \in Events /\ ~NoCoTimer(e).co
<1>1. Flagged(e) \in Events /\ Flagged(e).co = e.co
  BY DEF Events, Flagged
<1>2. NoTimer(e) \in Events /\ NoTimer(e).co = e.co
  BY DEF Events, NoTimer
<1>3. NoCo(e) \in Events /\ ~NoCo(e).co
  BY DEF Events, NoCo
<1>4. NoCoTimer(e) = NoTimer(NoCo(e))
  BY Zenon DEF NoCoTimer, NoTimer, NoCo
<1>5. NoTimer(NoCo(e)) \in Events /\ NoTimer(NoCo(e)).co = NoCo(e).co
  BY <1>3 DEF Events, NoTimer
<1> QED
  BY <1>1, <1>2, <1>3, <1>4, <1>5

LEMMA SubscribeHeld ==
  ASSUME MaxYields \in Nat, HInv, NEW i \in Yields, Subscribe(i)
  PROVE  HInv'
<1> USE DEF HInv, HTypes, Early, Taken
\* `subscribe` goes on to another part of itself
<1>1. PICK r \in Conts : k' = [k EXCEPT ![i] = r]
  BY DEF Subscribe, add_io_timer, subscribe, fast_schedule, set_io, recheck, CancelTakeIo,
         Conts, End
<1>2. k' \in [Yields -> Conts] /\ (\A j \in Yields : j # i => k'[j] = k[j])
  BY <1>1
<1>3. UNCHANGED <<n, me, op, spc>>
  BY DEF Subscribe, add_io_timer, subscribe, fast_schedule, set_io, recheck,
         CancelTakeIo, CancelTakeCo, owner, selector
\* the timer is made; the coroutine is stored; it is taken; or neither
<1>4. CASE add_io_timer(i)
  <2>1. k[i].at \in Early /\ k'[i].at \in Early /\ pc' = pc
    BY <1>4 DEF add_io_timer, Conts
  <2>2. ev' = ev \/ ev' = [ev EXCEPT !.timer = i]
    BY <1>4 DEF add_io_timer
  <2>3. ev' \in Events /\ ev'.co = ev.co
    BY <2>2 DEF Events, Yields
  <2> QED
    BY <1>2, <1>3, <2>1, <2>3
<1>5. CASE subscribe(i)
  <2>1. \/ k[i].at = "store" /\ k'[i].at = "flag" /\ ev'.co /\ pc' = pc
        \/ k[i].at = "flag" /\ k'[i].at \notin Early /\ ev' = ev /\ pc' = pc
    BY <1>5 DEF subscribe, Conts, End, Events
  <2>2. ev' \in Events
    BY <1>5 DEF subscribe, Events
  <2> QED
    BY <1>2, <1>3, <2>1, <2>2
<1>6. CASE fast_schedule(i)
  <2>1. k[i].at \notin Early /\ k'[i].at \notin Early
    BY <1>6 DEF fast_schedule, Conts, End
  <2>2. \/ ev.co /\ ev' = NoCoTimer(ev) /\ pc' = "back"
        \/ ev' = ev /\ pc' = pc
    BY <1>6, Zenon DEF fast_schedule, Resumed, NoCoTimer
  <2>3. /\ ev' \in Events
        /\ \/ ev.co /\ ~ev'.co /\ pc' = "back"
           \/ ev' = ev /\ pc' = pc
    BY <2>2, AssignEvent
  <2> QED
    BY <1>2, <1>3, <2>1, <2>3
<1>7. CASE set_io(i)
  <2>1. k[i].at \notin Early /\ k'[i].at \notin Early /\ ev' = ev /\ pc' = pc
    BY <1>7 DEF set_io, Conts, End
  <2> QED
    BY <1>2, <1>3, <2>1
<1>8. CASE recheck(i)
  <2>1. k[i].at \notin Early /\ k'[i].at \notin Early
    BY <1>8 DEF recheck, CancelTakeIo, Conts, End
  <2>2. CancelTakeCo \/ (ev' = ev /\ pc' = pc)
    BY <1>8 DEF recheck
  <2>3. /\ ev' \in Events
        /\ \/ ev.co /\ ~ev'.co /\ pc' = "back"
           \/ ev' = ev /\ pc' = pc
    BY <2>2, CancelTakes
  <2> QED
    BY <1>2, <1>3, <2>1, <2>3
<1> QED
  BY <1>4, <1>5, <1>6, <1>7, <1>8 DEF Subscribe

LEMMA NextHeld ==
  ASSUME MaxYields \in Nat, HInv, [Next]_vars
  PROVE  HInv'
<1> USE DEF HInv, HTypes, Early, Taken
<1>1. ASSUME NEW i \in 1..MaxYields, Subscribe(i) PROVE HInv'
  BY <1>1, SubscribeHeld DEF Yields
<1>2. ASSUME NEW u \in Users, cancel(u) PROVE HInv'
  <2>1. UNCHANGED <<n, me, op, k, spc>> /\ (CancelTakeCo \/ (ev' = ev /\ pc' = pc))
    BY <1>2 DEF cancel, CancelTakeIo, owner, selector
  <2> QED
    BY <2>1, CancelTakes
\* the coroutine runs: nobody holds it
<1>3. CASE call \/ wait_io \/ done
  <2>1. /\ pc # "susp" /\ pc' # "susp" /\ op' \in Calls \cup {RawIoBlock}
        /\ UNCHANGED <<n, me, k, spc>>
        /\ (ev' = ev \/ ev' = [ev EXCEPT !.io_flag = FALSE])
    BY <1>3 DEF call, wait_io, done, SysCall, Return, owner, selector
  <2>2. ev' \in Events /\ ev'.co = ev.co
    BY <2>1 DEF Events
  <2> QED
    BY <2>1, <2>2
<1>4. CASE try \/ yield_back \/ next_owner
  BY <1>4 DEF try, yield_back, next_owner, SysCall, Return, owner, selector
\* it suspends, and its `subscribe` holds it
<1>5. CASE yield_with_io
  <2>1. CASE pc' = "unwound" /\ UNCHANGED <<n, k>>
    BY <1>5, <2>1 DEF yield_with_io, owner, selector
  <2>2. CASE pc' # "unwound"
    <3>1. PICK r \in Conts : k' = [k EXCEPT ![n + 1] = r] /\ r.at \in Early
      BY <1>5, <2>2 DEF yield_with_io, Conts
    <3>2. n < MaxYields /\ n' = n + 1 /\ pc = "yield" /\ pc' = "susp"
          /\ UNCHANGED <<me, op, ev, spc>>
      BY <1>5, <2>2 DEF yield_with_io, owner, selector
    <3> QED
      BY <3>1, <3>2 DEF Yields
  <2> QED
    BY <1>5, <2>1, <2>2 DEF yield_with_io
<1>6. CASE del_fd
  <2>1. /\ pc # "susp" /\ pc' # "susp" /\ UNCHANGED <<n, me, op, k, spc>>
        /\ (ev' = ev \/ ev' = [ev EXCEPT !.timer = 0])
    BY <1>6 DEF del_fd, owner, selector
  <2>2. ev' \in Events /\ ev'.co = ev.co
    BY <2>1 DEF Events
  <2> QED
    BY <2>1, <2>2
<1>7. CASE arrive \/ free_unused_event_data
  BY <1>7 DEF arrive, free_unused_event_data, owner, selector
<1>8. CASE schedule_timer
  BY <1>8 DEF schedule_timer, owner
<1>9. CASE wakeup
  <2>1. /\ UNCHANGED <<n, me, op, k, spc>>
        /\ \/ ev' = Flagged(ev) /\ pc' = pc
           \/ ev' = ev /\ pc' = pc
           \/ ev.co /\ ev' = NoCoTimer(ev) /\ pc' = "back"
    BY <1>9 DEF wakeup, Resumed, owner, selector, NoCoTimer, Flagged
  <2>2. /\ ev' \in Events
        /\ \/ ev'.co = ev.co /\ pc' = pc
           \/ ev.co /\ ~ev'.co /\ pc' = "back"
    BY <2>1, AssignEvent
  <2> QED
    BY <2>1, <2>2
\* the selector thread takes the coroutine, and then resumes it
<1>10. CASE select \/ timeout_handler
  <2>1. UNCHANGED <<n, me, op, k>>
    BY <1>10 DEF select, timeout_handler, owner
  <2>2. \/ /\ spc \notin Taken /\ spc' \notin Taken /\ pc' = pc
           /\ \/ ev' = ev
              \/ ev' = Flagged(ev)
              \/ ev' = NoTimer(ev)
        \/ /\ spc \notin Taken /\ spc' \in Taken /\ pc' = pc
           /\ ev.co /\ ev' = NoCo(ev)
        \/ /\ spc \in Taken /\ spc' \notin Taken /\ pc' = "back"
           /\ ev' = ev \/ ev' = NoTimer(ev)
    BY <1>10 DEF select, timeout_handler, TakeCo, Resumed, Flagged, NoTimer, NoCo
  <2>3. /\ ev' \in Events
        /\ \/ spc \notin Taken /\ spc' \notin Taken /\ pc' = pc /\ ev'.co = ev.co
           \/ spc \notin Taken /\ spc' \in Taken /\ pc' = pc /\ ev.co /\ ~ev'.co
           \/ spc \in Taken /\ spc' \notin Taken /\ pc' = "back" /\ ev'.co = ev.co
    BY <2>2, AssignEvent
  <2> QED
    BY <2>1, <2>3
<1>11. CASE UNCHANGED vars
  BY <1>11 DEF vars
<1> QED
  BY <1>1, <1>2, <1>3, <1>4, <1>5, <1>6, <1>7, <1>8, <1>9, <1>10, <1>11
  DEF Next, Coroutine, Selector, Quiet

-----------------------------------------------------------------------------
LEMMA HInvHeld == ASSUME MaxYields \in Nat, HInv PROVE HeldOnce
<1> DEFINE subs == {i \in 1..MaxYields : k[i].at \in {"timer", "replace", "store"}}
           cell == {h \in {"cell"} : ev.co}
           sel  == {h \in {"select"} : spc \in {"schedule", "timed_out"}}
           all  == subs \cup cell \cup sel
<1> USE DEF HInv, HTypes, Yields, Early, Taken
<1>1. CASE pc # "susp"
  <2>1. all = {}
    BY <1>1
  <2> QED
    BY <1>1, <2>1, FS_EmptySet DEF HeldOnce
<1>2. CASE pc = "susp"
  <2>1. \E x : all = {x}
    <3>1. CASE ev.co
      <4>1. subs = {} /\ cell = {"cell"} /\ sel = {}
        BY <3>1
      <4> QED
        BY <4>1
    <3>2. CASE spc \in Taken
      <4>1. subs = {} /\ cell = {} /\ sel = {"select"}
        BY <3>2
      <4> QED
        BY <4>1
    <3>3. CASE ~ev.co /\ spc \notin Taken
      <4>1. subs = {n} /\ cell = {} /\ sel = {}
        BY <1>2, <3>3
      <4> QED
        BY <4>1
    <3> QED
      BY <3>1, <3>2, <3>3
  <2>2. Cardinality(all) = 1
    BY <2>1, FS_Singleton
  <2> QED
    BY <1>2, <2>2 DEF HeldOnce
<1> QED
  BY <1>1, <1>2

(* EventData::co against select, timeout_handler, cancel, fast_schedule    *)
(* and schedule, for any number of coroutines, operations, events and      *)
(* suspensions: a suspended coroutine is held in exactly one place, so it  *)
(* is resumed once and never lost.                                         *)
THEOREM HeldOnceSafe ==
  ASSUME MaxYields \in Nat PROVE Spec => []HeldOnce
BY InitHeld, NextHeld, HInvHeld, PTL DEF Spec
=============================================================================
