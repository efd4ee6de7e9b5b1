------------------------------- MODULE WinIo --------------------------------
(***************************************************************************)
(* The io operations of may on Windows (src/src/io/sys/windows): each one  *)
(* owns an EventData that starts with the OVERLAPPED it hands to the       *)
(* system.  Only the completion packet resumes the coroutine; a timeout    *)
(* and a cancel ask the system to abort the operation (CancelIoEx).        *)
(*                                                                         *)
(* ev[i] is the EventData of the coroutine's i-th operation:               *)
(*   co     the AtomicOption holds the coroutine                           *)
(*   own    the operation still has it (its Arc, or the struct itself)     *)
(*   freed  its memory is gone                                             *)
(*   os     "none", "pending" in the system, or "posted" to the port       *)
(*   status what the packet says                                           *)
(*   timer  it has an entry in a timer list that points to it              *)
(***************************************************************************)
EXTENDS Naturals, WinOps

CONSTANTS
  Calls,         \* the io operations the coroutine calls
  MaxOps         \* bound on how many it calls

VARIABLES
  op, n,         \* the current operation and its number
  pc, para,      \* the coroutine, and its parameter (get_co_para)
  k,             \* where the operation's `subscribe` is, on the worker
  ev,
  canceled, io,  \* CancelImpl::state, and the EventData in CancelIoImpl (0: none)
  xpc,           \* who cancels the coroutine
  tpc            \* the EventData that timeout_handler has found not null (0: none)

\* EventData, CancelImpl and the program counters
vars == <<op, n, pc, para, k, ev, canceled, io, xpc, tpc>>

-----------------------------------------------------------------------------
\* EventData::new
EventData == [co |-> FALSE, own |-> TRUE, freed |-> FALSE, os |-> "none",
              status |-> "None", timer |-> FALSE]

Init ==
  /\ op = (CHOOSE o \in Calls : TRUE)
  /\ n = 0
  /\ pc = "run" /\ para = "None"
  /\ k = "end"
  /\ ev = [i \in 1..MaxOps |-> EventData]
  /\ canceled = FALSE /\ io = 0
  /\ xpc = "start"
  /\ tpc = 0

\* the last Arc is dropped: the operation's, or the one in the cancel slot
Release(e, slot) ==
  [i \in 1..MaxOps |-> [e[i] EXCEPT !.freed = @ \/ (~e[i].own /\ slot # i)]]

-----------------------------------------------------------------------------
\* the operation is made and the coroutine yields to it, unless canceled
call ==
  /\ pc = "run"
  /\ IF canceled
     THEN pc' = "unwound" /\ UNCHANGED <<op, n, k>>
     ELSE /\ n < MaxOps
          /\ n' = n + 1
          /\ op' \in Calls
          /\ pc' = "susp"
          /\ k' = IF op'.timed THEN "timer" ELSE "store"
  /\ UNCHANGED <<para, ev, canceled, io, xpc, tpc>>

add_io_timer ==
  /\ k = "timer"
  /\ k' = "store"
  /\ ev' = [ev EXCEPT ![n].timer = TRUE]
  /\ UNCHANGED <<op, n, pc, para, canceled, io, xpc, tpc>>

\* prepare the co first
store ==
  /\ k = "store"
  /\ k' = "api"
  /\ ev' = [ev EXCEPT ![n].co = TRUE]
  /\ UNCHANGED <<op, n, pc, para, canceled, io, xpc, tpc>>

\* the overlapped call; co_try! resumes the coroutine with the error itself
overlapped ==
  /\ k = "api"
  /\ \/ /\ ev' = [ev EXCEPT ![n].os = "pending"]
        /\ k' = IF op.cancelable THEN "set" ELSE "end"
        /\ UNCHANGED <<pc, para>>
     \/ /\ ev' = [ev EXCEPT ![n].co = FALSE]
        /\ pc' = "back" /\ para' = "Err"
        /\ k' = IF op.cancelable THEN "guard" ELSE "end"
  /\ UNCHANGED <<op, n, canceled, io, xpc, tpc>>

\* register the cancel io data: a clone of the operation's Arc
set_io ==
  /\ k = "set"
  /\ k' = "check"
  /\ io' = n
  /\ ev' = Release(ev, n)
  /\ UNCHANGED <<op, n, pc, para, canceled, xpc, tpc>>

-----------------------------------------------------------------------------
\* CancelIoEx: a pending operation ends as aborted, any other call fails
CancelIoEx(e, i) ==
  IF i # 0 /\ e[i].os = "pending"
  THEN [e EXCEPT ![i].os = "posted", ![i].status = "TimedOut"]
  ELSE e

\* mutant of cancel_io: when CancelIoEx fails the coroutine is scheduled here
cancel_io_schedules ==
  /\ io' = 0
  /\ IF io # 0 /\ ev[io].os = "posted" /\ ev[io].co /\ pc = "susp"
     THEN ev' = [ev EXCEPT ![io].co = FALSE] /\ pc' = "back"
     ELSE ev' = Release(CancelIoEx(ev, io), 0) /\ pc' = pc

\* CancelIoImpl::cancel: take the data out of the slot and abort its operation
cancel_io ==
  /\ io' = 0
  /\ ev' = Release(CancelIoEx(ev, io), 0)
  /\ pc' = pc

\* re-check the cancel status
recheck ==
  /\ k = "check"
  /\ k' = "guard"
  /\ IF canceled THEN cancel_io ELSE UNCHANGED <<io, ev, pc>>
  /\ UNCHANGED <<op, n, para, canceled, xpc, tpc>>

\* the DropGuard of `subscribe` goes
drop_guard ==
  /\ k = "guard"
  /\ k' = "end"
  /\ UNCHANGED <<op, n, pc, para, ev, canceled, io, xpc, tpc>>

\* Coroutine::cancel from elsewhere
cancel ==
  \/ /\ xpc = "start" /\ pc # "unwound"
     /\ canceled' = TRUE
     /\ xpc' = "io"
     /\ UNCHANGED <<op, n, pc, para, k, ev, io, tpc>>
  \/ /\ xpc = "io"
     /\ cancel_io
     /\ xpc' = "end"
     /\ UNCHANGED <<op, n, para, k, canceled, tpc>>

\* the system finishes the operation
complete(i) ==
  /\ ev[i].os = "pending"
  /\ \E s \in {"None", "Err"} :
       ev' = [ev EXCEPT ![i].os = "posted", ![i].status = s]
  /\ UNCHANGED <<op, n, pc, para, k, canceled, io, xpc, tpc>>

\* a packet: take the coroutine (expect), null and remove the timer, set the
\* parameter from the status, schedule
select(i) ==
  /\ ev[i].os = "posted" /\ ev[i].co
  /\ ev' = [ev EXCEPT ![i].os = "none", ![i].co = FALSE, ![i].timer = FALSE]
  /\ para' = ev[i].status
  /\ pc' = "back"
  /\ UNCHANGED <<op, n, k, canceled, io, xpc, tpc>>

\* the timer entry expires; it is found not null, then its target is used.
\* The list may be run by another thread than the packet's (add_io_timer).
timeout_handler ==
  \/ /\ tpc = 0
     /\ \E i \in 1..MaxOps :
          /\ ev[i].timer
          /\ ev' = [ev EXCEPT ![i].timer = FALSE]
          /\ tpc' = i
     /\ UNCHANGED <<op, n, pc, para, k, canceled, io, xpc>>
  \/ /\ tpc # 0
     /\ ev' = CancelIoEx(ev, tpc)
     /\ tpc' = 0
     /\ UNCHANGED <<op, n, pc, para, k, canceled, io, xpc>>

-----------------------------------------------------------------------------
\* yield_back: a canceled coroutine panics, any other clears the cancel slot
\* and `done` takes the parameter as the result
yield_back ==
  /\ pc = "back"
  /\ pc' = "drop"
  /\ IF canceled
     THEN para' = "Cancel" /\ io' = io
     ELSE para' = "None" /\ io' = 0
  /\ ev' = Release(ev, io')
  /\ UNCHANGED <<op, n, k, canceled, xpc, tpc>>

\* the operation is dropped, field by field: io_data ...
drop_io_data ==
  /\ pc = "drop"
  /\ pc' = "can_drop"
  /\ ev' = Release([ev EXCEPT ![n].own = FALSE], io)
  /\ UNCHANGED <<op, n, para, k, canceled, io, xpc, tpc>>

\* DelayDrop::wait: yield_now until the guard is gone.  A cancel that arrives
\* meanwhile panics there, and the frame is left without a further wait; an
\* unwind that is under way already goes on spinning.
YieldInDrop ==
  /\ \/ /\ pc = "can_drop" /\ k # "end" /\ ~canceled
        /\ pc' = "yielded" /\ UNCHANGED para
     \/ /\ pc = "yielded" /\ ~canceled
        /\ pc' = "can_drop" /\ UNCHANGED para
     \/ /\ pc = "yielded" \/ (pc = "can_drop" /\ k # "end")
        /\ canceled /\ para # "Cancel"
        /\ pc' = "unwound" /\ para' = "CancelInDrop"
  /\ UNCHANGED <<op, n, k, ev, canceled, io, xpc, tpc>>

\* mutant of drop_can_drop: the drop does not wait
drop_can_drop_now ==
  /\ pc = "can_drop"
  /\ pc' = IF para = "Cancel" THEN "unwound" ELSE "run"
  /\ UNCHANGED <<op, n, para, k, ev, canceled, io, xpc, tpc>>

\* ... and can_drop, which waits for the guard of `subscribe`
drop_can_drop ==
  \/ /\ pc = "can_drop" /\ k = "end"
     /\ pc' = IF para = "Cancel" THEN "unwound" ELSE "run"
     /\ UNCHANGED <<op, n, para, k, ev, canceled, io, xpc, tpc>>
  \/ YieldInDrop

subscribe == add_io_timer \/ store \/ overlapped \/ set_io \/ recheck \/ drop_guard

Coroutine == yield_back \/ drop_io_data \/ drop_can_drop

\* the coroutine waits for a packet, is done, or has unwound
Quiet == pc \in {"susp", "run", "unwound"} /\ UNCHANGED vars

Next ==
  \/ call \/ subscribe \/ cancel \/ timeout_handler \/ Coroutine
  \/ \E i \in 1..MaxOps : complete(i) \/ select(i)
  \/ Quiet

\* the worker, the io thread and a canceler that has begun go on; the system
\* completes an aborted operation, and no other is promised to end
Fairness ==
  /\ WF_vars(subscribe)
  /\ WF_vars(xpc # "start" /\ cancel)
  /\ WF_vars(Coroutine)
  /\ \A i \in 1..MaxOps : WF_vars(select(i))

Spec == Init /\ [][Next]_vars /\ Fairness

-----------------------------------------------------------------------------
(* iocp.rs `data.co.take().expect("can't get co in selector")`: while the  *)
(* system has an operation's OVERLAPPED, or its packet is on the port, the *)
(* EventData around it is alive and holds the coroutine, whatever timeouts *)
(* and cancels do.                                                         *)
OverlappedHeld ==
  \A i \in 1..MaxOps : ev[i].os # "none" => ev[i].co /\ ~ev[i].freed

(* DelayDrop: the coroutine does not leave the operation's stack frame     *)
(* while `subscribe` still runs in it on another thread, whether it returns*)
(* from the operation or unwinds out of it.  A cancel that arrives in the  *)
(* wait itself is the one way out: the panic of yield_now ends the wait.   *)
SubscribeOutlived ==
  k \in {"set", "check", "guard"} => pc \notin {"run", "unwound"} \/ para = "CancelInDrop"

(* set_io, the check of the state and CancelImpl::cancel: a canceled       *)
(* coroutine does not stay suspended in an operation that registers, not   *)
(* even when the cancel came while the operation was being started.        *)
WinCancelWakes == []<>(pc = "susp" /\ canceled => ~op.cancelable)

(* delay_drop.rs "so the source and the coroutine's local data are not     *)
(* torn down under `subscribe`": `subscribe` clones io_data while the      *)
(* operation still has it.                                                 *)
SourceIntact == k = "set" => ev[n].own
=============================================================================
