---------------------------- MODULE WinIoProofs -----------------------------
(***************************************************************************)
(* WinIo for any set of operations and any number of them: the system      *)
(* never holds an OVERLAPPED whose memory or coroutine is gone, and        *)
(* `subscribe` does not outlive the frame it runs in, unless a cancel      *)
(* arrives while the frame waits for it.                                   *)
(***************************************************************************)
EXTENDS WinIo, TLAPS

Ops == 1..MaxOps

EventDatas == [co : BOOLEAN, own : BOOLEAN, freed : BOOLEAN,
               os : {"none", "pending", "posted"},
               status : {"None", "Err", "TimedOut"}, timer : BOOLEAN]

\* the types of what the steps read
Types ==
  /\ n \in 0..MaxOps
  /\ pc \in {"run", "susp", "back", "drop", "can_drop", "yielded", "unwound"}
  /\ k \in {"timer", "store", "api", "set", "check", "guard", "end"}
  /\ io \in 0..MaxOps /\ tpc \in 0..MaxOps
  /\ ev \in [Ops -> EventDatas]

\* an operation is in the system only while its coroutine is suspended in it
OnlyCurrent ==
  \A i \in Ops : ev[i].os # "none" => i = n /\ pc = "susp" /\ ev[i].co

\* memory goes after its owner; the current operation and those to come are owned
OwnedKept ==
  /\ \A i \in Ops : ev[i].own => ~ev[i].freed
  /\ \A i \in Ops : i > n => ev[i].own
  /\ pc \in {"susp", "back", "drop"} => n \in Ops /\ ev[n].own

\* where the two threads can be together
Together ==
  /\ k \in {"timer", "store", "api"} => pc = "susp" /\ ev[n].os = "none"
  /\ k = "api" => ev[n].co
  /\ para = "CancelInDrop" => pc = "unwound"
  /\ SubscribeOutlived

WInv == Types /\ OnlyCurrent /\ OwnedKept /\ Together

-----------------------------------------------------------------------------
(* Arc's drop in CancelIoImpl and in the operation (Release): nothing but  *)
(* `freed` changes, and only of an EventData that nobody owns.             *)
LEMMA ReleaseKeeps ==
  ASSUME MaxOps \in Nat, Types, NEW e, NEW slot,
         e \in [Ops -> EventDatas],
         \A i \in Ops : e[i].own => ~e[i].freed
  PROVE  /\ Release(e, slot) \in [Ops -> EventDatas]
         /\ \A i \in Ops : /\ Release(e, slot)[i].own = e[i].own
                           /\ Release(e, slot)[i].os = e[i].os
                           /\ Release(e, slot)[i].co = e[i].co
                           /\ Release(e, slot)[i].own => ~Release(e, slot)[i].freed
BY DEF Release, Ops, EventDatas

(* Selector::cancel_io (CancelIoEx): a pending operation is posted, and    *)
(* nothing else changes.                                                   *)
LEMMA CancelKeeps ==
  ASSUME MaxOps \in Nat, Types, NEW i \in 0..MaxOps
  PROVE  /\ CancelIoEx(ev, i) \in [Ops -> EventDatas]
         /\ \A j \in Ops : /\ CancelIoEx(ev, i)[j].own = ev[j].own
                           /\ CancelIoEx(ev, i)[j].freed = ev[j].freed
                           /\ CancelIoEx(ev, i)[j].co = ev[j].co
                           /\ CancelIoEx(ev, i)[j].os = "none" <=> ev[j].os = "none"
BY DEF CancelIoEx, Types, Ops, EventDatas

(* CancelIoImpl::cancel leaves the owners and the coroutines alone.        *)
LEMMA CancelIoKeeps ==
  ASSUME MaxOps \in Nat, Types, OwnedKept, cancel_io
  PROVE  /\ ev' \in [Ops -> EventDatas] /\ io' = 0 /\ pc' = pc
         /\ \A i \in Ops : /\ ev'[i].own = ev[i].own
                           /\ ev'[i].own => ~ev'[i].freed
                           /\ ev'[i].co = ev[i].co
                           /\ ev'[i].os = "none" <=> ev[i].os = "none"
<1> DEFINE c == CancelIoEx(ev, io)
<1>1. /\ c \in [Ops -> EventDatas]
      /\ \A i \in Ops : /\ c[i].own = ev[i].own /\ c[i].freed = ev[i].freed
                        /\ c[i].co = ev[i].co
                        /\ c[i].os = "none" <=> ev[i].os = "none"
  BY CancelKeeps DEF Types
<1>2. \A i \in Ops : c[i].own => ~c[i].freed
  BY <1>1 DEF OwnedKept
<1>3. ev' = Release(c, 0) /\ io' = 0 /\ pc' = pc
  BY DEF cancel_io
<1> HIDE DEF c
<1> QED
  BY <1>1, <1>2, <1>3, ReleaseKeeps

\* the assignments to an EventData
Arm(e, j) == [e EXCEPT ![j].timer = TRUE]
Disarm(e, j) == [e EXCEPT ![j].timer = FALSE]
StoreCo(e, j) == [e EXCEPT ![j].co = TRUE]
DropCo(e, j) == [e EXCEPT ![j].co = FALSE]
SetPending(e, j) == [e EXCEPT ![j].os = "pending"]
DropOwn(e, j) == [e EXCEPT ![j].own = FALSE]
SetPosted(e, j, s) == [e EXCEPT ![j].os = "posted", ![j].status = s]
SetTaken(e, j) == [e EXCEPT ![j].os = "none", ![j].co = FALSE, ![j].timer = FALSE]

(* add_io_timer assigns the timer only.                                    *)
LEMMA AssignArm ==
  ASSUME NEW e \in [Ops -> EventDatas], NEW j \in Ops
  PROVE  /\ Arm(e, j) \in [Ops -> EventDatas]
         /\ \A i \in Ops : /\ Arm(e, j)[i].own = e[i].own
                           /\ Arm(e, j)[i].freed = e[i].freed
                           /\ Arm(e, j)[i].co = e[i].co
                           /\ Arm(e, j)[i].os = e[i].os
BY DEF EventDatas, Arm

(* timeout_handler finds an entry, and assigns the timer only.             *)
LEMMA AssignDisarm ==
  ASSUME NEW e \in [Ops -> EventDatas], NEW j \in Ops
  PROVE  /\ Disarm(e, j) \in [Ops -> EventDatas]
         /\ \A i \in Ops : /\ Disarm(e, j)[i].own = e[i].own
                           /\ Disarm(e, j)[i].freed = e[i].freed
                           /\ Disarm(e, j)[i].co = e[i].co
                           /\ Disarm(e, j)[i].os = e[i].os
BY DEF EventDatas, Disarm

(* AtomicOption::store assigns the coroutine only.                         *)
LEMMA AssignStore ==
  ASSUME NEW e \in [Ops -> EventDatas], NEW j \in Ops
  PROVE  /\ StoreCo(e, j) \in [Ops -> EventDatas]
         /\ StoreCo(e, j)[j].co
         /\ \A i \in Ops : /\ StoreCo(e, j)[i].own = e[i].own
                           /\ StoreCo(e, j)[i].freed = e[i].freed
                           /\ StoreCo(e, j)[i].os = e[i].os
                           /\ i # j => StoreCo(e, j)[i] = e[i]
BY DEF EventDatas, StoreCo

(* AtomicOption::take assigns the coroutine only.                          *)
LEMMA AssignDrop ==
  ASSUME NEW e \in [Ops -> EventDatas], NEW j \in Ops
  PROVE  /\ DropCo(e, j) \in [Ops -> EventDatas]
         /\ \A i \in Ops : /\ DropCo(e, j)[i].own = e[i].own
                           /\ DropCo(e, j)[i].freed = e[i].freed
                           /\ DropCo(e, j)[i].os = e[i].os
                           /\ i # j => DropCo(e, j)[i] = e[i]
BY DEF EventDatas, DropCo

(* The overlapped call gives the EventData to the system.                  *)
LEMMA AssignOs ==
  ASSUME NEW e \in [Ops -> EventDatas], NEW j \in Ops
  PROVE  /\ SetPending(e, j) \in [Ops -> EventDatas]
         /\ SetPending(e, j)[j].os = "pending"
         /\ \A i \in Ops : /\ SetPending(e, j)[i].own = e[i].own
                           /\ SetPending(e, j)[i].freed = e[i].freed
                           /\ SetPending(e, j)[i].co = e[i].co
                           /\ i # j => SetPending(e, j)[i] = e[i]
BY DEF EventDatas, SetPending

(* The drop of io_data.                                                    *)
LEMMA AssignOwn ==
  ASSUME NEW e \in [Ops -> EventDatas], NEW j \in Ops
  PROVE  /\ DropOwn(e, j) \in [Ops -> EventDatas]
         /\ ~DropOwn(e, j)[j].own
         /\ \A i \in Ops : /\ DropOwn(e, j)[i].freed = e[i].freed
                           /\ DropOwn(e, j)[i].co = e[i].co
                           /\ DropOwn(e, j)[i].os = e[i].os
                           /\ i # j => DropOwn(e, j)[i] = e[i]
BY DEF EventDatas, DropOwn

(* A completed operation is posted to the port.                            *)
LEMMA AssignPosted ==
  ASSUME NEW e \in [Ops -> EventDatas], NEW j \in Ops,
         NEW s, s \in {"None", "Err"}
  PROVE  /\ SetPosted(e, j, s) \in [Ops -> EventDatas]
         /\ SetPosted(e, j, s)[j].os = "posted"
         /\ \A i \in Ops : /\ SetPosted(e, j, s)[i].own = e[i].own
                           /\ SetPosted(e, j, s)[i].freed = e[i].freed
                           /\ SetPosted(e, j, s)[i].co = e[i].co
                           /\ i # j => SetPosted(e, j, s)[i] = e[i]
BY DEF EventDatas, SetPosted

(* The packet is handled: the coroutine and the timer are taken.           *)
LEMMA AssignTaken ==
  ASSUME NEW e \in [Ops -> EventDatas], NEW j \in Ops
  PROVE  /\ SetTaken(e, j) \in [Ops -> EventDatas]
         /\ SetTaken(e, j)[j].os = "none"
         /\ \A i \in Ops : /\ SetTaken(e, j)[i].own = e[i].own
                           /\ SetTaken(e, j)[i].freed = e[i].freed
                           /\ i # j => SetTaken(e, j)[i] = e[i]
<1> DEFINE r == [e[j] EXCEPT !.os = "none", !.co = FALSE, !.timer = FALSE]
<1>1. r \in EventDatas /\ r.os = "none" /\ r.own = e[j].own /\ r.freed = e[j].freed
  BY e[j] \in EventDatas DEF EventDatas
<1>2. SetTaken(e, j) = [e EXCEPT ![j] = r]
  BY Zenon DEF SetTaken
<1> HIDE DEF r
<1> QED
  BY <1>1, <1>2

-----------------------------------------------------------------------------
LEMMA InitWInv == MaxOps \in Nat /\ Init => WInv
BY DEF Init, EventData, WInv, Types, OnlyCurrent, OwnedKept, Together,
       SubscribeOutlived, EventDatas, Ops

LEMMA NextWInv ==
  ASSUME MaxOps \in Nat, WInv, [Next]_vars
  PROVE  WInv'
<1> USE DEF WInv, Types, OnlyCurrent, OwnedKept, Together, SubscribeOutlived, Ops
<1>1. CASE call
  BY <1>1 DEF call
<1>2. CASE add_io_timer
  <2>1. ev' = Arm(ev, n)
    BY <1>2, Zenon DEF add_io_timer, Arm
  <2>2. k = "timer" /\ k' = "store" /\ UNCHANGED <<n, pc, para, io, tpc>>
    BY <1>2 DEF add_io_timer
  <2>3. /\ ev' \in [Ops -> EventDatas]
        /\ \A i \in Ops : /\ ev'[i].own = ev[i].own /\ ev'[i].freed = ev[i].freed
                          /\ ev'[i].co = ev[i].co /\ ev'[i].os = ev[i].os
    BY <2>1, <2>2, AssignArm
  <2> QED
    BY <2>2, <2>3
<1>3. CASE store
  <2>1. ev' = StoreCo(ev, n)
    BY <1>3, Zenon DEF store, StoreCo
  <2>2. k = "store" /\ k' = "api" /\ UNCHANGED <<n, pc, para, io, tpc>>
    BY <1>3 DEF store
  <2>3. /\ ev' \in [Ops -> EventDatas] /\ ev'[n].co
        /\ \A i \in Ops : /\ ev'[i].own = ev[i].own /\ ev'[i].freed = ev[i].freed
                          /\ ev'[i].os = ev[i].os
                          /\ i # n => ev'[i] = ev[i]
    BY <2>1, <2>2, AssignStore
  <2> QED
    BY <2>2, <2>3
<1>4. CASE overlapped
  <2>1. \/ ev' = SetPending(ev, n) /\ k' \in {"set", "end"} /\ pc' = pc /\ para' = para
        \/ ev' = DropCo(ev, n) /\ k' \in {"guard", "end"} /\ pc' = "back" /\ para' = "Err"
    BY <1>4, Zenon DEF overlapped, SetPending, DropCo
  <2>2. k = "api" /\ UNCHANGED <<n, io, tpc>>
    BY <1>4 DEF overlapped
  <2>3. /\ ev' \in [Ops -> EventDatas]
        /\ \A i \in Ops : /\ ev'[i].own = ev[i].own /\ ev'[i].freed = ev[i].freed
                          /\ i # n => ev'[i] = ev[i]
        /\ ev' = SetPending(ev, n) => ev'[n].co = ev[n].co
        /\ ev' = DropCo(ev, n) => ev'[n].os = ev[n].os
    BY <2>1, <2>2, AssignOs, AssignDrop
  <2> QED
    BY <2>1, <2>2, <2>3
<1>5. CASE set_io
  BY <1>5, ReleaseKeeps DEF set_io
<1>6. CASE recheck
  <2>1. k = "check" /\ k' = "guard" /\ UNCHANGED <<n, para, tpc>>
        /\ (cancel_io \/ UNCHANGED <<io, ev, pc>>)
    BY <1>6 DEF recheck
  <2>2. CASE cancel_io
    BY <2>1, <2>2, CancelIoKeeps
  <2> QED
    BY <2>1, <2>2
<1>7. CASE drop_guard
  BY <1>7 DEF drop_guard
<1>8. CASE cancel
  <2>1. UNCHANGED <<n, para, k, tpc>> /\ (cancel_io \/ UNCHANGED <<io, ev, pc>>)
    BY <1>8 DEF cancel
  <2>2. CASE cancel_io
    BY <2>1, <2>2, CancelIoKeeps
  <2> QED
    BY <2>1, <2>2
<1>9. CASE timeout_handler
  <2>1. \/ \E j \in Ops : ev' = Disarm(ev, j) /\ tpc' = j
        \/ ev' = CancelIoEx(ev, tpc) /\ tpc' = 0
    BY <1>9, Zenon DEF timeout_handler, Disarm
  <2>2. UNCHANGED <<n, pc, para, k, io>>
    BY <1>9 DEF timeout_handler
  <2>3. /\ ev' \in [Ops -> EventDatas]
        /\ \A i \in Ops : /\ ev'[i].own = ev[i].own /\ ev'[i].freed = ev[i].freed
                          /\ ev'[i].co = ev[i].co
                          /\ ev'[i].os = "none" <=> ev[i].os = "none"
    <3>1. CASE \E j \in Ops : ev' = Disarm(ev, j)
      BY <3>1, AssignDisarm
    <3>2. CASE ev' = CancelIoEx(ev, tpc)
      BY <3>2, CancelKeeps
    <3> QED
      BY <2>1, <3>1, <3>2
  <2>4. tpc' \in 0..MaxOps
    BY <2>1
  <2> QED
    BY <2>2, <2>3, <2>4
<1>10. CASE yield_back
  BY <1>10, ReleaseKeeps DEF yield_back
<1>11. CASE drop_io_data
  <2>1. ev' = Release(DropOwn(ev, n), io)
    BY <1>11, Zenon DEF drop_io_data, DropOwn
  <2>2. pc = "drop" /\ pc' = "can_drop" /\ UNCHANGED <<n, para, k, io, tpc>>
    BY <1>11 DEF drop_io_data
  <2>3. /\ ev' \in [Ops -> EventDatas]
        /\ \A i \in Ops : /\ i # n => ev'[i].own = ev[i].own
                          /\ ev'[i].own => ~ev'[i].freed
                          /\ ev'[i].co = ev[i].co /\ ev'[i].os = ev[i].os
    <3>1. n \in Ops
      BY <2>2
    <3>2. /\ DropOwn(ev, n) \in [Ops -> EventDatas]
          /\ ~DropOwn(ev, n)[n].own
          /\ \A i \in Ops : /\ i # n => DropOwn(ev, n)[i] = ev[i]
                            /\ DropOwn(ev, n)[i].co = ev[i].co
                            /\ DropOwn(ev, n)[i].os = ev[i].os
      BY <3>1, AssignOwn
    <3>3. \A i \in Ops : DropOwn(ev, n)[i].own => ~DropOwn(ev, n)[i].freed
      BY <3>2
    <3> QED
      BY <2>1, <3>2, <3>3, ReleaseKeeps
  <2> QED
    BY <2>2, <2>3
<1>12. CASE drop_can_drop
  BY <1>12 DEF drop_can_drop, YieldInDrop
<1>13. ASSUME NEW j \in 1..MaxOps, complete(j) PROVE WInv'
  <2>1. ev[j].os = "pending" /\ UNCHANGED <<n, pc, para, k, io, tpc>>
    BY <1>13 DEF complete
  <2>2. ASSUME NEW s, s \in {"None", "Err"}, ev' = SetPosted(ev, j, s)
        PROVE  /\ ev' \in [Ops -> EventDatas]
               /\ \A i \in Ops : /\ ev'[i].own = ev[i].own /\ ev'[i].freed = ev[i].freed
                                 /\ ev'[i].co = ev[i].co
                                 /\ i # j => ev'[i] = ev[i]
    BY <2>2, AssignPosted
  <2>3. \E s \in {"None", "Err"} : ev' = SetPosted(ev, j, s)
    BY <1>13, Zenon DEF complete, SetPosted
  <2> QED
    BY <2>1, <2>2, <2>3
<1>14. ASSUME NEW j \in 1..MaxOps, select(j) PROVE WInv'
  <2>1. ev' = SetTaken(ev, j)
    BY <1>14, Zenon DEF select, SetTaken
  <2>2. /\ ev[j].os = "posted" /\ pc' = "back" /\ para' = ev[j].status
        /\ UNCHANGED <<n, k, io, tpc>>
    BY <1>14 DEF select
  <2>3. para' # "CancelInDrop"
    BY <2>2 DEF EventDatas
  <2>4. /\ ev' \in [Ops -> EventDatas] /\ ev'[j].os = "none"
        /\ \A i \in Ops : /\ ev'[i].own = ev[i].own /\ ev'[i].freed = ev[i].freed
                          /\ i # j => ev'[i] = ev[i]
    BY <2>1, AssignTaken
  <2> QED
    BY <2>2, <2>3, <2>4
<1>15. CASE UNCHANGED vars
  BY <1>15 DEF vars
<1> QED
  BY <1>1, <1>2, <1>3, <1>4, <1>5, <1>6, <1>7, <1>8, <1>9, <1>10, <1>11, <1>12,
     <1>13, <1>14, <1>15 DEF Next, subscribe, Coroutine, Quiet

-----------------------------------------------------------------------------
(* iocp.rs `data.co.take().expect(..)`, for any number of operations of    *)
(* any kind: while the system has an OVERLAPPED or its packet is on the    *)
(* port, the EventData around it is alive and holds the coroutine.         *)
THEOREM OverlappedSafe ==
  ASSUME MaxOps \in Nat PROVE Spec => []OverlappedHeld
<1>1. WInv => OverlappedHeld
  BY DEF WInv, OnlyCurrent, OwnedKept, OverlappedHeld, Ops
<1> QED
  BY <1>1, InitWInv, NextWInv, PTL DEF Spec

(* DelayDrop, for any number of operations of any kind: the coroutine is   *)
(* out of the operation's frame only when `subscribe` is, unless a cancel  *)
(* arrives while the drop waits for that.                                  *)
THEOREM FrameSafe ==
  ASSUME MaxOps \in Nat PROVE Spec => []SubscribeOutlived
<1>1. WInv => SubscribeOutlived
  BY DEF WInv, Together
<1> QED
  BY <1>1, InitWInv, NextWInv, PTL DEF Spec
=============================================================================
