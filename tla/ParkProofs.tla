---------------------------- MODULE ParkProofs ------------------------------
(***************************************************************************)
(* Park for any set of Parks and wakers, any bound on the calls, and every *)
(* choice of timeouts, shields, ignored cancels and other unwinds: the     *)
(* memory of a Park is not released under its kernel, no unpark is lost,   *)
(* and every result has its cause.                                         *)
(***************************************************************************)
EXTENDS Park, TLAPS

\* the coroutine is in park_timeout, in the drop of a Park
InPark == {"wait", "wait_back", "yield", "back", "clear", "result"}
InDrop == {"drop", "drop_back"}

\* a waker has called unpark on p
Unparked(p) == \E v \in Wakers : Target[v] = p /\ wpc[v] # "start"

\* the coroutine is canceled on a panicking thread, and cur heeds cancels
Passed == canceled /\ ~Shield /\ (panicking \/ OtherUnwinds) /\ cur \notin IgnoreCancel

\* The types, but for the bound on the timer entries.
Types ==
  /\ loc \in {"run", "ready", "kernel", "slot", "dead"}
  /\ pc \in {"user"} \cup InPark \cup InDrop
  /\ cur \in Parks \cup {NoPark}
  /\ timed \in BOOLEAN /\ panicking \in BOOLEAN
  /\ para \in {"none", "timeout", "canceled"}
  /\ ret \in {"none", "ok", "timeout", "canceled"}
  /\ calls \in 0..MaxCalls
  /\ host \in Parks \cup {NoPark}
  /\ token \in [Parks -> BOOLEAN] /\ canDrop \in [Parks -> BOOLEAN]
  /\ armed \in [Parks -> BOOLEAN] /\ stale \in [Parks -> Nat]
  /\ refs \in [Parks -> SUBSET (Wakers \cup {Co})]
  /\ freed \in [Parks -> BOOLEAN]
  /\ kpc \in [Parks -> {"idle", "arm", "delay", "store", "check", "fast", "nested",
                        "setco", "recheck", "ctake", "cslot", "guard"}]
  /\ kreg \in [Parks -> Parks \cup {NoPark}]
  /\ under \in [Parks -> Parks \cup {NoPark}]
  /\ canceled \in BOOLEAN /\ cancelCo \in Parks \cup {NoPark}
  /\ cpc \in {"idle", "take", "slot"} /\ creg \in Parks \cup {NoPark}
  /\ cancels \in 0..MaxCancels
  /\ wpc \in [Wakers -> {"start", "take", "release", "drop", "done"}]

\* Every timer entry belongs to a call, and a call that has not come to
\* add_timer has none.
Room ==
  \A p \in Parks :
    stale[p] + (IF armed[p] THEN 1 ELSE 0)
      + (IF cur = p /\ (pc \in {"wait", "wait_back", "yield"} \/ kpc[p] = "arm")
           THEN 1 ELSE 0) <= calls

\* Where the coroutine is, and what its kernels have told the DelayDrop.
Place ==
  /\ loc \in {"kernel", "slot"} => pc = "back"
  /\ loc = "ready" => pc \in {"back", "wait_back", "drop_back"}
  /\ loc = "dead" => pc = "user"
  /\ pc \in InPark \cup InDrop => cur \in Parks
  /\ pc = "yield" => kpc[cur] = "idle"
  /\ \A p \in Parks : kpc[p] \in {"arm", "delay", "store"} <=> loc = "kernel" /\ cur = p
  /\ \A p \in Parks : canDrop[p] <=> kpc[p] \notin {"idle", "arm", "delay"}

\* The kernels beneath each other on a stack, and beneath the coroutine.
Stack ==
  /\ host # NoPark => loc = "run" /\ kpc[host] = "nested"
  /\ \A p \in Parks : under[p] # NoPark => kpc[under[p]] = "nested" /\ kpc[p] # "idle"
  /\ \A p, q \in Parks : under[p] = under[q] /\ under[p] # NoPark => p = q
  /\ \A p \in Parks : under[p] # NoPark => under[p] # host

\* Who holds an Arc, and who releases the memory.
Owned ==
  /\ pc \in InPark => Owns(cur)
  /\ pc \in InDrop => refs[cur] = {}
  /\ \A v \in Wakers : wpc[v] = "drop" => refs[Target[v]] = {}
  /\ \A p \in Parks : freed[p] => refs[p] = {} /\ kpc[p] = "idle"

\* What was unparked or canceled to make the coroutine run.
Causes ==
  /\ \A p \in Parks : token[p] \/ kpc[p] = "fast" => Unparked(p)
  /\ pc \in {"back", "clear", "result"} /\ loc \in {"run", "ready"} /\ para = "none"
        => Unparked(cur) \/ Passed
  /\ ret = "ok" => pc = "user" /\ (Unparked(cur) \/ Passed)
  /\ pc # "user" => ret = "none"

Canceling ==
  /\ para = "canceled" \/ ret = "canceled" \/ cpc # "idle" => canceled
  /\ \A p \in Parks : kpc[p] \in {"ctake", "cslot"} => canceled

\* The inductive invariant of Park.
ParkInv ==
  /\ Types /\ Room /\ Place /\ Stack /\ KernelsNested /\ Owned
  /\ Causes /\ Canceling /\ NoLostUnpark

-----------------------------------------------------------------------------
(* A step that leaves alone what a conjunct speaks of keeps it.            *)

LEMMA RoomFrame ==
  Room /\ UNCHANGED <<cur, pc, calls, armed, stale, kpc>> => Room'
BY Zenon DEF Room

LEMMA RoomMoved ==
  /\ Types /\ Room /\ UNCHANGED <<cur, pc, calls, armed, stale>>
  /\ \A q \in Parks : kpc'[q] = "arm" => kpc[q] = "arm"
  => Room'
BY ParkAssumption DEF Room, Types

LEMMA PlaceFrame ==
  Place /\ UNCHANGED <<loc, pc, cur, canDrop, kpc>> => Place'
BY Zenon DEF Place

LEMMA StackFrame ==
  Stack /\ UNCHANGED <<loc, host, kpc, under>> => Stack'
BY Zenon DEF Stack

LEMMA NestedFrame ==
  KernelsNested /\ UNCHANGED <<host, kpc, under>> => KernelsNested'
BY Zenon DEF KernelsNested

LEMMA OwnedFrame ==
  Owned /\ UNCHANGED <<pc, cur, refs, freed, kpc, wpc>> => Owned'
BY Zenon DEF Owned, Owns

LEMMA OwnedMoved ==
  /\ Owned /\ UNCHANGED <<pc, cur, refs, freed, wpc>>
  /\ \A q \in Parks : kpc[q] = "idle" => kpc'[q] = "idle"
  => Owned'
BY Zenon DEF Owned, Owns

LEMMA OwnedKept ==
  /\ Owned /\ UNCHANGED <<pc, cur, refs, freed, kpc>>
  /\ \A v \in Wakers : wpc'[v] = "drop" => wpc[v] = "drop"
  => Owned'
BY DEF Owned, Owns

LEMMA CausesFrame ==
  /\ Causes /\ UNCHANGED <<loc, pc, cur, para, ret, token, kpc, wpc, panicking, canceled>>
  => Causes'
BY DEF Causes, Unparked, Passed

LEMMA PassedFrame ==
  UNCHANGED <<cur, panicking, canceled>> => (Passed => Passed')
BY DEF Passed

LEMMA CausesKept ==
  /\ Causes /\ UNCHANGED <<loc, pc, cur, para, ret, token, kpc>>
  /\ \A v \in Wakers : wpc[v] # "start" => wpc'[v] # "start"
  /\ Passed => Passed'
  => Causes'
<1> SUFFICES ASSUME Causes, UNCHANGED <<loc, pc, cur, para, ret, token, kpc>>,
                    \A v \in Wakers : wpc[v] # "start" => wpc'[v] # "start",
                    Passed => Passed'
             PROVE  Causes'
  BY Zenon
<1>1. \A p : Unparked(p) => Unparked(p)'
  BY Zenon DEF Unparked
<1> QED
  BY <1>1, Zenon DEF Causes

LEMMA CausesMoved ==
  /\ Causes /\ UNCHANGED <<loc, pc, cur, para, ret, token, wpc, panicking, canceled>>
  /\ \A q \in Parks : kpc'[q] = "fast" => kpc[q] = "fast"
  => Causes'
BY DEF Causes, Unparked, Passed

LEMMA CancelingFrame ==
  Canceling /\ UNCHANGED <<para, ret, kpc, canceled, cpc>> => Canceling'
BY DEF Canceling

LEMMA CancelingMoved ==
  /\ Canceling /\ UNCHANGED <<para, ret, canceled, cpc>>
  /\ \A q \in Parks : kpc'[q] \in {"ctake", "cslot"} => kpc[q] \in {"ctake", "cslot"}
  => Canceling'
BY DEF Canceling

LEMMA UnparkFrame ==
  NoLostUnpark /\ UNCHANGED <<loc, cur, token, kpc, wpc>> => NoLostUnpark'
BY DEF NoLostUnpark, InSlot

LEMMA UnparkKept ==
  /\ NoLostUnpark /\ UNCHANGED <<loc, cur, token, kpc>>
  /\ \A v \in Wakers : InSlot(Target[v]) /\ wpc[v] = "take" => wpc'[v] = "take"
  => NoLostUnpark'
BY DEF NoLostUnpark, InSlot

LEMMA UnparkMoved ==
  /\ NoLostUnpark /\ UNCHANGED <<loc, cur, token, wpc>>
  /\ \A q \in Parks : kpc[q] \in {"check", "fast"} => kpc'[q] \in {"check", "fast"}
  => NoLostUnpark'
BY DEF NoLostUnpark, InSlot

\* the steps of subscribe after it has published the coroutine and before it
\* drops its guard
After == {"check", "fast", "setco", "recheck", "ctake", "cslot", "guard"}

LEMMA KernelMoves ==
  ASSUME NEW p \in Parks, Types, Place, Stack, KernelsNested,
         kpc[p] \in After, kpc'[p] \in After,
         \A q \in Parks : q # p => kpc'[q] = kpc[q],
         UNCHANGED <<pc, cur, loc, host, under, canDrop>>
  PROVE  Place' /\ Stack' /\ KernelsNested'
<1>1. Place'
  BY Zenon DEF After, Place, InPark, InDrop
<1>2. Stack'
  <2>1. \A q \in Parks : kpc[q] = "nested" => kpc'[q] = "nested"
    BY Zenon DEF After
  <2>2. \A q \in Parks : kpc[q] # "idle" => kpc'[q] # "idle"
    BY Zenon DEF After
  <2> QED
    BY <2>1, <2>2 DEF Stack, Types
<1>3. KernelsNested'
  BY DEF After, KernelsNested
<1> QED
  BY <1>1, <1>2, <1>3, Zenon

-----------------------------------------------------------------------------
(* Every step keeps the invariant.                                         *)

(* what the user's code chooses to do                                     *)
LEMMA UserKeeps == ASSUME ParkInv, User PROVE ParkInv'
<1> SUFFICES ASSUME Types, Room, Place, Stack, KernelsNested, Owned, Causes, Canceling,
                    NoLostUnpark
             PROVE  ParkInv'
  BY Zenon DEF ParkInv
<1> USE ParkAssumption
<1> USE DEF coVars, placeVars, parkVars, memVars, kernelVars, cancelVars, threadVars
<1>1. ASSUME NEW p \in Parks, park_token(p) PROVE ParkInv'
  <2> USE <1>1 DEF park_token
  <2>1. Types'
    BY DEF Owns, Types
  <2>2. Room'
    BY DEF Owns, Types, InPark, InDrop, Room
  <2>3. Place'
    BY Zenon DEF Owns, Place, InPark, InDrop
  <2>4. Owned'
    BY Zenon DEF Owns, Owned, InPark, InDrop
  <2>5. Causes' /\ Canceling'
    BY DEF Owns, Causes, Unparked, Passed, Canceling
  <2>6. NoLostUnpark'
    BY Zenon DEF Owns, NoLostUnpark, InSlot
  <2>7. Stack' /\ KernelsNested'
    BY StackFrame, NestedFrame, Zenon
  <2> QED
    BY <2>1, <2>2, <2>3, <2>4, <2>5, <2>6, <2>7, Zenon DEF ParkInv
<1>2. ASSUME NEW p \in Parks, NEW t \in Timeouts, park_begin(p, t) PROVE ParkInv'
  <2> USE <1>2 DEF park_begin
  <2>1. Types'
    BY DEF Owns, Types, InPark, InDrop
  <2>2. Room'
    BY DEF Owns, Types, InPark, InDrop, Room
  <2>3. Place'
    BY Zenon DEF Owns, Place, InPark, InDrop
  <2>4. Owned'
    BY Zenon DEF Owns, Owned, InPark, InDrop
  <2>5. Causes' /\ Canceling'
    BY Zenon DEF Owns, Causes, Unparked, Passed, Canceling
  <2>6. NoLostUnpark'
    BY Zenon DEF Owns, NoLostUnpark, InSlot
  <2>7. Stack' /\ KernelsNested'
    BY StackFrame, NestedFrame, Zenon
  <2> QED
    BY <2>1, <2>2, <2>3, <2>4, <2>5, <2>6, <2>7, Zenon DEF ParkInv
<1>3. ASSUME NEW p \in Parks, drop_ref(p) PROVE ParkInv'
  <2> USE <1>3 DEF drop_ref
  <2>1. Types'
    BY DEF Owns, Types, InPark, InDrop
  <2>2. Room'
    BY Zenon DEF Owns, Types, InPark, InDrop, Place, Room
  <2>3. Place'
    BY Zenon DEF Owns, Place, InPark, InDrop
  <2>4. Owned'
    BY Zenon DEF Owns, Types, InPark, InDrop, Owned
  <2>5. Causes' /\ Canceling'
    BY Zenon DEF Owns, Causes, Unparked, Passed, Canceling
  <2>6. NoLostUnpark'
    BY Zenon DEF Owns, NoLostUnpark, InSlot
  <2>7. Stack' /\ KernelsNested'
    BY StackFrame, NestedFrame, Zenon
  <2> QED
    BY <2>1, <2>2, <2>3, <2>4, <2>5, <2>6, <2>7, Zenon DEF ParkInv
<1>4. ASSUME finish PROVE ParkInv'
  <2> USE <1>4 DEF finish, ReturnToHost
  <2>1. Types'
    BY DEF Owns, Types
  <2>2. Room'
    BY DEF Owns, Types, InPark, InDrop, Room
  <2>3. Place' /\ Stack' /\ KernelsNested'
    BY DEF Owns, Types, InPark, InDrop, Place, Stack, KernelsNested
  <2>4. Owned'
    BY DEF Owns, Types, InPark, InDrop, Place, Stack, Owned
  <2>5. Causes' /\ Canceling'
    BY DEF Owns, Causes, Unparked, Passed, Canceling
  <2>6. NoLostUnpark'
    BY Zenon DEF Owns, NoLostUnpark, InSlot
  <2> QED
    BY <2>1, <2>2, <2>3, <2>4, <2>5, <2>6, Zenon DEF ParkInv
<1> QED
  BY <1>1, <1>2, <1>3, <1>4, Zenon DEF User

(* the coroutine in park_timeout and in the drop of a Park                *)
LEMMA CoKeeps == ASSUME ParkInv, CoStep PROVE ParkInv'
<1> SUFFICES ASSUME Types, Room, Place, Stack, KernelsNested, Owned, Causes, Canceling,
                    NoLostUnpark
             PROVE  ParkInv'
  BY Zenon DEF ParkInv
<1> USE ParkAssumption
<1> USE DEF coVars, placeVars, parkVars, memVars, kernelVars, cancelVars, threadVars
<1>1. ASSUME park_wait PROVE ParkInv'
  <2> USE <1>1 DEF park_wait, yield_now, ReturnToHost, is_canceled, CancelPanics, CancelPasses
  <2>1. Types'
    <3>1. pc' \in {"user", "wait", "yield", "wait_back", "drop", "drop_back"}
      BY Zenon DEF park_wait
    <3>2. panicking' \in BOOLEAN
      BY Zenon DEF park_wait, Types
    <3>3. loc' \in {loc, "ready"} /\ host' \in {host, NoPark} /\ para' = para
      BY Zenon DEF park_wait, yield_now
    <3>4. kpc' = kpc \/ (host \in Parks /\ kpc' = [kpc EXCEPT ![host] = "guard"])
      BY Zenon DEF park_wait, yield_now, ReturnToHost, Types
    <3>5. kreg' = kreg /\ under' = under
      BY Zenon DEF park_wait, yield_now
    <3> QED
      BY <3>1, <3>2, <3>3, <3>4, <3>5 DEF park_wait, Types, InPark, InDrop
  <2>2. Room'
    BY DEF Types, InPark, InDrop, Room
  <2>3. Place' /\ Stack' /\ KernelsNested'
    BY DEF Types, InPark, InDrop, Place, Stack, KernelsNested
  <2>4. Owned'
    BY DEF Types, InPark, InDrop, Place, Stack, Owned, Owns
  <2>5. Causes' /\ Canceling'
    BY DEF Types, InPark, InDrop, Causes, Unparked, Passed, Canceling
  <2>6. NoLostUnpark'
    BY Zenon DEF NoLostUnpark, InSlot
  <2> QED
    BY <2>1, <2>2, <2>3, <2>4, <2>5, <2>6, Zenon DEF ParkInv
<1>2. ASSUME park_yield PROVE ParkInv'
  <2> USE <1>2 DEF park_yield, is_canceled
  <2>1. Types'
    BY DEF Types, InPark, InDrop
  <2>2. Room'
    BY DEF Types, InPark, InDrop, Room
  <2>3. Place'
    <3>1. CASE is_canceled
      BY <3>1, Zenon DEF Types, Place, InPark
    <3>2. CASE ~is_canceled
      BY <3>2 DEF Types, Place, InPark
    <3> QED
      BY <3>1, <3>2, Zenon
  <2>4. Stack'
    <3>1. CASE is_canceled
      BY <3>1, Zenon DEF Stack
    <3>2. CASE ~is_canceled
      <4>1. /\ kpc[cur] = "idle" /\ cur \in Parks /\ host' = NoPark
            /\ kpc' = [kpc EXCEPT ![cur] = "arm"] /\ under' = [under EXCEPT ![cur] = host]
        BY <3>2, Zenon DEF Place, InPark
      <4> QED
        BY <4>1, Zenon DEF Types, Stack
    <3> QED
      BY <3>1, <3>2, Zenon
  <2>5. KernelsNested'
    <3>1. CASE is_canceled
      BY <3>1 DEF KernelsNested
    <3>2. CASE ~is_canceled
      <4>1. /\ kpc[cur] = "idle" /\ cur \in Parks /\ host' = NoPark
            /\ kpc' = [kpc EXCEPT ![cur] = "arm"] /\ under' = [under EXCEPT ![cur] = host]
        BY <3>2, Zenon DEF Place, InPark
      <4> QED
        <5>1. /\ under'[cur] = host /\ kpc'[cur] = "arm"
              /\ \A q \in Parks : q # cur => under'[q] = under[q] /\ kpc'[q] = kpc[q]
          BY <4>1, Zenon DEF Types
        <5> QED
          BY <4>1, <5>1 DEF KernelsNested
    <3> QED
      BY <3>1, <3>2, Zenon
  <2>6. Owned'
    BY DEF Types, InPark, InDrop, Owned, Owns
  <2>7. Causes' /\ Canceling'
    BY DEF Types, InPark, InDrop, Causes, Unparked, Passed, Canceling
  <2>8. NoLostUnpark'
    BY Zenon DEF NoLostUnpark, InSlot
  <2> QED
    BY <2>1, <2>2, <2>3, <2>4, <2>5, <2>6, <2>7, <2>8, Zenon DEF ParkInv
<1>3. ASSUME park_yield_back PROVE ParkInv'
  <2> USE <1>3 DEF park_yield_back, is_canceled, CancelPanics, CancelPasses, thread_panicking
  <2>1. Types'
    <3>1. pc' \in {"user", "clear"} /\ para' \in {para, "none"}
      BY Zenon DEF park_yield_back
    <3>2. panicking' \in BOOLEAN
      BY Zenon DEF park_yield_back, Types
    <3> QED
      BY <3>1, <3>2 DEF park_yield_back, Types, InPark
  <2>2. Room'
    BY Zenon DEF Room
  <2>3. Place'
    BY Zenon DEF Place, InPark, InDrop
  <2>4. Owned'
    BY Zenon DEF Owned, Owns, InPark, InDrop
  <2>5. Causes' /\ Canceling'
    BY Zenon DEF Causes, Unparked, Passed, Canceling
  <2>6. Stack' /\ KernelsNested' /\ NoLostUnpark'
    BY StackFrame, NestedFrame, UnparkFrame, Zenon
  <2> QED
    BY <2>1, <2>2, <2>3, <2>4, <2>5, <2>6, Zenon DEF ParkInv
<1>4. ASSUME park_clear PROVE ParkInv'
  <2> USE <1>4 DEF park_clear
  <2>1. Types'
    BY DEF Types, InPark, InDrop, Place
  <2>2. Room'
    BY Zenon DEF Room
  <2>3. Place'
    BY Zenon DEF Place, InPark, InDrop
  <2>4. Owned'
    BY Zenon DEF Owned, Owns, InPark, InDrop
  <2>5. Causes'
    BY DEF Causes, Unparked, Passed
  <2>6. NoLostUnpark'
    BY Zenon DEF NoLostUnpark, InSlot
  <2>7. Stack' /\ KernelsNested' /\ Canceling'
    BY StackFrame, NestedFrame, CancelingFrame, Zenon
  <2> QED
    BY <2>1, <2>2, <2>3, <2>4, <2>5, <2>6, <2>7, Zenon DEF ParkInv
<1>5. ASSUME park_result PROVE ParkInv'
  <2> USE <1>5 DEF park_result
  <2>1. Types'
    BY DEF Types, InPark, InDrop, Place
  <2>2. Room'
    BY DEF Types, InPark, InDrop, Room
  <2>3. Place'
    BY Zenon DEF Place, InPark, InDrop
  <2>4. Owned'
    BY Zenon DEF Owned, Owns, InPark, InDrop
  <2>5. Causes' /\ Canceling'
    BY DEF Types, InPark, InDrop, Causes, Unparked, Passed, Canceling
  <2>6. Stack' /\ KernelsNested' /\ NoLostUnpark'
    BY StackFrame, NestedFrame, UnparkFrame, Zenon
  <2> QED
    BY <2>1, <2>2, <2>3, <2>4, <2>5, <2>6, Zenon DEF ParkInv
<1>6. ASSUME drop_wait PROVE ParkInv'
  <2> USE <1>6 DEF drop_wait, yield_now, ReturnToHost, is_canceled, CancelPanics, CancelPasses
  <2>1. Types'
    <3>1. pc' \in {"user", "wait", "yield", "wait_back", "drop", "drop_back"}
      BY Zenon DEF drop_wait
    <3>2. panicking' \in BOOLEAN
      BY Zenon DEF drop_wait, Types
    <3>3. loc' \in {loc, "ready"} /\ host' \in {host, NoPark} /\ para' = para
      BY Zenon DEF drop_wait, yield_now
    <3>4. kpc' = kpc \/ (host \in Parks /\ kpc' = [kpc EXCEPT ![host] = "guard"])
      BY Zenon DEF drop_wait, yield_now, ReturnToHost, Types
    <3>5. kreg' = kreg /\ under' = under
      BY Zenon DEF drop_wait, yield_now
    <3>6. freed' \in [Parks -> BOOLEAN]
      BY Zenon DEF drop_wait, Types
    <3> QED
      BY <3>1, <3>2, <3>3, <3>4, <3>5, <3>6 DEF drop_wait, Types, InPark, InDrop
  <2>2. Room'
    BY DEF Types, InPark, InDrop, Room
  <2>3. Place' /\ Stack' /\ KernelsNested'
    BY DEF Types, InPark, InDrop, Place, Stack, KernelsNested
  <2>4. Owned'
    BY DEF Types, InPark, InDrop, Place, Stack, Owned, Owns
  <2>5. Causes' /\ Canceling'
    BY DEF Types, InPark, InDrop, Causes, Unparked, Passed, Canceling
  <2>6. NoLostUnpark'
    BY Zenon DEF NoLostUnpark, InSlot
  <2> QED
    BY <2>1, <2>2, <2>3, <2>4, <2>5, <2>6, Zenon DEF ParkInv
<1>7. ASSUME yield_now_back PROVE ParkInv'
  <2> USE <1>7 DEF yield_now_back, is_canceled, CancelPanics, CancelPasses
  <2>1. Types'
    <3>1. pc' \in {"user", "wait", "drop"} /\ panicking' \in BOOLEAN
      BY Zenon DEF Types
    <3> QED
      BY <3>1 DEF Types, InPark, InDrop
  <2>2. Room'
    BY DEF Types, InPark, InDrop, Room
  <2>3. Place'
    BY Zenon DEF Place, InPark, InDrop
  <2>4. Owned'
    BY Zenon DEF Owned, Owns, InPark, InDrop
  <2>5. Causes'
    BY Zenon DEF Causes, Unparked, Passed
  <2>6. Stack' /\ KernelsNested' /\ Canceling' /\ NoLostUnpark'
    BY StackFrame, NestedFrame, CancelingFrame, UnparkFrame, Zenon
  <2> QED
    BY <2>1, <2>2, <2>3, <2>4, <2>5, <2>6, Zenon DEF ParkInv
<1>8. ASSUME run_ready PROVE ParkInv'
  <2> USE <1>8 DEF run_ready
  <2>1. Types'
    BY DEF Types
  <2>2. Place' /\ Stack'
    BY Zenon DEF Place, InPark, InDrop, Stack
  <2>3. Causes'
    BY Zenon DEF Causes, Unparked, Passed
  <2>4. NoLostUnpark'
    BY Zenon DEF NoLostUnpark, InSlot
  <2>5. Room' /\ KernelsNested' /\ Owned' /\ Canceling'
    BY RoomFrame, NestedFrame, OwnedFrame, CancelingFrame, Zenon
  <2> QED
    BY <2>1, <2>2, <2>3, <2>4, <2>5, Zenon DEF ParkInv
<1> QED
  BY <1>1, <1>2, <1>3, <1>4, <1>5, <1>6, <1>7, <1>8, Zenon DEF CoStep

(* subscribe                                                              *)
LEMMA KernelKeeps == ASSUME ParkInv, \E p \in Parks : KernelStep(p) PROVE ParkInv'
<1> SUFFICES ASSUME Types, Room, Place, Stack, KernelsNested, Owned, Causes, Canceling,
                    NoLostUnpark
             PROVE  ParkInv'
  BY Zenon DEF ParkInv
<1> USE ParkAssumption
<1> USE DEF coVars, placeVars, parkVars, memVars, kernelVars, cancelVars, threadVars
<1>1. ASSUME NEW p \in Parks, subscribe_timer(p) PROVE ParkInv'
  <2> USE <1>1 DEF subscribe_timer, Kernel
  <2>1. Types'
    BY DEF Types
  <2>2. /\ \A q \in Parks : kpc[q] = "idle" => kpc'[q] = "idle"
        /\ \A q \in Parks : kpc'[q] = "fast" => kpc[q] = "fast"
        /\ \A q \in Parks :
              kpc'[q] \in {"ctake", "cslot"} => kpc[q] \in {"ctake", "cslot"}
        /\ \A q \in Parks :
              kpc[q] \in {"check", "fast"} => kpc'[q] \in {"check", "fast"}
    BY Zenon DEF Types
  <2>3. Owned' /\ Causes' /\ Canceling' /\ NoLostUnpark'
    BY <2>2, OwnedMoved, CausesMoved, CancelingMoved, UnparkMoved, Zenon
  <2>4. Place' /\ Stack' /\ KernelsNested'
    BY DEF Place, InPark, InDrop, Stack, KernelsNested
  <2>5. Room'
    BY DEF Types, InPark, InDrop, Place, Room
  <2> QED
    BY <2>1, <2>2, <2>3, <2>4, <2>5, Zenon DEF ParkInv
<1>2. ASSUME NEW p \in Parks, subscribe_delay_drop(p) PROVE ParkInv'
  <2> USE <1>2 DEF subscribe_delay_drop, Kernel
  <2>1. Types'
    BY DEF Types
  <2>2. /\ \A q \in Parks : kpc'[q] = "arm" => kpc[q] = "arm"
        /\ \A q \in Parks : kpc[q] = "idle" => kpc'[q] = "idle"
        /\ \A q \in Parks : kpc'[q] = "fast" => kpc[q] = "fast"
        /\ \A q \in Parks :
              kpc'[q] \in {"ctake", "cslot"} => kpc[q] \in {"ctake", "cslot"}
        /\ \A q \in Parks :
              kpc[q] \in {"check", "fast"} => kpc'[q] \in {"check", "fast"}
    BY Zenon DEF Types
  <2>3. Room' /\ Owned' /\ Causes' /\ Canceling' /\ NoLostUnpark'
    BY <2>2, RoomMoved, OwnedMoved, CausesMoved, CancelingMoved, UnparkMoved, Zenon
  <2>4. Place' /\ Stack' /\ KernelsNested'
    BY DEF Types, InPark, InDrop, Place, Stack, KernelsNested
  <2> QED
    BY <2>1, <2>2, <2>3, <2>4, Zenon DEF ParkInv
<1>3. ASSUME NEW p \in Parks, subscribe_store(p) PROVE ParkInv'
  <2> USE <1>3 DEF subscribe_store, Kernel
  <2>1. Types'
    BY DEF Types
  <2>2. /\ \A q \in Parks : kpc'[q] = "arm" => kpc[q] = "arm"
        /\ \A q \in Parks : kpc[q] = "idle" => kpc'[q] = "idle"
        /\ \A q \in Parks :
              kpc'[q] \in {"ctake", "cslot"} => kpc[q] \in {"ctake", "cslot"}
    BY Zenon DEF Types
  <2>3. Room' /\ Owned' /\ Canceling'
    BY <2>2, RoomMoved, OwnedMoved, CancelingMoved, Zenon
  <2>4. Place' /\ Stack' /\ KernelsNested'
    BY DEF Types, InPark, InDrop, Place, Stack, KernelsNested
  <2>5. Causes'
    BY DEF Causes, Unparked, Passed
  <2>6. NoLostUnpark'
    BY DEF Types, InPark, InDrop, Place, NoLostUnpark, InSlot
  <2> QED
    BY <2>1, <2>2, <2>3, <2>4, <2>5, <2>6, Zenon DEF ParkInv
<1>4. ASSUME NEW p \in Parks, subscribe_check_state(p) PROVE ParkInv'
  <2> USE <1>4 DEF subscribe_check_state, Kernel
  <2>1. Types'
    BY DEF Types
  <2>2. /\ \A q \in Parks : kpc'[q] = "arm" => kpc[q] = "arm"
        /\ \A q \in Parks : kpc[q] = "idle" => kpc'[q] = "idle"
        /\ \A q \in Parks :
              kpc'[q] \in {"ctake", "cslot"} => kpc[q] \in {"ctake", "cslot"}
    BY Zenon DEF Types
  <2>3. Room' /\ Owned' /\ Canceling'
    BY <2>2, RoomMoved, OwnedMoved, CancelingMoved, Zenon
  <2>4. kpc[p] \in After /\ kpc'[p] \in After /\ \A q \in Parks : q # p => kpc'[q] = kpc[q]
    BY Zenon DEF Types, After
  <2>5. Place' /\ Stack' /\ KernelsNested'
    BY <2>4, KernelMoves, Zenon
  <2>6. Causes'
    BY DEF Causes, Unparked, Passed
  <2>7. NoLostUnpark'
    BY DEF NoLostUnpark, InSlot
  <2> QED
    BY <2>1, <2>2, <2>3, <2>4, <2>5, <2>6, <2>7, Zenon DEF ParkInv
<1>5. ASSUME NEW p \in Parks, fast_wake_up(p) PROVE ParkInv'
  <2> USE <1>5 DEF fast_wake_up, Kernel
  <2>1. Types'
    BY DEF InSlot, Types
  <2>2. /\ \A q \in Parks : kpc'[q] = "arm" => kpc[q] = "arm"
        /\ \A q \in Parks : kpc[q] = "idle" => kpc'[q] = "idle"
        /\ \A q \in Parks :
              kpc'[q] \in {"ctake", "cslot"} => kpc[q] \in {"ctake", "cslot"}
    BY Zenon DEF Types
  <2>3. Room' /\ Owned' /\ Canceling'
    BY <2>2, RoomMoved, OwnedMoved, CancelingMoved, Zenon
  <2>4. Place' /\ Stack' /\ KernelsNested'
    <3>1. Place'
      BY DEF InSlot, Types, Place, InPark, InDrop
    <3>2. Stack'
      BY DEF InSlot, Types, Place, Stack
    <3>3. KernelsNested'
      BY DEF InSlot, Types, Stack, KernelsNested
    <3> QED
      BY <3>1, <3>2, <3>3, Zenon
  <2>5. Causes'
    BY DEF InSlot, Causes, Unparked, Passed
  <2>6. NoLostUnpark'
    BY DEF InSlot, NoLostUnpark
  <2> QED
    BY <2>1, <2>2, <2>3, <2>4, <2>5, <2>6, Zenon DEF ParkInv
<1>6. ASSUME NEW p \in Parks, subscribe_set_co(p) PROVE ParkInv'
  <2> USE <1>6 DEF subscribe_set_co, Kernel
  <2>1. Types'
    BY DEF Types
  <2>2. /\ \A q \in Parks : kpc'[q] = "arm" => kpc[q] = "arm"
        /\ \A q \in Parks : kpc[q] = "idle" => kpc'[q] = "idle"
        /\ \A q \in Parks : kpc'[q] = "fast" => kpc[q] = "fast"
        /\ \A q \in Parks :
              kpc'[q] \in {"ctake", "cslot"} => kpc[q] \in {"ctake", "cslot"}
        /\ \A q \in Parks :
              kpc[q] \in {"check", "fast"} => kpc'[q] \in {"check", "fast"}
    BY Zenon DEF Types
  <2>3. Room' /\ Owned' /\ Causes' /\ Canceling' /\ NoLostUnpark'
    BY <2>2, RoomMoved, OwnedMoved, CausesMoved, CancelingMoved, UnparkMoved, Zenon
  <2>4. kpc[p] \in After /\ kpc'[p] \in After /\ \A q \in Parks : q # p => kpc'[q] = kpc[q]
    BY Zenon DEF Types, After
  <2>5. Place' /\ Stack' /\ KernelsNested'
    BY <2>4, KernelMoves, Zenon
  <2> QED
    BY <2>1, <2>2, <2>3, <2>4, <2>5, Zenon DEF ParkInv
<1>7. ASSUME NEW p \in Parks, subscribe_check_cancel(p) PROVE ParkInv'
  <2> USE <1>7 DEF subscribe_check_cancel, Kernel, is_canceled
  <2>1. Types'
    BY DEF Types
  <2>2. /\ \A q \in Parks : kpc'[q] = "arm" => kpc[q] = "arm"
        /\ \A q \in Parks : kpc[q] = "idle" => kpc'[q] = "idle"
        /\ \A q \in Parks : kpc'[q] = "fast" => kpc[q] = "fast"
        /\ \A q \in Parks :
              kpc[q] \in {"check", "fast"} => kpc'[q] \in {"check", "fast"}
    BY Zenon DEF Types
  <2>3. Room' /\ Owned' /\ Causes' /\ NoLostUnpark'
    BY <2>2, RoomMoved, OwnedMoved, CausesMoved, UnparkMoved, Zenon
  <2>4. kpc[p] \in After /\ kpc'[p] \in After /\ \A q \in Parks : q # p => kpc'[q] = kpc[q]
    BY Zenon DEF Types, After
  <2>5. Place' /\ Stack' /\ KernelsNested'
    BY <2>4, KernelMoves, Zenon
  <2>6. Canceling'
    BY DEF Canceling
  <2> QED
    BY <2>1, <2>2, <2>3, <2>4, <2>5, <2>6, Zenon DEF ParkInv
<1>8. ASSUME NEW p \in Parks, subscribe_cancel_take(p) PROVE ParkInv'
  <2> USE <1>8 DEF subscribe_cancel_take, Kernel
  <2>1. Types'
    BY DEF Types
  <2>2. /\ \A q \in Parks : kpc'[q] = "arm" => kpc[q] = "arm"
        /\ \A q \in Parks : kpc[q] = "idle" => kpc'[q] = "idle"
        /\ \A q \in Parks : kpc'[q] = "fast" => kpc[q] = "fast"
        /\ \A q \in Parks :
              kpc'[q] \in {"ctake", "cslot"} => kpc[q] \in {"ctake", "cslot"}
        /\ \A q \in Parks :
              kpc[q] \in {"check", "fast"} => kpc'[q] \in {"check", "fast"}
    BY Zenon DEF Types
  <2>3. Room' /\ Owned' /\ Causes' /\ Canceling' /\ NoLostUnpark'
    BY <2>2, RoomMoved, OwnedMoved, CausesMoved, CancelingMoved, UnparkMoved, Zenon
  <2>4. kpc[p] \in After /\ kpc'[p] \in After /\ \A q \in Parks : q # p => kpc'[q] = kpc[q]
    BY Zenon DEF Types, After
  <2>5. Place' /\ Stack' /\ KernelsNested'
    BY <2>4, KernelMoves, Zenon
  <2> QED
    BY <2>1, <2>2, <2>3, <2>4, <2>5, Zenon DEF ParkInv
<1>9. ASSUME NEW p \in Parks, subscribe_cancel_slot(p) PROVE ParkInv'
  <2> USE <1>9 DEF subscribe_cancel_slot, Kernel, CancelSlot
  <2>1. Types'
    BY DEF InSlot, Types
  <2>2. /\ \A q \in Parks : kpc'[q] = "arm" => kpc[q] = "arm"
        /\ \A q \in Parks : kpc[q] = "idle" => kpc'[q] = "idle"
    BY Zenon DEF Types
  <2>3. Room' /\ Owned'
    BY <2>2, RoomMoved, OwnedMoved, Zenon
  <2>4. Place' /\ Stack' /\ KernelsNested'
    <3>1. Place'
      BY DEF InSlot, Place, InPark, InDrop
    <3>2. Stack'
      BY DEF InSlot, Stack
    <3>3. KernelsNested'
      BY DEF InSlot, KernelsNested
    <3> QED
      BY <3>1, <3>2, <3>3, Zenon
  <2>5. Causes' /\ Canceling'
    BY DEF InSlot, Causes, Unparked, Passed, Canceling
  <2>6. NoLostUnpark'
    BY DEF InSlot, NoLostUnpark
  <2> QED
    BY <2>1, <2>2, <2>3, <2>4, <2>5, <2>6, Zenon DEF ParkInv
<1>10. ASSUME NEW p \in Parks, subscribe_return(p) PROVE ParkInv'
  <2> USE <1>10 DEF subscribe_return
  <2>1. Types'
    BY DEF Types
  <2>2. Room'
    BY DEF Types, InPark, InDrop, Room
  <2>3. Place' /\ Stack' /\ KernelsNested'
    <3>1. Place'
      BY DEF Types, InPark, InDrop, Place, Stack
    <3>2. Stack'
      BY DEF Types, InPark, InDrop, Place, Stack
    <3>3. KernelsNested'
      BY DEF Types, Stack, KernelsNested
    <3> QED
      BY <3>1, <3>2, <3>3, Zenon
  <2>4. Owned'
    BY DEF Types, InPark, InDrop, Place, Stack, Owned, Owns
  <2>5. Causes' /\ Canceling'
    BY Zenon DEF Causes, Unparked, Passed, Canceling
  <2>6. NoLostUnpark'
    BY DEF Types, InPark, InDrop, Place, Stack, NoLostUnpark, InSlot
  <2> QED
    BY <2>1, <2>2, <2>3, <2>4, <2>5, <2>6, Zenon DEF ParkInv
<1> QED
  BY <1>1, <1>2, <1>3, <1>4, <1>5, <1>6, <1>7, <1>8, <1>9, <1>10, Zenon DEF KernelStep

(* the wakers                                                             *)
LEMMA UnparkKeeps == ASSUME ParkInv, \E v \in Wakers : unpark_state(v) \/ UnparkStep(v) PROVE ParkInv'
<1> SUFFICES ASSUME Types, Room, Place, Stack, KernelsNested, Owned, Causes, Canceling,
                    NoLostUnpark
             PROVE  ParkInv'
  BY Zenon DEF ParkInv
<1> USE ParkAssumption
<1> USE DEF coVars, placeVars, parkVars, memVars, kernelVars, cancelVars, threadVars
<1>1. ASSUME NEW v \in Wakers, unpark_state(v) PROVE ParkInv'
  <2> USE <1>1 DEF unpark_state
  <2>1. Types'
    BY DEF Types
  <2>2. Owned'
    BY DEF Owned, Owns, InPark, InDrop
  <2>3. Causes'
    BY DEF Types, InPark, InDrop, Causes, Unparked, Passed
  <2>4. NoLostUnpark'
    BY DEF Types, InPark, InDrop, NoLostUnpark, InSlot
  <2>5. Room' /\ Place' /\ Stack' /\ KernelsNested' /\ Canceling'
    BY RoomFrame, PlaceFrame, StackFrame, NestedFrame, CancelingFrame, Zenon
  <2> QED
    BY <2>1, <2>2, <2>3, <2>4, <2>5, Zenon DEF ParkInv
<1>2. ASSUME NEW v \in Wakers, unpark_wake_up(v) PROVE ParkInv'
  <2> USE <1>2 DEF unpark_wake_up
  <2>1. Types'
    BY DEF InSlot, Types
  <2>2. Place' /\ Stack'
    BY Zenon DEF InSlot, Place, InPark, InDrop, Stack
  <2>3. Owned'
    <3>1. \A w \in Wakers : wpc'[w] = "drop" => wpc[w] = "drop"
      BY Zenon DEF Types
    <3> QED
      BY <3>1, OwnedKept, Zenon
  <2>4. Causes'
    <3>1. \A w \in Wakers : wpc[w] # "start" => wpc'[w] # "start"
      BY Zenon DEF Types
    <3>2. CASE InSlot(Target[v])
      <4>1. Unparked(cur)
        BY <3>2, Zenon DEF InSlot, Unparked
      <4> QED
        BY <3>1, <4>1, Zenon DEF Causes, Unparked, Passed
    <3>3. CASE ~InSlot(Target[v])
      BY <3>1, <3>3, CausesKept, PassedFrame, Zenon
    <3> QED
      BY <3>2, <3>3, Zenon
  <2>5. NoLostUnpark'
    <3>1. CASE InSlot(Target[v])
      BY <3>1, Zenon DEF InSlot, NoLostUnpark
    <3>2. CASE ~InSlot(Target[v])
      <4>1. \A w \in Wakers : InSlot(Target[w]) /\ wpc[w] = "take" => wpc'[w] = "take"
        BY <3>2, Zenon DEF Types
      <4> QED
        BY <3>2, <4>1, UnparkKept, Zenon
    <3> QED
      BY <3>1, <3>2, Zenon
  <2>6. Room' /\ KernelsNested' /\ Canceling'
    BY RoomFrame, NestedFrame, CancelingFrame, Zenon
  <2> QED
    BY <2>1, <2>2, <2>3, <2>4, <2>5, <2>6, Zenon DEF ParkInv
<1>3. ASSUME NEW v \in Wakers, waker_drop_ref(v) PROVE ParkInv'
  <2> USE <1>3 DEF waker_drop_ref
  <2>1. Types'
    BY DEF Types
  <2>2. Owned'
    BY DEF Types, InPark, InDrop, Owned, Owns
  <2>3. /\ \A w \in Wakers : wpc[w] # "start" => wpc'[w] # "start"
        /\ \A w \in Wakers : InSlot(Target[w]) /\ wpc[w] = "take" => wpc'[w] = "take"
    BY Zenon DEF Types
  <2>4. Causes' /\ NoLostUnpark'
    BY <2>3, CausesKept, PassedFrame, UnparkKept, Zenon
  <2>5. Room' /\ Place' /\ Stack' /\ KernelsNested' /\ Canceling'
    BY RoomFrame, PlaceFrame, StackFrame, NestedFrame, CancelingFrame, Zenon
  <2> QED
    BY <2>1, <2>2, <2>3, <2>4, <2>5, Zenon DEF ParkInv
<1>4. ASSUME NEW v \in Wakers, waker_drop_wait(v) PROVE ParkInv'
  <2> USE <1>4 DEF waker_drop_wait
  <2>1. Types'
    BY DEF Types
  <2>2. Owned'
    BY DEF Types, InPark, InDrop, Place, Owned, Owns
  <2>3. /\ \A w \in Wakers : wpc[w] # "start" => wpc'[w] # "start"
        /\ \A w \in Wakers : InSlot(Target[w]) /\ wpc[w] = "take" => wpc'[w] = "take"
    BY Zenon DEF Types
  <2>4. Causes' /\ NoLostUnpark'
    BY <2>3, CausesKept, PassedFrame, UnparkKept, Zenon
  <2>5. Room' /\ Place' /\ Stack' /\ KernelsNested' /\ Canceling'
    BY RoomFrame, PlaceFrame, StackFrame, NestedFrame, CancelingFrame, Zenon
  <2> QED
    BY <2>1, <2>2, <2>3, <2>4, <2>5, Zenon DEF ParkInv
<1> QED
  BY <1>1, <1>2, <1>3, <1>4, Zenon DEF UnparkStep

(* the timer thread, and whoever cancels the coroutine                    *)
LEMMA OtherKeeps ==
  ASSUME ParkInv,
         \/ \E p \in Parks : timer_fire(p) \/ timer_delete(p)
         \/ cancel_state \/ Cancel
  PROVE  ParkInv'
<1> SUFFICES ASSUME Types, Room, Place, Stack, KernelsNested, Owned, Causes, Canceling,
                    NoLostUnpark
             PROVE  ParkInv'
  BY Zenon DEF ParkInv
<1> USE ParkAssumption
<1> USE DEF coVars, placeVars, parkVars, memVars, kernelVars, cancelVars, threadVars
<1>1. ASSUME NEW p \in Parks, timer_fire(p) PROVE ParkInv'
  <2> USE <1>1 DEF timer_fire
  <2>1. Types'
    <3>1. armed' \in [Parks -> BOOLEAN]
      BY Zenon DEF timer_fire, Types
    <3>2. stale' \in [Parks -> Nat]
      BY DEF timer_fire, Types
    <3>3. loc' \in {loc, "run"} /\ para' \in {para, "timeout"}
      BY Zenon DEF timer_fire
    <3> QED
      BY <3>1, <3>2, <3>3 DEF timer_fire, Types
  <2>2. Room'
    BY DEF InSlot, Types, InPark, InDrop, Room
  <2>3. Place' /\ Stack'
    BY Zenon DEF InSlot, Place, InPark, InDrop, Stack
  <2>4. Causes' /\ Canceling'
    BY Zenon DEF InSlot, Causes, Unparked, Passed, Canceling
  <2>5. NoLostUnpark'
    BY Zenon DEF InSlot, NoLostUnpark
  <2>6. KernelsNested' /\ Owned'
    BY NestedFrame, OwnedFrame, Zenon
  <2> QED
    BY <2>1, <2>2, <2>3, <2>4, <2>5, <2>6, Zenon DEF ParkInv
<1>2. ASSUME NEW p \in Parks, timer_delete(p) PROVE ParkInv'
  <2> USE <1>2 DEF timer_delete
  <2>1. Types'
    BY DEF Types
  <2>2. Room'
    BY DEF Types, InPark, InDrop, Room
  <2>3. Place' /\ Stack' /\ KernelsNested' /\ Owned' /\ Causes' /\ Canceling' /\ NoLostUnpark'
    BY PlaceFrame, StackFrame, NestedFrame, OwnedFrame, CausesFrame, CancelingFrame,
       UnparkFrame, Zenon
  <2> QED
    BY <2>1, <2>2, <2>3, Zenon DEF ParkInv
<1>3. ASSUME cancel_state PROVE ParkInv'
  <2> USE <1>3 DEF cancel_state
  <2>1. Types'
    BY DEF Types
  <2>2. Canceling'
    BY Zenon DEF Canceling
  <2>3. Causes'
    <3>1. Passed => Passed'
      BY Zenon DEF Passed
    <3> QED
      BY <3>1, CausesKept, Zenon
  <2>4. Room' /\ Place' /\ Stack' /\ KernelsNested' /\ Owned' /\ NoLostUnpark'
    BY RoomFrame, PlaceFrame, StackFrame, NestedFrame, OwnedFrame, UnparkFrame, Zenon
  <2> QED
    BY <2>1, <2>2, <2>3, <2>4, Zenon DEF ParkInv
<1>4. ASSUME cancel_take PROVE ParkInv'
  <2> USE <1>4 DEF cancel_take
  <2>1. Types'
    BY DEF Types
  <2>2. Canceling'
    BY Zenon DEF Canceling
  <2>3. Room' /\ Place' /\ Stack' /\ KernelsNested' /\ Owned' /\ Causes' /\ NoLostUnpark'
    BY RoomFrame, PlaceFrame, StackFrame, NestedFrame, OwnedFrame, CausesFrame,
       UnparkFrame, Zenon
  <2> QED
    BY <2>1, <2>2, <2>3, Zenon DEF ParkInv
<1>5. ASSUME cancel_slot PROVE ParkInv'
  <2> USE <1>5 DEF cancel_slot, CancelSlot
  <2>1. Types'
    BY DEF InSlot, Types
  <2>2. Place' /\ Stack'
    BY Zenon DEF InSlot, Place, InPark, InDrop, Stack
  <2>3. Causes' /\ Canceling'
    BY Zenon DEF InSlot, Causes, Unparked, Passed, Canceling
  <2>4. NoLostUnpark'
    BY Zenon DEF InSlot, NoLostUnpark
  <2>5. Room' /\ KernelsNested' /\ Owned'
    BY RoomFrame, NestedFrame, OwnedFrame, Zenon
  <2> QED
    BY <2>1, <2>2, <2>3, <2>4, <2>5, Zenon DEF ParkInv
<1> QED
  BY <1>1, <1>2, <1>3, <1>4, <1>5, Zenon DEF Cancel

LEMMA ParkStep == ParkInv /\ [Next]_vars => ParkInv'
<1> SUFFICES ASSUME ParkInv, [Next]_vars PROVE ParkInv'
  OBVIOUS
<1>1. CASE UNCHANGED vars
  <2> USE <1>1 DEF vars, coVars, placeVars, parkVars, memVars, kernelVars, cancelVars,
                   threadVars, ParkInv
  <2>1. Types'
    BY DEF Types
  <2>2. /\ Room' /\ Place' /\ Stack' /\ KernelsNested' /\ Owned'
        /\ Causes' /\ Canceling' /\ NoLostUnpark'
    BY RoomFrame, PlaceFrame, StackFrame, NestedFrame, OwnedFrame, CausesFrame,
       CancelingFrame, UnparkFrame, Zenon
  <2> QED
    BY <2>1, <2>2, Zenon DEF ParkInv
<1> QED
  BY <1>1, UserKeeps, CoKeeps, KernelKeeps, UnparkKeeps, OtherKeeps, Zenon DEF Next, Finished

-----------------------------------------------------------------------------

LEMMA ParkInit == Init => ParkInv
<1> SUFFICES ASSUME Init PROVE ParkInv
  OBVIOUS
<1> USE ParkAssumption DEF Init
<1>1. Types
  <2>1. /\ refs \in [Parks -> SUBSET (Wakers \cup {Co})]
        /\ stale \in [Parks -> Nat] /\ calls \in 0..MaxCalls /\ cancels \in 0..MaxCancels
    OBVIOUS
  <2>2. /\ token \in [Parks -> BOOLEAN] /\ canDrop \in [Parks -> BOOLEAN]
        /\ armed \in [Parks -> BOOLEAN] /\ freed \in [Parks -> BOOLEAN]
    OBVIOUS
  <2>3. /\ timed \in BOOLEAN /\ panicking \in BOOLEAN /\ canceled \in BOOLEAN
        /\ kreg \in [Parks -> Parks \cup {NoPark}]
        /\ under \in [Parks -> Parks \cup {NoPark}]
    OBVIOUS
  <2> QED
    BY <2>1, <2>2, <2>3, Zenon DEF Types, InPark, InDrop
<1>2. Room /\ Place /\ Stack /\ KernelsNested
  BY DEF Room, Place, Stack, KernelsNested, InPark, InDrop
<1>3. Owned /\ Causes /\ Canceling /\ NoLostUnpark
  BY Zenon DEF Owned, Causes, Canceling, NoLostUnpark, InSlot, InPark, InDrop
<1> QED
  BY <1>1, <1>2, <1>3, Zenon DEF ParkInv

LEMMA ParkMeans == ParkInv => ParkSafe /\ NoLostUnpark
<1> SUFFICES ASSUME ParkInv PROVE ParkSafe /\ NoLostUnpark
  OBVIOUS
<1> USE ParkAssumption DEF ParkInv
<1>1. \A p \in Parks : stale[p] \in 0..MaxCalls
  BY DEF Types, Room
<1>2. TypeOK
  BY <1>1, Zenon DEF Types, TypeOK, InPark, InDrop
<1>3. NotFreedUnderKernel
  BY Zenon DEF NotFreedUnderKernel, Owned
<1>4. ResultHasCause
  BY Zenon DEF ResultHasCause, Causes, Unparked, Passed, Canceling, CancelPasses, is_canceled,
               thread_panicking
<1> QED
  BY <1>2, <1>3, <1>4, Zenon DEF ParkSafe

(* Whatever the coroutine, its wakers, the timer, the cancelers and the    *)
(* kernels of its Parks do, in any order: subscribe never touches a Park   *)
(* that has been released, kernels resume in the order they were stopped,  *)
(* and park_timeout tells the reason for which it returns, but to a        *)
(* canceled coroutine on a panicking thread, which may get Ok for nothing. *)
THEOREM ParkIsSafe == Spec => []ParkSafe
<1>1. ParkInv /\ [Next]_vars => ParkInv'
  BY ParkStep, Zenon
<1> QED
  BY ParkInit, <1>1, ParkMeans, PTL DEF Spec

(* An unpark that meets a coroutine on its way into wait_co is seen by     *)
(* subscribe's second look at the state, or takes the coroutine out.       *)
THEOREM UnparkNotLost == Spec => []NoLostUnpark
<1>1. ParkInv /\ [Next]_vars => ParkInv'
  BY ParkStep, Zenon
<1> QED
  BY ParkInit, <1>1, ParkMeans, PTL DEF Spec
=============================================================================
