---------------------------- MODULE MutexProofs ----------------------------
(***************************************************************************)
(* IInv is an inductive invariant of Mutex, for any set of calls; mutual   *)
(* exclusion and the other safety properties of Mutex follow from it.      *)
(***************************************************************************)
EXTENDS Mutex, FiniteSetTheorems, TLAPS

\* Init establishes the invariant.
LEMMA InitIInv == Init => IInv
<1> SUFFICES ASSUME Init PROVE IInv
  OBVIOUS
<1> USE CallsAssumption DEF Init
<1>1. TypeOK
  BY DEF TypeOK, PCs
<1>2. \A c \in Calls : ~Permit(c) /\ ~Counted(c)
  BY Zenon DEF Permit, Active, Granted, Flagged, Counted, SubFor
<1>3. OnePermit /\ LockNotLost
  BY <1>2, Zenon DEF OnePermit, LockNotLost
<1>4. CntIsCounted
  <2>1. CountedCalls = {}
    BY <1>2, Zenon DEF CountedCalls
  <2> QED
    BY <2>1, FS_EmptySet, Zenon DEF CntIsCounted
<1>5. NoBlockerLost /\ QueueFresh /\ LocalsOK /\ CancelOK
  BY DEF NoBlockerLost, QueueFresh, LocalsOK, Waiting, Storing, CancelOK
<1> QED
  BY <1>1, <1>3, <1>4, <1>5, Zenon DEF IInv

\* A step that touches neither pc, then, release nor w keeps the slots.
LEMMA CountedFrame ==
  ASSUME CntIsCounted, CountedCalls' = CountedCalls, cnt' = cnt
  PROVE  CntIsCounted'
BY Zenon DEF CntIsCounted

\* Taking a slot.
LEMMA CountedAdd ==
  ASSUME CntIsCounted, NEW c \in Calls, ~Counted(c),
         CountedCalls' = CountedCalls \cup {c}, cnt' = cnt + 1
  PROVE  CntIsCounted'
BY FS_AddElement, Zenon DEF CntIsCounted, CountedCalls

\* Giving a slot back.
LEMMA CountedRemove ==
  ASSUME CntIsCounted, NEW c \in Calls, Counted(c),
         CountedCalls' = CountedCalls \ {c}, cnt' = cnt - 1
  PROVE  CntIsCounted'
BY FS_RemoveElement, Zenon DEF CntIsCounted, CountedCalls
\* A step that neither queues, pops nor marks a blocker, and by which a call
\* leaves the wait only after it was handed the lock, keeps the queue sound.
LEMMA QueueFrame ==
  ASSUME NoBlockerLost, QueueFresh, to_wake \in Seq(Calls),
         to_wake' = to_wake, unparked' = unparked,
         \A d \in Calls : /\ Waiting(d)' => Waiting(d)
                          /\ Waiting(d) => Waiting(d)' \/ unparked[d],
         \A d, e \in Calls : Storing(e, d)' <=> Storing(e, d)
  PROVE  NoBlockerLost' /\ QueueFresh'
<1>1. NoBlockerLost'
  BY Zenon DEF NoBlockerLost, InQueue
<1>2. QueueFresh'
  BY DEF QueueFresh
<1> QED
  BY <1>1, <1>2, Zenon

\* Only coroutines are canceled, and only canceled calls leave park with Err.
LEMMA NextCancelOK == TypeOK /\ CancelOK /\ [Next]_vars => CancelOK'
<1> SUFFICES ASSUME TypeOK, CancelOK, [Next]_vars PROVE CancelOK'
  OBVIOUS
<1> USE DEF TypeOK, CancelOK, Goto
<1>1. ASSUME NEW c \in Calls, Begin(c) PROVE CancelOK'
  BY <1>1, Zenon DEF Begin, try_lock, try_lock_would_block, lock_contended
<1>2. ASSUME NEW c \in Calls, Run(c) PROVE CancelOK'
  <2>1. CASE park_canceled(c)
    BY <2>1, Zenon DEF park_canceled
  <2>2. CASE ~park_canceled(c)
    <3>1. canceled' = canceled /\ \A d \in Calls : pc'[d] = "check" => pc[d] = "check"
      BY <1>2, <2>2 DEF Run, lock_register, lock_fetch_add, park_ok,
         lock_check_unparked, lock_set_release, lock_recheck, lock_take_release,
         unlock_fetch_sub, pop_blocker, unpark_store, unpark_wake, unpark_take_release
    <3> QED
      BY <3>1, Zenon
  <2> QED
    BY <2>1, <2>2, Zenon
<1>3. ASSUME NEW c \in Calls, drop_guard(c) \/ cancel(c) PROVE CancelOK'
  BY <1>3, Zenon DEF drop_guard, cancel
<1>4. CASE UNCHANGED vars
  BY <1>4, Zenon DEF vars
<1> QED
  BY <1>1, <1>2, <1>3, <1>4, Zenon DEF Next, Finished

\* Every step preserves the invariant: one step of the proof per action, and
\* under it one per conjunct of IInv.  Only lock_fetch_add, try_lock and
\* unlock_fetch_sub move cnt; the permit argument is in OnePermit and
\* LockNotLost.
LEMMA NextIInv == IInv /\ [Next]_vars => IInv'
<1> SUFFICES ASSUME IInv, [Next]_vars PROVE IInv'
  OBVIOUS
<1> USE CallsAssumption DEF IInv, Goto
<1>0. CancelOK'
  BY NextCancelOK, Zenon
<1>1. ASSUME NEW c \in Calls, try_lock(c) PROVE IInv'
  <2> USE <1>1 DEF try_lock
  <2>1. TypeOK'
    BY Zenon DEF TypeOK, PCs
  <2>2. OnePermit'
    BY DEF TypeOK, PCs, OnePermit, LockNotLost, Permit, Active, Granted, Flagged,
       LocalsOK, Waiting
  <2>3. LockNotLost'
    BY DEF TypeOK, PCs, OnePermit, LockNotLost, Permit, Active, Granted, Flagged,
       LocalsOK, Waiting
  <2>4. CntIsCounted'
    <3>1. ~Counted(c)
      BY FS_EmptySet DEF TypeOK, PCs, Counted, SubFor, LocalsOK
    <3>2. CountedCalls' = CountedCalls \cup {c}
      BY <3>1 DEF TypeOK, PCs, CountedCalls, Counted, SubFor, LocalsOK
    <3> QED
      BY <3>1, <3>2, CountedAdd
  <2>5. NoBlockerLost' /\ QueueFresh'
    <3>1. \A d \in Calls : /\ Waiting(d)' => Waiting(d)
                           /\ Waiting(d) => Waiting(d)' \/ unparked[d]
      BY DEF TypeOK, PCs, Waiting, LocalsOK
    <3>2. \A d, e \in Calls : Storing(e, d)' <=> Storing(e, d)
      BY Zenon DEF TypeOK, Storing
    <3> QED
      BY <3>1, <3>2, QueueFrame, Zenon DEF TypeOK
  <2>6. LocalsOK'
    BY DEF TypeOK, PCs, LocalsOK, Waiting, OnePermit, Permit, Active, Granted, Flagged
  <2> QED
    BY <1>0, <2>1, <2>2, <2>3, <2>4, <2>5, <2>6, Zenon
<1>2. ASSUME NEW c \in Calls, try_lock_would_block(c) PROVE IInv'
  <2> USE <1>2 DEF try_lock_would_block
  <2>1. TypeOK'
    BY Zenon DEF TypeOK, PCs
  <2>2. OnePermit'
    BY DEF TypeOK, PCs, OnePermit, LockNotLost, Permit, Active, Granted, Flagged,
       LocalsOK, Waiting
  <2>3. LockNotLost'
    BY DEF TypeOK, PCs, OnePermit, LockNotLost, Permit, Active, Granted, Flagged,
       LocalsOK, Waiting
  <2>4. CntIsCounted'
    <3>1. \A d \in Calls : Counted(d)' <=> Counted(d)
      BY DEF TypeOK, PCs, Counted, SubFor, LocalsOK
    <3> QED
      BY <3>1, CountedFrame, Zenon DEF CountedCalls
  <2>5. NoBlockerLost' /\ QueueFresh'
    <3>1. \A d \in Calls : /\ Waiting(d)' => Waiting(d)
                           /\ Waiting(d) => Waiting(d)' \/ unparked[d]
      BY DEF TypeOK, PCs, Waiting, LocalsOK
    <3>2. \A d, e \in Calls : Storing(e, d)' <=> Storing(e, d)
      BY Zenon DEF TypeOK, Storing
    <3> QED
      BY <3>1, <3>2, QueueFrame, Zenon DEF TypeOK
  <2>6. LocalsOK'
    BY DEF TypeOK, PCs, LocalsOK, Waiting, OnePermit, Permit, Active, Granted, Flagged
  <2> QED
    BY <1>0, <2>1, <2>2, <2>3, <2>4, <2>5, <2>6, Zenon
<1>3. ASSUME NEW c \in Calls, lock_contended(c) PROVE IInv'
  <2> USE <1>3 DEF lock_contended
  <2>1. TypeOK'
    BY Zenon DEF TypeOK, PCs
  <2>2. OnePermit'
    BY DEF TypeOK, PCs, OnePermit, LockNotLost, Permit, Active, Granted, Flagged,
       LocalsOK, Waiting
  <2>3. LockNotLost'
    BY DEF TypeOK, PCs, OnePermit, LockNotLost, Permit, Active, Granted, Flagged,
       LocalsOK, Waiting
  <2>4. CntIsCounted'
    <3>1. \A d \in Calls : Counted(d)' <=> Counted(d)
      BY DEF TypeOK, PCs, Counted, SubFor, LocalsOK
    <3> QED
      BY <3>1, CountedFrame, Zenon DEF CountedCalls
  <2>5. NoBlockerLost' /\ QueueFresh'
    <3>1. \A d \in Calls : /\ Waiting(d)' => Waiting(d)
                           /\ Waiting(d) => Waiting(d)' \/ unparked[d]
      BY DEF TypeOK, PCs, Waiting, LocalsOK
    <3>2. \A d, e \in Calls : Storing(e, d)' <=> Storing(e, d)
      BY Zenon DEF TypeOK, Storing
    <3> QED
      BY <3>1, <3>2, QueueFrame, Zenon DEF TypeOK
  <2>6. LocalsOK'
    BY DEF TypeOK, PCs, LocalsOK, Waiting, OnePermit, Permit, Active, Granted, Flagged
  <2> QED
    BY <1>0, <2>1, <2>2, <2>3, <2>4, <2>5, <2>6, Zenon
<1>4. ASSUME NEW c \in Calls, lock_register(c) PROVE IInv'
  <2> USE <1>4 DEF lock_register
  <2>1. TypeOK'
    BY DEF TypeOK, PCs
  <2>2. OnePermit'
    BY DEF TypeOK, PCs, OnePermit, LockNotLost, Permit, Active, Granted, Flagged,
       LocalsOK, Waiting
  <2>3. LockNotLost'
    BY DEF TypeOK, PCs, OnePermit, LockNotLost, Permit, Active, Granted, Flagged,
       LocalsOK, Waiting
  <2>4. CntIsCounted'
    <3>1. \A d \in Calls : Counted(d)' <=> Counted(d)
      BY DEF TypeOK, PCs, Counted, SubFor, LocalsOK
    <3> QED
      BY <3>1, CountedFrame, Zenon DEF CountedCalls
  <2>5. NoBlockerLost'
    BY DEF TypeOK, PCs, NoBlockerLost, Waiting, Storing, InQueue, LocalsOK
  <2>6. QueueFresh'
    <3>1. ~Waiting(c) /\ ~unparked[c]
      BY Zenon DEF TypeOK, Waiting, LocalsOK
    <3>2. \A i \in 1..Len(to_wake) : to_wake[i] # c
      BY <3>1, Zenon DEF QueueFresh
    <3>3. \A d \in Calls : ~Storing(d, c)'
      BY <3>1 DEF TypeOK, Storing, LocalsOK
    <3>4. /\ Len(to_wake') = Len(to_wake) + 1 /\ Len(to_wake) \in Nat
          /\ to_wake'[Len(to_wake')] = c
          /\ \A i \in 1..Len(to_wake) : to_wake'[i] = to_wake[i] /\ to_wake[i] \in Calls
      BY DEF TypeOK
    <3>5. \A d \in Calls : (d # c => (Waiting(d)' <=> Waiting(d))) /\ Waiting(c)'
      BY Zenon DEF TypeOK, Waiting
    <3>6. \A d, e \in Calls : Storing(e, d)' <=> Storing(e, d)
      BY Zenon DEF TypeOK, Storing
    <3>7. \A i \in 1..Len(to_wake') : i \in 1..Len(to_wake) \/ i = Len(to_wake')
      BY <3>4
    <3> QED
      BY <3>1, <3>2, <3>3, <3>4, <3>5, <3>6, <3>7 DEF QueueFresh
  <2>7. LocalsOK'
    BY DEF TypeOK, PCs, LocalsOK, Waiting, OnePermit, Permit, Active, Granted, Flagged
  <2> QED
    BY <1>0, <2>1, <2>2, <2>3, <2>4, <2>5, <2>6, <2>7, Zenon
<1>5. ASSUME NEW c \in Calls, lock_fetch_add(c) PROVE IInv'
  <2> USE <1>5 DEF lock_fetch_add
  <2>1. TypeOK'
    BY DEF TypeOK, PCs
  <2>2. OnePermit'
    BY DEF TypeOK, PCs, OnePermit, LockNotLost, Permit, Active, Granted, Flagged,
       LocalsOK, Waiting
  <2>3. LockNotLost'
    BY DEF TypeOK, PCs, OnePermit, LockNotLost, Permit, Active, Granted, Flagged,
       LocalsOK, Waiting
  <2>4. CntIsCounted'
    <3>1. ~Counted(c)
      BY DEF TypeOK, PCs, Counted, SubFor, LocalsOK
    <3>2. CountedCalls' = CountedCalls \cup {c}
      BY <3>1 DEF TypeOK, PCs, CountedCalls, Counted, SubFor, LocalsOK
    <3> QED
      BY <3>1, <3>2, CountedAdd, Zenon DEF TypeOK
  <2>5. NoBlockerLost' /\ QueueFresh'
    <3>1. \A d \in Calls : /\ Waiting(d)' => Waiting(d)
                           /\ Waiting(d) => Waiting(d)' \/ unparked[d]
      BY DEF TypeOK, PCs, Waiting, LocalsOK
    <3>2. \A d, e \in Calls : Storing(e, d)' <=> Storing(e, d)
      BY Zenon DEF TypeOK, Storing
    <3> QED
      BY <3>1, <3>2, QueueFrame, Zenon DEF TypeOK
  <2>6. LocalsOK'
    <3>1. cnt = 0 => ~unparked[c]
      BY Zenon DEF LockNotLost, Permit, Granted
    <3> QED
      BY <3>1 DEF TypeOK, PCs, LocalsOK, Waiting
  <2> QED
    BY <1>0, <2>1, <2>2, <2>3, <2>4, <2>5, <2>6, Zenon
<1>6. ASSUME NEW c \in Calls, park_ok(c) PROVE IInv'
  <2> USE <1>6 DEF park_ok
  <2>1. TypeOK'
    BY Zenon DEF TypeOK, PCs
  <2>2. OnePermit'
    BY DEF TypeOK, PCs, OnePermit, LockNotLost, Permit, Active, Granted, Flagged,
       LocalsOK, Waiting
  <2>3. LockNotLost'
    BY DEF TypeOK, PCs, OnePermit, LockNotLost, Permit, Active, Granted, Flagged,
       LocalsOK, Waiting
  <2>4. CntIsCounted'
    <3>1. \A d \in Calls : Counted(d)' <=> Counted(d)
      BY DEF TypeOK, PCs, Counted, SubFor, LocalsOK
    <3> QED
      BY <3>1, CountedFrame, Zenon DEF CountedCalls
  <2>5. NoBlockerLost' /\ QueueFresh'
    <3>1. \A d \in Calls : /\ Waiting(d)' => Waiting(d)
                           /\ Waiting(d) => Waiting(d)' \/ unparked[d]
      BY DEF TypeOK, PCs, Waiting, LocalsOK
    <3>2. \A d, e \in Calls : Storing(e, d)' <=> Storing(e, d)
      BY Zenon DEF TypeOK, Storing
    <3> QED
      BY <3>1, <3>2, QueueFrame, Zenon DEF TypeOK
  <2>6. LocalsOK'
    BY DEF TypeOK, PCs, LocalsOK, Waiting, OnePermit, Permit, Active, Granted, Flagged
  <2> QED
    BY <1>0, <2>1, <2>2, <2>3, <2>4, <2>5, <2>6, Zenon
<1>7. ASSUME NEW c \in Calls, park_canceled(c) PROVE IInv'
  <2> USE <1>7 DEF park_canceled
  <2>1. TypeOK'
    BY Zenon DEF TypeOK, PCs
  <2>2. OnePermit'
    BY DEF TypeOK, PCs, OnePermit, LockNotLost, Permit, Active, Granted, Flagged,
       LocalsOK, Waiting
  <2>3. LockNotLost'
    BY DEF TypeOK, PCs, OnePermit, LockNotLost, Permit, Active, Granted, Flagged,
       LocalsOK, Waiting
  <2>4. CntIsCounted'
    <3>1. \A d \in Calls : Counted(d)' <=> Counted(d)
      BY DEF TypeOK, PCs, Counted, SubFor, LocalsOK
    <3> QED
      BY <3>1, CountedFrame, Zenon DEF CountedCalls
  <2>5. NoBlockerLost' /\ QueueFresh'
    <3>1. \A d \in Calls : /\ Waiting(d)' => Waiting(d)
                           /\ Waiting(d) => Waiting(d)' \/ unparked[d]
      BY DEF TypeOK, PCs, Waiting, LocalsOK
    <3>2. \A d, e \in Calls : Storing(e, d)' <=> Storing(e, d)
      BY Zenon DEF TypeOK, Storing
    <3> QED
      BY <3>1, <3>2, QueueFrame, Zenon DEF TypeOK
  <2>6. LocalsOK'
    BY DEF TypeOK, PCs, LocalsOK, Waiting, OnePermit, Permit, Active, Granted, Flagged
  <2> QED
    BY <1>0, <2>1, <2>2, <2>3, <2>4, <2>5, <2>6, Zenon
<1>8. ASSUME NEW c \in Calls, lock_check_unparked(c) PROVE IInv'
  <2> USE <1>8 DEF lock_check_unparked
  <2>1. TypeOK'
    BY Zenon DEF TypeOK, PCs
  <2>2. OnePermit'
    BY DEF TypeOK, PCs, OnePermit, LockNotLost, Permit, Active, Granted, Flagged,
       LocalsOK, Waiting
  <2>3. LockNotLost'
    BY DEF TypeOK, PCs, OnePermit, LockNotLost, Permit, Active, Granted, Flagged,
       LocalsOK, Waiting
  <2>4. CntIsCounted'
    <3>1. \A d \in Calls : Counted(d)' <=> Counted(d)
      BY DEF TypeOK, PCs, Counted, SubFor, LocalsOK
    <3> QED
      BY <3>1, CountedFrame, Zenon DEF CountedCalls
  <2>5. NoBlockerLost' /\ QueueFresh'
    <3>1. \A d \in Calls : /\ Waiting(d)' => Waiting(d)
                           /\ Waiting(d) => Waiting(d)' \/ unparked[d]
      BY DEF TypeOK, PCs, Waiting, LocalsOK
    <3>2. \A d, e \in Calls : Storing(e, d)' <=> Storing(e, d)
      BY Zenon DEF TypeOK, Storing
    <3> QED
      BY <3>1, <3>2, QueueFrame, Zenon DEF TypeOK
  <2>6. LocalsOK'
    BY DEF TypeOK, PCs, LocalsOK, Waiting, OnePermit, Permit, Active, Granted, Flagged
  <2> QED
    BY <1>0, <2>1, <2>2, <2>3, <2>4, <2>5, <2>6, Zenon
<1>9. ASSUME NEW c \in Calls, lock_set_release(c) PROVE IInv'
  <2> USE <1>9 DEF lock_set_release
  <2>1. TypeOK'
    BY Zenon DEF TypeOK, PCs
  <2>2. OnePermit'
    BY DEF TypeOK, PCs, OnePermit, LockNotLost, Permit, Active, Granted, Flagged,
       LocalsOK, Waiting
  <2>3. LockNotLost'
    BY DEF TypeOK, PCs, OnePermit, LockNotLost, Permit, Active, Granted, Flagged,
       LocalsOK, Waiting
  <2>4. CntIsCounted'
    <3>1. \A d \in Calls : Counted(d)' <=> Counted(d)
      BY DEF TypeOK, PCs, Counted, SubFor, LocalsOK
    <3> QED
      BY <3>1, CountedFrame, Zenon DEF CountedCalls
  <2>5. NoBlockerLost' /\ QueueFresh'
    <3>1. \A d \in Calls : /\ Waiting(d)' => Waiting(d)
                           /\ Waiting(d) => Waiting(d)' \/ unparked[d]
      BY DEF TypeOK, PCs, Waiting, LocalsOK
    <3>2. \A d, e \in Calls : Storing(e, d)' <=> Storing(e, d)
      BY Zenon DEF TypeOK, Storing
    <3> QED
      BY <3>1, <3>2, QueueFrame, Zenon DEF TypeOK
  <2>6. LocalsOK'
    BY DEF TypeOK, PCs, LocalsOK, Waiting, OnePermit, Permit, Active, Granted, Flagged
  <2> QED
    BY <1>0, <2>1, <2>2, <2>3, <2>4, <2>5, <2>6, Zenon
<1>10. ASSUME NEW c \in Calls, lock_recheck(c) PROVE IInv'
  <2> USE <1>10 DEF lock_recheck
  <2>1. TypeOK'
    BY Zenon DEF TypeOK, PCs
  <2>2. OnePermit'
    BY DEF TypeOK, PCs, OnePermit, LockNotLost, Permit, Active, Granted, Flagged,
       LocalsOK, Waiting
  <2>3. LockNotLost'
    BY DEF TypeOK, PCs, OnePermit, LockNotLost, Permit, Active, Granted, Flagged,
       LocalsOK, Waiting
  <2>4. CntIsCounted'
    <3>1. \A d \in Calls : Counted(d)' <=> Counted(d)
      BY DEF TypeOK, PCs, Counted, SubFor, LocalsOK
    <3> QED
      BY <3>1, CountedFrame, Zenon DEF CountedCalls
  <2>5. NoBlockerLost' /\ QueueFresh'
    <3>1. \A d \in Calls : /\ Waiting(d)' => Waiting(d)
                           /\ Waiting(d) => Waiting(d)' \/ unparked[d]
      BY DEF TypeOK, PCs, Waiting, LocalsOK
    <3>2. \A d, e \in Calls : Storing(e, d)' <=> Storing(e, d)
      BY Zenon DEF TypeOK, Storing
    <3> QED
      BY <3>1, <3>2, QueueFrame, Zenon DEF TypeOK
  <2>6. LocalsOK'
    BY DEF TypeOK, PCs, LocalsOK, Waiting, OnePermit, Permit, Active, Granted, Flagged
  <2> QED
    BY <1>0, <2>1, <2>2, <2>3, <2>4, <2>5, <2>6, Zenon
<1>11. ASSUME NEW c \in Calls, lock_take_release(c) PROVE IInv'
  <2> USE <1>11 DEF lock_take_release
  <2>1. TypeOK'
    BY Zenon DEF TypeOK, PCs
  <2>2. OnePermit'
    BY DEF TypeOK, PCs, OnePermit, LockNotLost, Permit, Active, Granted, Flagged,
       LocalsOK, Waiting
  <2>3. LockNotLost'
    BY DEF TypeOK, PCs, OnePermit, LockNotLost, Permit, Active, Granted, Flagged,
       LocalsOK, Waiting
  <2>4. CntIsCounted'
    <3>1. \A d \in Calls : Counted(d)' <=> Counted(d)
      BY DEF TypeOK, PCs, Counted, SubFor, LocalsOK
    <3> QED
      BY <3>1, CountedFrame, Zenon DEF CountedCalls
  <2>5. NoBlockerLost' /\ QueueFresh'
    <3>1. \A d \in Calls : /\ Waiting(d)' => Waiting(d)
                           /\ Waiting(d) => Waiting(d)' \/ unparked[d]
      BY DEF TypeOK, PCs, Waiting, LocalsOK
    <3>2. \A d, e \in Calls : Storing(e, d)' <=> Storing(e, d)
      BY Zenon DEF TypeOK, Storing
    <3> QED
      BY <3>1, <3>2, QueueFrame, Zenon DEF TypeOK
  <2>6. LocalsOK'
    BY DEF TypeOK, PCs, LocalsOK, Waiting, OnePermit, Permit, Active, Granted, Flagged
  <2> QED
    BY <1>0, <2>1, <2>2, <2>3, <2>4, <2>5, <2>6, Zenon
<1>12. ASSUME NEW c \in Calls, drop_guard(c) PROVE IInv'
  <2> USE <1>12 DEF drop_guard
  <2>1. TypeOK'
    BY Zenon DEF TypeOK, PCs
  <2>2. OnePermit'
    BY DEF TypeOK, PCs, OnePermit, LockNotLost, Permit, Active, Granted, Flagged,
       LocalsOK, Waiting
  <2>3. LockNotLost'
    BY DEF TypeOK, PCs, OnePermit, LockNotLost, Permit, Active, Granted, Flagged,
       LocalsOK, Waiting
  <2>4. CntIsCounted'
    <3>1. \A d \in Calls : Counted(d)' <=> Counted(d)
      BY DEF TypeOK, PCs, Counted, SubFor, LocalsOK
    <3> QED
      BY <3>1, CountedFrame, Zenon DEF CountedCalls
  <2>5. NoBlockerLost' /\ QueueFresh'
    <3>1. \A d \in Calls : /\ Waiting(d)' => Waiting(d)
                           /\ Waiting(d) => Waiting(d)' \/ unparked[d]
      BY DEF TypeOK, PCs, Waiting, LocalsOK
    <3>2. \A d, e \in Calls : Storing(e, d)' <=> Storing(e, d)
      BY Zenon DEF TypeOK, Storing
    <3> QED
      BY <3>1, <3>2, QueueFrame, Zenon DEF TypeOK
  <2>6. LocalsOK'
    BY DEF TypeOK, PCs, LocalsOK, Waiting, OnePermit, Permit, Active, Granted, Flagged
  <2> QED
    BY <1>0, <2>1, <2>2, <2>3, <2>4, <2>5, <2>6, Zenon
<1>13. ASSUME NEW c \in Calls, unlock_fetch_sub(c) PROVE IInv'
  <2> USE <1>13 DEF unlock_fetch_sub
  <2>1. TypeOK'
    <3>1. cnt # 0
      BY Zenon DEF LockNotLost, Permit, Active
    <3> QED
      BY <3>1 DEF TypeOK, PCs
  <2>2. OnePermit'
    BY DEF TypeOK, PCs, OnePermit, LockNotLost, Permit, Active, Granted, Flagged,
       LocalsOK, Waiting
  <2>3. LockNotLost'
    BY DEF TypeOK, PCs, OnePermit, LockNotLost, Permit, Active, Granted, Flagged,
       LocalsOK, Waiting
  <2>4. CntIsCounted'
    <3> DEFINE x == IF w[c] = NoCall THEN c ELSE w[c]
    <3>1. x \in Calls /\ Counted(x)
      BY Zenon DEF TypeOK, Counted, SubFor
    <3>2. \A d \in Calls : pc[d] = "sub" => d = c
      BY Zenon DEF OnePermit, Permit, Active
    <3>3. \A d \in Calls : Counted(d)' <=> Counted(d) /\ d # x
      BY <3>1, <3>2 DEF TypeOK, PCs, Counted, SubFor, LocalsOK
    <3>4. CountedCalls' = CountedCalls \ {x}
      BY <3>3, Zenon DEF CountedCalls
    <3> QED
      BY <3>1, <3>4, CountedRemove, Zenon
  <2>5. NoBlockerLost' /\ QueueFresh'
    <3>0. pc'[c] \in {"pop", then[c]} /\ \A d \in Calls : d # c => pc'[d] = pc[d]
      BY Zenon DEF TypeOK
    <3>1. \A d \in Calls : Waiting(d)' <=> Waiting(d)
      BY <3>0 DEF TypeOK, Waiting, LocalsOK
    <3>2. \A d, e \in Calls : Storing(e, d)' <=> Storing(e, d)
      BY <3>0, Zenon DEF TypeOK, Storing
    <3> QED
      BY <3>1, <3>2, QueueFrame, Zenon DEF TypeOK
  <2>6. LocalsOK'
    BY DEF TypeOK, PCs, LocalsOK, Waiting, OnePermit, Permit, Active, Granted, Flagged
  <2> QED
    BY <1>0, <2>1, <2>2, <2>3, <2>4, <2>5, <2>6, Zenon
<1>14. ASSUME NEW c \in Calls, pop_blocker(c) PROVE IInv'
  <2> USE <1>14 DEF pop_blocker
  <2> PICK h \in Calls : h = Head(to_wake)
    BY DEF TypeOK
  <2>h. /\ h = to_wake[1] /\ Len(to_wake) > 0
        /\ \A i \in 1..Len(to_wake') : to_wake'[i] = to_wake[i + 1] /\ i + 1 \in 1..Len(to_wake)
        /\ \A i \in 2..Len(to_wake) : to_wake[i] = to_wake'[i - 1] /\ i - 1 \in 1..Len(to_wake')
    BY DEF TypeOK
  <2>f. ~unparked[h] /\ Waiting(h)
    BY <2>h DEF QueueFresh
  <2>1. TypeOK'
    BY DEF TypeOK, PCs
  <2>2. OnePermit'
    BY DEF TypeOK, PCs, OnePermit, LockNotLost, Permit, Active, Granted, Flagged,
       LocalsOK, Waiting
  <2>3. LockNotLost'
    BY DEF TypeOK, PCs, OnePermit, LockNotLost, Permit, Active, Granted, Flagged,
       LocalsOK, Waiting
  <2>4. CntIsCounted'
    <3>1. \A d \in Calls : Counted(d)' <=> Counted(d)
      BY DEF TypeOK, PCs, Counted, SubFor, LocalsOK
    <3> QED
      BY <3>1, CountedFrame, Zenon DEF CountedCalls
  <2>5. NoBlockerLost'
    <3>1. ASSUME NEW d \in Calls, InQueue(d), d # h PROVE InQueue(d)'
      <4>1. PICK i \in 1..Len(to_wake) : to_wake[i] = d
        BY <3>1, Zenon DEF InQueue
      <4>2. i \in 2..Len(to_wake)
        BY <2>h, <3>1, <4>1 DEF TypeOK
      <4>3. i - 1 \in 1..Len(to_wake') /\ to_wake'[i - 1] = d
        BY <2>h, <4>1, <4>2, Zenon
      <4> QED
        BY <4>3, Zenon DEF InQueue
    <3>2. Storing(c, h)'
      BY <2>h, Zenon DEF TypeOK, Storing
    <3>3. \A d \in Calls : Waiting(d)' => Waiting(d)
      BY Zenon DEF TypeOK, PCs, Waiting
    <3>4. \A d, e \in Calls : Storing(e, d) => Storing(e, d)'
      BY Zenon DEF TypeOK, Storing
    <3> QED
      BY <3>1, <3>2, <3>3, <3>4, Zenon DEF NoBlockerLost
  <2>6. QueueFresh'
    <3>1. \A d \in Calls : Waiting(d) => Waiting(d)'
      BY DEF TypeOK, PCs, Waiting
    <3>2. \A d, e \in Calls : Storing(e, d)' => Storing(e, d) \/ d = h
      BY <2>h, Zenon DEF TypeOK, Storing
    <3>3. \A i \in 1..Len(to_wake') : to_wake'[i] \in Calls /\ to_wake'[i] # h
      BY <2>h DEF TypeOK, QueueFresh
    <3>4. \A i, j \in 1..Len(to_wake') : to_wake'[i] = to_wake'[j] => i = j
      BY <2>h DEF TypeOK, QueueFresh
    <3>5. ASSUME NEW i \in 1..Len(to_wake')
          PROVE  /\ ~unparked'[to_wake'[i]] /\ Waiting(to_wake'[i])
                 /\ \A d \in Calls : ~Storing(d, to_wake'[i])
      BY <2>h, Zenon DEF QueueFresh
    <3> QED
      BY <3>1, <3>2, <3>3, <3>4, <3>5, Zenon DEF QueueFresh
  <2>7. LocalsOK'
    <3>1. \A d \in Calls : Waiting(d)' <=> Waiting(d)
      BY Zenon DEF TypeOK, PCs, Waiting
    <3>2. w'[c] = h /\ \A d \in Calls : d # c => w'[d] = w[d]
      BY <2>h, Zenon DEF TypeOK
    <3> QED
      BY <2>h, <2>f, <3>1, <3>2 DEF TypeOK, PCs, LocalsOK
  <2> QED
    BY <1>0, <2>1, <2>2, <2>3, <2>4, <2>5, <2>6, <2>7, Zenon
<1>15. ASSUME NEW c \in Calls, unpark_store(c) PROVE IInv'
  <2> USE <1>15 DEF unpark_store
  <2>1. TypeOK'
    <3>1. w[c] \in Calls
      BY Zenon DEF LocalsOK
    <3> QED
      BY <3>1, Zenon DEF TypeOK, PCs
  <2>2. OnePermit'
    BY DEF TypeOK, PCs, OnePermit, LockNotLost, Permit, Active, Granted, Flagged,
       LocalsOK, Waiting
  <2>3. LockNotLost'
    BY Zenon DEF TypeOK, PCs, OnePermit, LockNotLost, Permit, Active, Granted,
       Flagged, LocalsOK, Waiting
  <2>4. CntIsCounted'
    <3>1. \A d \in Calls : Counted(d)' <=> Counted(d)
      BY DEF TypeOK, PCs, Counted, SubFor, LocalsOK
    <3> QED
      BY <3>1, CountedFrame, Zenon DEF CountedCalls
  <2>5. NoBlockerLost'
    BY DEF TypeOK, PCs, NoBlockerLost, Waiting, Storing, InQueue, LocalsOK
  <2>6. QueueFresh'
    BY DEF TypeOK, PCs, QueueFresh, Storing, Waiting, LocalsOK
  <2>7. LocalsOK'
    BY DEF TypeOK, PCs, LocalsOK, Waiting, OnePermit, Permit, Active, Granted, Flagged
  <2> QED
    BY <1>0, <2>1, <2>2, <2>3, <2>4, <2>5, <2>6, <2>7, Zenon
<1>16. ASSUME NEW c \in Calls, unpark_wake(c) PROVE IInv'
  <2> USE <1>16 DEF unpark_wake
  <2>1. TypeOK'
    <3>1. w[c] \in Calls
      BY Zenon DEF LocalsOK
    <3> QED
      BY <3>1, Zenon DEF TypeOK, PCs
  <2>2. OnePermit'
    BY DEF TypeOK, PCs, OnePermit, LockNotLost, Permit, Active, Granted, Flagged,
       LocalsOK, Waiting
  <2>3. LockNotLost'
    BY DEF TypeOK, PCs, OnePermit, LockNotLost, Permit, Active, Granted, Flagged,
       LocalsOK, Waiting
  <2>4. CntIsCounted'
    <3>1. \A d \in Calls : Counted(d)' <=> Counted(d)
      BY DEF TypeOK, PCs, Counted, SubFor, LocalsOK
    <3> QED
      BY <3>1, CountedFrame, Zenon DEF CountedCalls
  <2>5. NoBlockerLost' /\ QueueFresh'
    <3>1. \A d \in Calls : /\ Waiting(d)' => Waiting(d)
                           /\ Waiting(d) => Waiting(d)' \/ unparked[d]
      BY DEF TypeOK, PCs, Waiting, LocalsOK
    <3>2. \A d, e \in Calls : Storing(e, d)' <=> Storing(e, d)
      BY Zenon DEF TypeOK, Storing
    <3> QED
      BY <3>1, <3>2, QueueFrame, Zenon DEF TypeOK
  <2>6. LocalsOK'
    BY DEF TypeOK, PCs, LocalsOK, Waiting, OnePermit, Permit, Active, Granted, Flagged
  <2> QED
    BY <1>0, <2>1, <2>2, <2>3, <2>4, <2>5, <2>6, Zenon
<1>17. ASSUME NEW c \in Calls, unpark_take_release(c) PROVE IInv'
  <2> USE <1>17 DEF unpark_take_release
  <2>1. TypeOK'
    <3>1. w[c] \in Calls
      BY Zenon DEF LocalsOK
    <3> QED
      BY <3>1, Zenon DEF TypeOK, PCs
  <2>2. OnePermit'
    BY DEF TypeOK, PCs, OnePermit, LockNotLost, Permit, Active, Granted, Flagged,
       LocalsOK, Waiting
  <2>3. LockNotLost'
    BY DEF TypeOK, PCs, OnePermit, LockNotLost, Permit, Active, Granted, Flagged,
       LocalsOK, Waiting
  <2>4. CntIsCounted'
    <3>1. \A d \in Calls : Counted(d)' <=> Counted(d)
      BY DEF TypeOK, PCs, Counted, SubFor, LocalsOK
    <3> QED
      BY <3>1, CountedFrame, Zenon DEF CountedCalls
  <2>5. NoBlockerLost' /\ QueueFresh'
    <3>1. \A d \in Calls : /\ Waiting(d)' => Waiting(d)
                           /\ Waiting(d) => Waiting(d)' \/ unparked[d]
      BY DEF TypeOK, PCs, Waiting, LocalsOK
    <3>2. \A d, e \in Calls : Storing(e, d)' <=> Storing(e, d)
      BY Zenon DEF TypeOK, Storing
    <3> QED
      BY <3>1, <3>2, QueueFrame, Zenon DEF TypeOK
  <2>6. LocalsOK'
    BY DEF TypeOK, PCs, LocalsOK, Waiting, OnePermit, Permit, Active, Granted, Flagged
  <2> QED
    BY <1>0, <2>1, <2>2, <2>3, <2>4, <2>5, <2>6, Zenon
<1>18. ASSUME UNCHANGED <<cnt, to_wake, unparked, release, token, pc, w, then>>,
             canceled' \in [Calls -> BOOLEAN]
      PROVE  IInv'
  <2> USE <1>18
  <2>1. TypeOK'
    BY Zenon DEF TypeOK
  <2>2. OnePermit' /\ LockNotLost'
    BY Zenon DEF OnePermit, LockNotLost, Permit, Active, Granted, Flagged
  <2>3. CntIsCounted'
    BY Zenon DEF CntIsCounted, CountedCalls, Counted, SubFor
  <2>4. NoBlockerLost'
    BY Zenon DEF NoBlockerLost, Waiting, Storing, InQueue
  <2>5. QueueFresh'
    BY Zenon DEF QueueFresh, Waiting, Storing
  <2>6. LocalsOK'
    BY Zenon DEF LocalsOK, Waiting
  <2> QED
    BY <1>0, <2>1, <2>2, <2>3, <2>4, <2>5, <2>6, Zenon
<1>19. ASSUME NEW c \in Calls, cancel(c) PROVE IInv'
  BY <1>18, <1>19, Zenon DEF cancel, TypeOK
<1>20. CASE UNCHANGED vars
  BY <1>18, <1>20, Zenon DEF vars, TypeOK
<1> QED
  BY <1>1, <1>2, <1>3, <1>4, <1>5, <1>6, <1>7, <1>8, <1>9, <1>10, <1>11, <1>12, <1>13,
     <1>14, <1>15, <1>16, <1>17, <1>19, <1>20, Zenon
  DEF Next, Begin, Run, Finished

\* The inductive invariant holds in every reachable state.
THEOREM Invariance == Spec => []IInv
BY InitIInv, NextIInv, PTL DEF Spec

-----------------------------------------------------------------------------
(* What it means for the users of the mutex                                *)

\* Every variable of the mutex keeps its type; cnt never underflows.
THEOREM TypeCorrect == Spec => []TypeOK
BY Invariance, PTL DEF IInv

\* At most one call holds the lock, for any number of calls and cancels.
THEOREM MutualExclusionHolds == Spec => []MutualExclusion
<1>1. IInv => MutualExclusion
  BY Zenon DEF IInv, OnePermit, Permit, Active, MutualExclusion
<1> QED
  BY <1>1, Invariance, PTL

\* The single-consumer queue to_wake is popped by one call at a time.
THEOREM SinglePopperHolds == Spec => []SinglePopper
<1>1. IInv => SinglePopper
  BY Zenon DEF IInv, OnePermit, Permit, Active, SinglePopper
<1> QED
  BY <1>1, Invariance, PTL

\* While cnt is not zero the lock is with exactly one call or hand-off.
THEOREM LockNotLostHolds == Spec => [](LockNotLost /\ OnePermit)
BY Invariance, PTL DEF IInv

\* The expect("got null blocker!") of lock() and unlock() never fails.
THEOREM NoNullBlockerHolds == Spec => []NoNullBlocker
<1>1. ASSUME IInv PROVE NoNullBlocker
  <2> SUFFICES ASSUME NEW c \in Calls, pc[c] = "pop"
               PROVE  \E d \in Calls : InQueue(d)
    BY <1>1 DEF NoNullBlocker, InQueue, IInv, TypeOK
  <2>1. \A d \in Calls : Permit(d) => d = c
    BY <1>1, Zenon DEF IInv, OnePermit, Permit, Active
  <2>2. \A d, e \in Calls : ~Storing(e, d)
    BY <2>1, Zenon DEF Storing, Permit, Active
  <2>3. CASE then[c] = "park"
    <3>1. Waiting(c) /\ ~unparked[c]
      BY <1>1, <2>3, Zenon DEF IInv, LocalsOK, Waiting
    <3> QED
      BY <1>1, <2>2, <3>1, Zenon DEF IInv, NoBlockerLost
  <2>4. CASE then[c] # "park"
    <3>1. cnt # 0 /\ CountedCalls # {}
      BY <1>1, FS_EmptySet, Zenon DEF IInv, LockNotLost, Permit, Active, CntIsCounted
    <3>2. PICK d \in Calls : Counted(d)
      BY <3>1, Zenon DEF CountedCalls
    <3>3. \A e \in Calls : pc[e] \notin {"sub", "hold", "store"}
      BY <2>1, Zenon DEF Permit, Active
    <3>4. ~Counted(c)
      BY <1>1, <2>4, <3>3, Zenon DEF IInv, LocalsOK, Counted, SubFor
    <3>5. ~Permit(d) /\ d # c
      BY <2>1, <3>2, <3>4, Zenon
    <3>6. Waiting(d)
      BY <3>2, <3>3, Zenon DEF Counted, Waiting, SubFor
    <3>7. ~unparked[d]
      <4>1. pc[d] \notin {"pop", "store", "sub"}
        BY <3>5, Zenon DEF Permit, Active
      <4>2. pc[d] \in {"add", "park", "check", "setrel"} => ~unparked[d]
        BY <3>5, Zenon DEF Permit, Granted
      <4>3. pc[d] \in {"wake", "take"} /\ then[d] = "park" => ~unparked[d]
        BY <3>5, Zenon DEF Permit, Granted
      <4>4. release[d] => ~unparked[d]
        BY <3>5, Zenon DEF Permit, Flagged
      <4> QED
        BY <3>6, <4>1, <4>2, <4>3, <4>4, Zenon DEF Waiting
    <3> QED
      BY <1>1, <2>2, <3>6, <3>7, Zenon DEF IInv, NoBlockerLost
  <2> QED
    BY <2>3, <2>4, Zenon
<1> QED
  BY <1>1, Invariance, PTL

\* Waiters get the lock in the order in which they registered.
THEOREM FifoHandOffHolds == Spec => []FifoHandOff
<1>1. ASSUME IInv PROVE FifoHandOff
  <2> SUFFICES ASSUME NEW i \in 1..Len(to_wake), pc[to_wake[i]] = "hold"
               PROVE  FALSE
    BY Zenon DEF FifoHandOff
  <2>1. to_wake[i] \in Calls /\ Waiting(to_wake[i])
    BY <1>1 DEF IInv, TypeOK, QueueFresh
  <2> QED
    BY <1>1, <2>1, Zenon DEF IInv, LocalsOK, Waiting
<1> QED
  BY <1>1, Invariance, PTL

\* A step in which the abstract status of one call alone changes.
LEMMA StatusUpdate ==
  ASSUME NEW c \in Calls, NEW x,
         statusOf(c)' = x,
         \A d \in Calls : d # c => statusOf(d)' = statusOf(d)
  PROVE  status' = [status EXCEPT ![c] = x]
BY Zenon DEF status

\* The mutex implements AbstractLock: an acquisition finds the lock free, and
\* only a canceled, unshielded waiter leaves without it.
THEOREM Refinement == Spec => ImplementsLock
<1> USE CallsAssumption
<1>1. Init => Lock!Init
  BY Zenon DEF Init, Lock!Init, status, statusOf, leaving
<1>2. ASSUME IInv, [Next]_vars PROVE [Lock!Next]_status
  <2> USE DEF Goto, IInv, TypeOK
  <2> DEFINE Quiet == \A c \in Calls : statusOf(c)' = statusOf(c)
  <2>q. Quiet => status' = status
    BY Zenon DEF status
  <2>s. \A c \in Calls : status[c] = statusOf(c)
    BY Zenon DEF status
  <2>1. ASSUME NEW c \in Calls, try_lock(c) PROVE Lock!Acquire(c)
    <3>1. /\ statusOf(c)' = "holding"
          /\ \A d \in Calls : d # c => statusOf(d)' = statusOf(d)
      BY <1>2, <2>1, Zenon DEF try_lock, statusOf, leaving
    <3>2. status' = [status EXCEPT ![c] = "holding"]
      BY <3>1, StatusUpdate, Zenon
    <3>3. Lock!Free
      BY <1>2, <2>1, <2>s, Zenon DEF try_lock, LockNotLost, Permit, Active, statusOf,
         Lock!Free
    <3> QED
      BY <2>1, <2>s, <3>2, <3>3, Zenon DEF try_lock, statusOf, Lock!Acquire
  <2>2. ASSUME NEW c \in Calls, try_lock_would_block(c) PROVE Lock!Refuse(c)
    <3>1. /\ statusOf(c)' = "gone"
          /\ \A d \in Calls : d # c => statusOf(d)' = statusOf(d)
      BY <1>2, <2>2, Zenon DEF try_lock_would_block, statusOf, leaving
    <3>2. status' = [status EXCEPT ![c] = "gone"]
      BY <3>1, StatusUpdate, Zenon
    <3> QED
      BY <2>2, <2>s, <3>2, Zenon DEF try_lock_would_block, statusOf, Lock!Refuse
  <2>3. ASSUME NEW c \in Calls, lock_contended(c) PROVE Lock!Request(c)
    <3>1. /\ statusOf(c)' = "waiting"
          /\ \A d \in Calls : d # c => statusOf(d)' = statusOf(d)
      BY <1>2, <2>3, Zenon DEF lock_contended, statusOf, leaving
    <3>2. status' = [status EXCEPT ![c] = "waiting"]
      BY <3>1, StatusUpdate, Zenon
    <3> QED
      BY <2>3, <2>s, <3>2, Zenon DEF lock_contended, statusOf, Lock!Request
  <2>4. ASSUME NEW c \in Calls, drop_guard(c) PROVE Lock!Release(c)
    <3>1. /\ statusOf(c)' = "gone"
          /\ \A d \in Calls : d # c => statusOf(d)' = statusOf(d)
      BY <1>2, <2>4, Zenon DEF drop_guard, statusOf, leaving
    <3>2. status' = [status EXCEPT ![c] = "gone"]
      BY <3>1, StatusUpdate, Zenon
    <3> QED
      BY <2>4, <2>s, <3>2, Zenon DEF drop_guard, statusOf, Lock!Release
  <2>5. ASSUME NEW c \in Calls, park_ok(c) PROVE Lock!Acquire(c)
    <3>1. /\ statusOf(c)' = "holding"
          /\ \A d \in Calls : d # c => statusOf(d)' = statusOf(d)
      BY <1>2, <2>5, Zenon DEF park_ok, statusOf, leaving
    <3>2. status' = [status EXCEPT ![c] = "holding"]
      BY <3>1, StatusUpdate, Zenon
    <3>3. Permit(c)
      BY <1>2, <2>5, Zenon DEF park_ok, LocalsOK, Permit, Granted
    <3>4. Lock!Free
      BY <1>2, <2>5, <2>s, <3>3, Zenon DEF park_ok, OnePermit, Permit, Active,
         statusOf, Lock!Free
    <3> QED
      BY <1>2, <2>5, <2>s, <3>2, <3>4, Zenon DEF park_ok, LocalsOK, statusOf, leaving,
         Lock!Acquire
  <2>6. ASSUME NEW c \in Calls, lock_check_unparked(c)
        PROVE  Lock!Acquire(c) \/ Lock!Abandon(c) \/ Quiet
    <3>0. pc[c] = "check" /\ status[c] = "waiting"
      BY <1>2, <2>6, <2>s, Zenon DEF lock_check_unparked, statusOf, leaving
    <3>1. CASE c \in Shielded /\ unparked[c]
      <4>1. /\ statusOf(c)' = "holding"
            /\ \A d \in Calls : d # c => statusOf(d)' = statusOf(d)
        BY <1>2, <2>6, <3>1, Zenon DEF lock_check_unparked, statusOf, leaving
      <4>2. status' = [status EXCEPT ![c] = "holding"]
        BY <4>1, StatusUpdate, Zenon
      <4>3. Permit(c)
        BY <3>0, <3>1, Zenon DEF Permit, Granted
      <4>4. Lock!Free
        BY <1>2, <2>s, <3>0, <4>3, Zenon DEF OnePermit, Permit, Active, statusOf,
           Lock!Free
      <4> QED
        BY <3>0, <4>2, <4>4, Zenon DEF Lock!Acquire
    <3>2. CASE c \in Shielded /\ ~unparked[c]
      BY <1>2, <2>6, <3>2 DEF lock_check_unparked, statusOf, leaving, LocalsOK
    <3>3. CASE c \notin Shielded
      <4>1. /\ statusOf(c)' = "gone"
            /\ \A d \in Calls : d # c => statusOf(d)' = statusOf(d)
        BY <1>2, <2>6, <3>3, Zenon DEF lock_check_unparked, statusOf, leaving
      <4>2. status' = [status EXCEPT ![c] = "gone"]
        BY <4>1, StatusUpdate, Zenon
      <4>3. c \in Coroutines
        BY <1>2, <3>0, Zenon DEF CancelOK
      <4> QED
        BY <3>0, <3>3, <4>2, <4>3, Zenon DEF Lock!Abandon
    <3> QED
      BY <3>1, <3>2, <3>3, Zenon
  <2>7. ASSUME NEW c \in Calls, lock_register(c) PROVE Quiet
    BY <1>2, <2>7 DEF lock_register, statusOf, leaving, LocalsOK
  <2>8. ASSUME NEW c \in Calls, lock_fetch_add(c) PROVE Quiet
    BY <1>2, <2>8 DEF lock_fetch_add, statusOf, leaving, LocalsOK
  <2>9. ASSUME NEW c \in Calls, park_canceled(c) PROVE Quiet
    BY <1>2, <2>9 DEF park_canceled, statusOf, leaving, LocalsOK
  <2>10. ASSUME NEW c \in Calls, lock_set_release(c) PROVE Quiet
    BY <1>2, <2>10 DEF lock_set_release, statusOf, leaving, LocalsOK
  <2>11. ASSUME NEW c \in Calls, lock_recheck(c) PROVE Quiet
    BY <1>2, <2>11 DEF lock_recheck, statusOf, leaving, LocalsOK
  <2>12. ASSUME NEW c \in Calls, lock_take_release(c) PROVE Quiet
    BY <1>2, <2>12 DEF lock_take_release, statusOf, leaving, LocalsOK
  <2>13. ASSUME NEW c \in Calls, unlock_fetch_sub(c) PROVE Quiet
    BY <1>2, <2>13 DEF unlock_fetch_sub, statusOf, leaving, LocalsOK
  <2>14. ASSUME NEW c \in Calls, pop_blocker(c) PROVE Quiet
    BY <1>2, <2>14 DEF pop_blocker, statusOf, leaving, LocalsOK
  <2>15. ASSUME NEW c \in Calls, unpark_store(c) PROVE Quiet
    BY <1>2, <2>15 DEF unpark_store, statusOf, leaving, LocalsOK
  <2>16. ASSUME NEW c \in Calls, unpark_wake(c) PROVE Quiet
    BY <1>2, <2>16 DEF unpark_wake, statusOf, leaving, LocalsOK
  <2>17. ASSUME NEW c \in Calls, unpark_take_release(c) PROVE Quiet
    BY <1>2, <2>17 DEF unpark_take_release, statusOf, leaving, LocalsOK
  <2>18. ASSUME NEW c \in Calls, cancel(c) PROVE Quiet
    BY <1>2, <2>18, Zenon DEF cancel, statusOf, leaving, LocalsOK
  <2>19. CASE UNCHANGED vars
    BY <2>19, Zenon DEF vars, status, statusOf, leaving
  <2> HIDE DEF Quiet
  <2> QED
    BY <1>2, <2>q, <2>1, <2>2, <2>3, <2>4, <2>5, <2>6, <2>7, <2>8, <2>9, <2>10, <2>11,
       <2>12, <2>13, <2>14, <2>15, <2>16, <2>17, <2>18, <2>19, Zenon
    DEF Next, Begin, Run, Finished, Lock!Next
<1> QED
  BY <1>1, <1>2, Invariance, PTL DEF Spec, ImplementsLock, Lock!Spec
=============================================================================
