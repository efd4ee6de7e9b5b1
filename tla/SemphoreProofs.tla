--------------------------- MODULE SemphoreProofs ---------------------------
(***************************************************************************)
(* Semphore for any sets of wait and post calls and any initial value: the *)
(* counter is exact, no permit is lost or handed on twice, and every wait  *)
(* that succeeds takes a permit of the abstract semaphore.                 *)
(***************************************************************************)
EXTENDS Semphore, FiniteSetTheorems, TLAPS

\* the pcs of a call that walks the wake-up chain with a blocker in hand
Carrying == {"store", "wake", "take", "fwd"}

\* the pcs of a wait call that has raised its release flag
Raised == {"recheck", "takeown", "left", "srechk", "stake", "stopped"}

\* c waits, or hands on a permit before it waits
InWait(c) ==
  \/ pc[c] \in {"stop", "park", "check", "setrel", "schk", "sset"}
  \/ pc[c] \in {"pop", "store", "wake", "take", "fwd"} /\ then[c] = "stop"

\* the types, but for the range of cnt
Types ==
  /\ cnt \in Int
  /\ to_wake \in Seq(Waits)
  /\ unparked \in [Waits -> BOOLEAN]
  /\ release \in [Waits -> BOOLEAN]
  /\ token \in [Waits -> BOOLEAN]
  /\ pc \in [Calls -> {"start", "push", "sub", "stop", "park", "check", "setrel",
                       "recheck", "takeown", "schk", "sset", "srechk", "stake",
                       "post", "pop", "store", "wake", "take", "fwd",
                       "acquired", "refused", "stopped", "left", "posted"}]
  /\ w \in [Calls -> Waits \cup {NoCall}]
  /\ then \in [Calls -> {"stop", "left", "posted"}]

\* where a call goes on after post and wakeup_one
Continues ==
  /\ \A c \in Posts :
        /\ then[c] = "posted"
        /\ pc[c] \in {"post", "pop", "store", "wake", "take", "fwd", "posted"}
  /\ \A c \in Waits :
        /\ then[c] \in {"stop", "left"}
        /\ pc[c] \in {"post", "setrel", "recheck", "takeown"} => then[c] = "left"

\* a blocker is in one place: queued once, or popped by one call
OnePlace ==
  /\ \A d \in Calls : pc[d] \in Carrying <=> w[d] # NoCall
  /\ \A d, e \in Calls : w[d] = w[e] /\ w[d] # NoCall => d = e
  /\ \A i, j \in 1..Len(to_wake) : to_wake[i] = to_wake[j] => i = j
  /\ \A i \in 1..Len(to_wake), d \in Calls : w[d] # to_wake[i]

\* a blocker still to be unparked is of a call that takes part: it is about
\* to wait, waits, or has left with its release flag up
Waiting(c) == ~unparked[c] /\ (pc[c] = "sub" \/ InWait(c) \/ release[c])

Pending ==
  /\ \A i \in 1..Len(to_wake) : Waiting(to_wake[i])
  /\ \A d \in Calls : pc[d] = "store" => Waiting(w[d])

\* the flags of a blocker, against where its owner and its waker are
Flags ==
  /\ \A c \in Waits : pc[c] \in {"start", "push", "refused"} =>
        ~unparked[c] /\ ~release[c] /\ ~token[c] /\ \A d \in Calls : w[d] # c
  /\ \A c \in Waits : token[c] => unparked[c]
  /\ \A c \in Waits : release[c] => pc[c] \in Raised
  /\ \A c \in Waits : pc[c] \in {"stake", "takeown"} => unparked[c]
  /\ \A d \in Calls : pc[d] \in {"wake", "take", "fwd"} => unparked[w[d]]
  /\ \A d \in Calls : pc[d] = "fwd" => ~release[w[d]] /\ pc[w[d]] \in Raised

Hand == Types /\ Continues /\ OnePlace /\ Pending /\ Flags

InQueue(c) == \E i \in 1..Len(to_wake) : to_wake[i] = c
Popped(c) == \E d \in Calls : pc[d] = "store" /\ w[d] = c

\* whoever waits can be reached by those who post
Reached == \A c \in Waits : Waiting(c) => InQueue(c) \/ Popped(c)

\* The inductive invariant of the semaphore: the accounting, and the hand-off
\* that keeps it.
SemInv == Hand /\ Reached /\ CntExact /\ PermitBalance

-----------------------------------------------------------------------------
(* The hand-off: who queues a blocker waits on it, who pops one unparks it,*)
(* and a flag is raised and taken by those who may.                        *)
LEMMA HandStep == Hand /\ [Next]_vars => Hand'
<1> SUFFICES ASSUME Hand, [Next]_vars PROVE Hand'
  OBVIOUS
<1> USE SemphoreAssumption DEF Calls
<1>0. Types /\ Continues /\ OnePlace /\ Pending /\ Flags
  BY Zenon DEF Hand
<1>1. ASSUME NEW c \in Waits, try_wait(c) PROVE Hand'
  <2>1. Types' /\ Continues'
    BY <1>0, <1>1 DEF try_wait, Step, Types, Continues, OnePlace, Carrying
  <2>2. OnePlace'
    BY <1>0, <1>1, Zenon DEF try_wait, Step, Types, OnePlace, Carrying
  <2>3. Pending'
    BY <1>0, <1>1 DEF try_wait, Step, Types, Continues, Pending, Waiting, InWait
  <2>4. Flags'
    BY <1>0, <1>1 DEF try_wait, Step, Types, Continues, Flags, Raised
  <2> QED
    BY <2>1, <2>2, <2>3, <2>4, Zenon DEF Hand
<1>2. ASSUME NEW c \in Waits, try_wait_refused(c) PROVE Hand'
  <2>1. Types' /\ Continues'
    BY <1>0, <1>2, Zenon DEF try_wait_refused, Step, Types, Continues, OnePlace,
       Carrying
  <2>2. OnePlace'
    BY <1>0, <1>2, Zenon DEF try_wait_refused, Step, Types, OnePlace, Carrying
  <2>3. Pending'
    BY <1>0, <1>2 DEF try_wait_refused, Step, Types, Continues, Pending, Waiting,
       InWait
  <2>4. Flags'
    BY <1>0, <1>2 DEF try_wait_refused, Step, Types, Continues, Flags, Raised
  <2> QED
    BY <2>1, <2>2, <2>3, <2>4, Zenon DEF Hand
<1>3. ASSUME NEW c \in Waits, wait_blocks(c) PROVE Hand'
  <2>1. Types' /\ Continues'
    BY <1>0, <1>3, Zenon DEF wait_blocks, Step, Types, Continues, OnePlace, Carrying
  <2>2. OnePlace'
    BY <1>0, <1>3, Zenon DEF wait_blocks, Step, Types, OnePlace, Carrying
  <2>3. Pending'
    BY <1>0, <1>3 DEF wait_blocks, Step, Types, Continues, Pending, Waiting, InWait
  <2>4. Flags'
    BY <1>0, <1>3 DEF wait_blocks, Step, Types, Continues, Flags, Raised
  <2> QED
    BY <2>1, <2>2, <2>3, <2>4, Zenon DEF Hand
<1>4. ASSUME NEW c \in Waits, wait_register(c) PROVE Hand'
  <2>1. Types' /\ Continues'
    BY <1>0, <1>4 DEF wait_register, Step, Types, Continues, OnePlace, Carrying
  <2>2. ~Waiting(c) /\ \A d \in Calls : w[d] # c
    BY <1>0, <1>4, Zenon DEF wait_register, Step, Flags, Waiting, InWait
  <2>3. \A i \in 1..Len(to_wake) : to_wake[i] # c
    BY <1>0, <2>2, Zenon DEF Pending
  <2>4. /\ Len(to_wake') = Len(to_wake) + 1
        /\ \A i \in 1..Len(to_wake') :
              to_wake'[i] = IF i = Len(to_wake) + 1 THEN c ELSE to_wake[i]
    BY <1>0, <1>4 DEF wait_register, Types
  <2>5. OnePlace'
    BY <1>0, <1>4, <2>2, <2>3, <2>4 DEF wait_register, Step, Types, OnePlace, Carrying
  <2>6. Pending'
    BY <1>0, <1>4, <2>2, <2>4 DEF wait_register, Step, Types, Pending, Flags, Waiting,
       InWait
  <2>7. Flags'
    BY <1>0, <1>4 DEF wait_register, Step, Types, Flags, Raised
  <2> QED
    BY <2>1, <2>5, <2>6, <2>7, Zenon DEF Hand
<1>5. ASSUME NEW c \in Waits, wait_fetch_sub(c) PROVE Hand'
  <2>1. Types' /\ Continues'
    BY <1>0, <1>5 DEF wait_fetch_sub, Step, Types, Continues, OnePlace, Carrying
  <2>2. OnePlace'
    BY <1>0, <1>5, Zenon DEF wait_fetch_sub, Step, Types, OnePlace, Carrying
  <2>3. Pending'
    BY <1>0, <1>5 DEF wait_fetch_sub, Step, Types, Continues, Pending, Waiting, InWait
  <2>4. Flags'
    BY <1>0, <1>5 DEF wait_fetch_sub, Step, Types, Continues, Flags, Raised
  <2> QED
    BY <2>1, <2>2, <2>3, <2>4, Zenon DEF Hand
<1>6. ASSUME NEW c \in Waits, wait_check_stop(c) PROVE Hand'
  <2>1. Types' /\ Continues'
    BY <1>0, <1>6, Zenon DEF wait_check_stop, Step, Types, Continues, OnePlace,
       Carrying
  <2>2. OnePlace'
    BY <1>0, <1>6, Zenon DEF wait_check_stop, Step, Types, OnePlace, Carrying
  <2>3. Pending'
    BY <1>0, <1>6 DEF wait_check_stop, Step, Types, Continues, Pending, Waiting,
       InWait
  <2>4. Flags'
    BY <1>0, <1>6 DEF wait_check_stop, Step, Types, Continues, Flags, Raised
  <2> QED
    BY <2>1, <2>2, <2>3, <2>4, Zenon DEF Hand
<1>7. ASSUME NEW c \in Waits, stop_check_unparked(c) PROVE Hand'
  <2>1. Types' /\ Continues'
    BY <1>0, <1>7, Zenon DEF stop_check_unparked, Step, Types, Continues, OnePlace,
       Carrying
  <2>2. OnePlace'
    BY <1>0, <1>7, Zenon DEF stop_check_unparked, Step, Types, OnePlace, Carrying
  <2>3. Pending'
    BY <1>0, <1>7 DEF stop_check_unparked, Step, Types, Continues, Pending, Waiting,
       InWait
  <2>4. Flags'
    BY <1>0, <1>7 DEF stop_check_unparked, Step, Types, Continues, Flags, Raised
  <2> QED
    BY <2>1, <2>2, <2>3, <2>4, Zenon DEF Hand
<1>8. ASSUME NEW c \in Waits, stop_set_release(c) PROVE Hand'
  <2>1. Types' /\ Continues'
    BY <1>0, <1>8, Zenon DEF stop_set_release, Step, Types, Continues, OnePlace,
       Carrying
  <2>2. OnePlace'
    BY <1>0, <1>8, Zenon DEF stop_set_release, Step, Types, OnePlace, Carrying
  <2>3. Pending'
    BY <1>0, <1>8 DEF stop_set_release, Step, Types, Continues, Pending, Waiting,
       InWait
  <2>4. Flags'
    BY <1>0, <1>8 DEF stop_set_release, Step, Types, Continues, Flags, Raised
  <2> QED
    BY <2>1, <2>2, <2>3, <2>4, Zenon DEF Hand
<1>9. ASSUME NEW c \in Waits, stop_recheck(c) PROVE Hand'
  <2>1. Types' /\ Continues'
    BY <1>0, <1>9, Zenon DEF stop_recheck, Step, Types, Continues, OnePlace, Carrying
  <2>2. OnePlace'
    BY <1>0, <1>9, Zenon DEF stop_recheck, Step, Types, OnePlace, Carrying
  <2>3. Pending'
    BY <1>0, <1>9 DEF stop_recheck, Step, Types, Continues, Pending, Waiting, InWait
  <2>4. Flags'
    BY <1>0, <1>9 DEF stop_recheck, Step, Types, Continues, Flags, Raised
  <2> QED
    BY <2>1, <2>2, <2>3, <2>4, Zenon DEF Hand
<1>10. ASSUME NEW c \in Waits, stop_take_release(c) PROVE Hand'
  <2>1. Types' /\ Continues'
    BY <1>0, <1>10, Zenon DEF stop_take_release, Step, Types, Continues, OnePlace,
       Carrying
  <2>2. OnePlace'
    BY <1>0, <1>10, Zenon DEF stop_take_release, Step, Types, OnePlace, Carrying
  <2>3. Pending'
    BY <1>0, <1>10 DEF stop_take_release, Step, Types, Continues, Pending, Flags,
       Waiting,
       InWait
  <2>4. Flags'
    BY <1>0, <1>10 DEF stop_take_release, Step, Types, Continues, Flags, Raised
  <2> QED
    BY <2>1, <2>2, <2>3, <2>4, Zenon DEF Hand
<1>11. ASSUME NEW c \in Waits, park_ok(c) PROVE Hand'
  <2>1. Types' /\ Continues'
    BY <1>0, <1>11, Zenon DEF park_ok, Step, Types, Continues, OnePlace, Carrying
  <2>2. OnePlace'
    BY <1>0, <1>11, Zenon DEF park_ok, Step, Types, OnePlace, Carrying
  <2>3. Pending'
    BY <1>0, <1>11 DEF park_ok, Step, Types, Continues, Pending, Flags, Waiting,
       InWait
  <2>4. Flags'
    BY <1>0, <1>11 DEF park_ok, Step, Types, Continues, Flags, Raised
  <2> QED
    BY <2>1, <2>2, <2>3, <2>4, Zenon DEF Hand
<1>12. ASSUME NEW c \in Waits, park_err(c) PROVE Hand'
  <2>1. Types' /\ Continues'
    BY <1>0, <1>12, Zenon DEF park_err, Step, Types, Continues, OnePlace, Carrying
  <2>2. OnePlace'
    BY <1>0, <1>12, Zenon DEF park_err, Step, Types, OnePlace, Carrying
  <2>3. Pending'
    BY <1>0, <1>12 DEF park_err, Step, Types, Continues, Pending, Waiting, InWait
  <2>4. Flags'
    BY <1>0, <1>12 DEF park_err, Step, Types, Continues, Flags, Raised
  <2> QED
    BY <2>1, <2>2, <2>3, <2>4, Zenon DEF Hand
<1>13. ASSUME NEW c \in Waits, err_check_unparked(c) PROVE Hand'
  <2>1. Types' /\ Continues'
    BY <1>0, <1>13, Zenon DEF err_check_unparked, Step, Types, Continues, OnePlace,
       Carrying
  <2>2. OnePlace'
    BY <1>0, <1>13, Zenon DEF err_check_unparked, Step, Types, OnePlace, Carrying
  <2>3. Pending'
    BY <1>0, <1>13 DEF err_check_unparked, Step, Types, Continues, Pending, Waiting,
       InWait
  <2>4. Flags'
    BY <1>0, <1>13 DEF err_check_unparked, Step, Types, Continues, Flags, Raised
  <2> QED
    BY <2>1, <2>2, <2>3, <2>4, Zenon DEF Hand
<1>14. ASSUME NEW c \in Waits, err_set_release(c) PROVE Hand'
  <2>1. Types' /\ Continues'
    BY <1>0, <1>14, Zenon DEF err_set_release, Step, Types, Continues, OnePlace,
       Carrying
  <2>2. OnePlace'
    BY <1>0, <1>14, Zenon DEF err_set_release, Step, Types, OnePlace, Carrying
  <2>3. Pending'
    BY <1>0, <1>14 DEF err_set_release, Step, Types, Continues, Pending, Waiting,
       InWait
  <2>4. Flags'
    BY <1>0, <1>14 DEF err_set_release, Step, Types, Continues, Flags, Raised
  <2> QED
    BY <2>1, <2>2, <2>3, <2>4, Zenon DEF Hand
<1>15. ASSUME NEW c \in Waits, err_recheck(c) PROVE Hand'
  <2>1. Types' /\ Continues'
    BY <1>0, <1>15, Zenon DEF err_recheck, Step, Types, Continues, OnePlace, Carrying
  <2>2. OnePlace'
    BY <1>0, <1>15, Zenon DEF err_recheck, Step, Types, OnePlace, Carrying
  <2>3. Pending'
    BY <1>0, <1>15 DEF err_recheck, Step, Types, Continues, Pending, Waiting, InWait
  <2>4. Flags'
    BY <1>0, <1>15 DEF err_recheck, Step, Types, Continues, Flags, Raised
  <2> QED
    BY <2>1, <2>2, <2>3, <2>4, Zenon DEF Hand
<1>16. ASSUME NEW c \in Waits, err_take_release(c) PROVE Hand'
  <2>1. Types' /\ Continues'
    BY <1>0, <1>16, Zenon DEF err_take_release, Step, Types, Continues, OnePlace,
       Carrying
  <2>2. OnePlace'
    BY <1>0, <1>16, Zenon DEF err_take_release, Step, Types, OnePlace, Carrying
  <2>3. Pending'
    BY <1>0, <1>16 DEF err_take_release, Step, Types, Continues, Pending, Flags,
       Waiting,
       InWait
  <2>4. Flags'
    BY <1>0, <1>16 DEF err_take_release, Step, Types, Continues, Flags, Raised
  <2> QED
    BY <2>1, <2>2, <2>3, <2>4, Zenon DEF Hand
<1>17. ASSUME NEW c \in Calls, post_cnt(c) PROVE Hand'
  <2>1. Types' /\ Continues'
    BY <1>0, <1>17 DEF post_cnt, Step, Types, Continues, OnePlace, Carrying
  <2>2. OnePlace'
    BY <1>0, <1>17, Zenon DEF post_cnt, Step, Types, OnePlace, Carrying
  <2>3. Pending'
    BY <1>0, <1>17 DEF post_cnt, Step, Types, Continues, Pending, Waiting, InWait
  <2>4. Flags'
    BY <1>0, <1>17 DEF post_cnt, Step, Types, Continues, Flags, Raised
  <2> QED
    BY <2>1, <2>2, <2>3, <2>4, Zenon DEF Hand
<1>18. ASSUME NEW c \in Calls, wakeup_pop(c) PROVE Hand'
  <2>1. Types' /\ Continues'
    BY <1>0, <1>18 DEF wakeup_pop, Step, Types, Continues, OnePlace, Carrying
  <2>2. OnePlace'
    BY <1>0, <1>18 DEF wakeup_pop, Step, Types, OnePlace, Carrying
  <2>3. Pending'
    BY <1>0, <1>18 DEF wakeup_pop, Step, Types, Continues, OnePlace, Pending, Waiting,
       InWait
  <2>4. Flags'
    BY <1>0, <1>18 DEF wakeup_pop, Step, Types, Flags, Pending, Waiting, InWait,
       Raised
  <2> QED
    BY <2>1, <2>2, <2>3, <2>4, Zenon DEF Hand
<1>19. ASSUME NEW c \in Calls, wakeup_store(c) PROVE Hand'
  <2>1. Types' /\ Continues'
    BY <1>0, <1>19, Zenon DEF wakeup_store, Step, Types, Continues, OnePlace, Carrying
  <2>2. OnePlace'
    BY <1>0, <1>19, Zenon DEF wakeup_store, Step, Types, OnePlace, Carrying
  <2>3. Pending'
    BY <1>0, <1>19 DEF wakeup_store, Step, Types, Continues, OnePlace, Pending,
       Waiting, InWait
  <2>4. Flags'
    BY <1>0, <1>19 DEF wakeup_store, Step, Types, Flags, OnePlace, Carrying, Pending,
       Waiting, InWait, Raised
  <2> QED
    BY <2>1, <2>2, <2>3, <2>4, Zenon DEF Hand
<1>20. ASSUME NEW c \in Calls, wakeup_wake(c) PROVE Hand'
  <2>1. Types' /\ Continues'
    BY <1>0, <1>20, Zenon DEF wakeup_wake, Step, Types, Continues, OnePlace, Carrying
  <2>2. OnePlace'
    BY <1>0, <1>20, Zenon DEF wakeup_wake, Step, Types, OnePlace, Carrying
  <2>3. Pending'
    BY <1>0, <1>20 DEF wakeup_wake, Step, Types, Continues, Pending, Waiting, InWait
  <2>4. Flags'
    BY <1>0, <1>20 DEF wakeup_wake, Step, Types, Continues, Flags, Raised
  <2> QED
    BY <2>1, <2>2, <2>3, <2>4, Zenon DEF Hand
<1>21. ASSUME NEW c \in Calls, wakeup_take_release(c) PROVE Hand'
  <2>0. PICK b \in Waits : b = w[c]
    BY <1>0, <1>21, Zenon DEF wakeup_take_release, Step, Types, OnePlace, Carrying
  <2>1. /\ \A d \in Calls \ {c} : pc'[d] = pc[d] /\ w'[d] = w[d]
        /\ \A x \in Waits \ {b} : release'[x] = release[x]
        /\ pc[c] = "take" /\ ~release'[b]
        /\ pc'[c] = IF release[b] THEN "fwd" ELSE then[c]
        /\ w'[c] = IF release[b] THEN b ELSE NoCall
        /\ UNCHANGED <<cnt, to_wake, unparked, token, then>>
    BY <1>0, <1>21, <2>0, Zenon DEF wakeup_take_release, Step, Types
  <2>2. Types'
    BY <1>0, <1>21, <2>0, Zenon DEF wakeup_take_release, Step, Types
  <2>3. Continues'
    BY <1>0, <2>1, Zenon DEF Types, Continues
  <2>4. OnePlace'
    <3>1. \A d \in Calls : w'[d] = w[d] \/ w'[d] = NoCall
      BY <2>0, <2>1, Zenon
    <3>2. \A d \in Calls : pc'[d] \in Carrying <=> w'[d] # NoCall
      BY <1>0, <2>1 DEF Types, OnePlace, Carrying
    <3>3. \A d, e \in Calls : w'[d] = w'[e] /\ w'[d] # NoCall => d = e
      BY <1>0, <3>1, Zenon DEF OnePlace
    <3>4. \A i \in 1..Len(to_wake), d \in Calls : w'[d] # to_wake[i]
      BY <1>0, <3>1 DEF Types, OnePlace
    <3> QED
      BY <1>0, <2>1, <3>2, <3>3, <3>4 DEF OnePlace
  <2>5. unparked[b] /\ (release[b] => pc[b] \in Raised)
    BY <1>0, <2>0, <2>1, Zenon DEF Flags
  <2>6. ASSUME NEW x \in Waits, Waiting(x) PROVE Waiting(x)'
    BY <1>0, <2>1, <2>5, <2>6, Zenon DEF Types, Waiting, InWait, Continues
  <2>7. Pending'
    BY <1>0, <2>1, <2>6 DEF Types, Pending, OnePlace, Carrying
  <2>8. Flags'
    <3>1. ASSUME NEW x \in Waits, pc'[x] \in {"start", "push", "refused"}
          PROVE  x # c /\ ~unparked'[x] /\ ~release'[x] /\ ~token'[x]
      BY <1>0, <2>1, <2>5, <3>1 DEF Types, Flags
    <3>2. ASSUME NEW x \in Waits, pc'[x] \in {"start", "push", "refused"},
                 NEW d \in Calls
          PROVE  w'[d] # x
      BY <1>0, <2>0, <2>1, <3>1, <3>2 DEF Types, Flags
    <3>3. ASSUME NEW x \in Waits PROVE release'[x] => pc'[x] \in Raised
      BY <1>0, <2>1, <2>5, Zenon DEF Flags, Raised
    <3>4. ASSUME NEW x \in Waits
          PROVE  /\ pc'[x] \in {"stake", "takeown"} => unparked'[x]
                 /\ token'[x] => unparked'[x]
      BY <1>0, <2>1 DEF Types, Flags
    <3>5. ASSUME NEW d \in Calls, pc'[d] \in {"wake", "take", "fwd"}
          PROVE  unparked'[w'[d]]
      BY <1>0, <2>1, <2>5, <3>5 DEF Types, Flags
    <3>6. ASSUME NEW d \in Calls, pc'[d] = "fwd"
          PROVE  ~release'[w'[d]] /\ pc'[w'[d]] \in Raised
      <4>1. CASE d = c
        BY <1>0, <2>1, <2>5, <3>6, <4>1, Zenon DEF Types, Raised
      <4>2. CASE d # c
        BY <1>0, <2>0, <2>1, <3>6, <4>2 DEF Types, Flags, OnePlace, Carrying, Raised
      <4> QED
        BY <4>1, <4>2, Zenon
    <3> QED
      BY <3>1, <3>2, <3>3, <3>4, <3>5, <3>6, Zenon DEF Flags
  <2> QED
    BY <2>2, <2>3, <2>4, <2>7, <2>8, Zenon DEF Hand
<1>22. ASSUME NEW c \in Calls, wakeup_forward(c) PROVE Hand'
  <2>1. /\ \A d \in Calls \ {c} : pc'[d] = pc[d] /\ w'[d] = w[d]
        /\ pc[c] = "fwd" /\ w'[c] = NoCall
        /\ pc'[c] = IF cnt >= 0 THEN then[c] ELSE "pop"
        /\ UNCHANGED <<to_wake, unparked, release, token, then>>
    BY <1>0, <1>22, Zenon DEF wakeup_forward, Step, Types
  <2>2. Types'
    BY <1>0, <1>22 DEF wakeup_forward, Step, Types
  <2>3. Continues'
    BY <1>0, <2>1, Zenon DEF Types, Continues
  <2>4. OnePlace'
    BY <1>0, <2>1 DEF Types, OnePlace, Carrying
  <2>5. ASSUME NEW x \in Waits, Waiting(x) PROVE Waiting(x)'
    BY <1>0, <2>1, <2>5, Zenon DEF Types, Waiting, InWait, Continues
  <2>6. Pending'
    BY <1>0, <2>1, <2>5 DEF Types, Pending, OnePlace, Carrying
  <2>7. Flags'
    <3>1. ASSUME NEW x \in Waits, pc'[x] \in {"start", "push", "refused"}
          PROVE  /\ ~unparked'[x] /\ ~release'[x] /\ ~token'[x]
                 /\ \A d \in Calls : w'[d] # x
      BY <1>0, <2>1, <3>1 DEF Types, Flags
    <3>2. ASSUME NEW x \in Waits
          PROVE  /\ release'[x] => pc'[x] \in Raised
                 /\ pc'[x] \in {"stake", "takeown"} => unparked'[x]
                 /\ token'[x] => unparked'[x]
      BY <1>0, <2>1 DEF Types, Flags, Raised
    <3>3. ASSUME NEW d \in Calls
          PROVE  /\ pc'[d] \in {"wake", "take", "fwd"} => unparked'[w'[d]]
                 /\ pc'[d] = "fwd" => ~release'[w'[d]] /\ pc'[w'[d]] \in Raised
      BY <1>0, <2>1 DEF Types, Flags, OnePlace, Raised, Carrying
    <3> QED
      BY <3>1, <3>2, <3>3, Zenon DEF Flags
  <2> QED
    BY <2>2, <2>3, <2>4, <2>6, <2>7, Zenon DEF Hand
<1>23. CASE UNCHANGED semVars
  <2>1. Types' /\ Continues' /\ OnePlace'
    BY <1>0, <1>23, Zenon DEF semVars, Types, Continues, OnePlace
  <2>2. Pending' /\ Flags'
    BY <1>0, <1>23, Zenon DEF semVars, Pending, Waiting, InWait, Flags
  <2> QED
    BY <2>1, <2>2, Zenon DEF Hand
<1> QED
  BY <1>1, <1>2, <1>3, <1>4, <1>5, <1>6, <1>7, <1>8, <1>9, <1>10, <1>11, <1>12, <1>13,
     <1>14, <1>15, <1>16, <1>17, <1>18, <1>19, <1>20, <1>21, <1>22, <1>23, Zenon
     DEF Next, Begin, Wait, Wakeup, raise_stop, Quiet, vars

(* A waiter is registered before it waits, and leaves the queue only to be *)
(* unparked.                                                               *)
\* no one is taken out of the queue or starts to wait
Kept ==
  /\ to_wake' = to_wake
  /\ \A d \in Calls : pc[d] = "store" => pc'[d] = "store" /\ w'[d] = w[d]
  /\ \A x \in Waits : Waiting(x)' => Waiting(x)

LEMMA KeptReached == Reached /\ Kept => Reached'
BY Zenon DEF Reached, Kept, InQueue, Popped

LEMMA ReachedStep == Hand /\ Reached /\ [Next]_vars => Reached'
<1> SUFFICES ASSUME Hand, Reached, [Next]_vars PROVE Reached'
  OBVIOUS
<1> USE SemphoreAssumption DEF Calls
<1>0. Types /\ Continues /\ OnePlace /\ Pending /\ Flags
  BY Zenon DEF Hand
<1>1. ASSUME NEW c \in Waits, try_wait(c) PROVE Reached'
  <2>1. ASSUME NEW x \in Waits PROVE Waiting(x)' => Waiting(x)
    BY <1>0, <1>1, Zenon DEF try_wait, Step, Types, Continues, Flags, Waiting, InWait
  <2> QED
    BY <1>0, <1>1, <2>1, KeptReached, Zenon DEF try_wait, Step, Types, Kept
<1>2. ASSUME NEW c \in Waits, try_wait_refused(c) PROVE Reached'
  <2>1. ASSUME NEW x \in Waits PROVE Waiting(x)' => Waiting(x)
    BY <1>0, <1>2, Zenon DEF try_wait_refused, Step, Types, Continues, Flags, Waiting,
       InWait
  <2> QED
    BY <1>0, <1>2, <2>1, KeptReached, Zenon DEF try_wait_refused, Step, Types, Kept
<1>3. ASSUME NEW c \in Waits, wait_blocks(c) PROVE Reached'
  <2>1. ASSUME NEW x \in Waits PROVE Waiting(x)' => Waiting(x)
    BY <1>0, <1>3, Zenon DEF wait_blocks, Step, Types, Continues, Flags, Waiting,
       InWait
  <2> QED
    BY <1>0, <1>3, <2>1, KeptReached, Zenon DEF wait_blocks, Step, Types, Kept
<1>4. ASSUME NEW c \in Waits, wait_register(c) PROVE Reached'
  <2>1. /\ Len(to_wake') = Len(to_wake) + 1 /\ to_wake'[Len(to_wake) + 1] = c
        /\ \A i \in 1..Len(to_wake) : to_wake'[i] = to_wake[i]
    BY <1>0, <1>4 DEF wait_register, Types
  <2>2. Len(to_wake) \in Nat /\ InQueue(c)'
    BY <1>0, <2>1 DEF Types, InQueue
  <2>3. ASSUME NEW x \in Waits \ {c}, Waiting(x)' PROVE (InQueue(x) \/ Popped(x))'
    <3>1. Waiting(x)
      BY <1>0, <1>4, <2>3, Zenon DEF wait_register, Step, Types, Waiting, InWait
    <3>2. CASE InQueue(x)
      BY <2>1, <2>2, <3>2 DEF InQueue
    <3>3. CASE Popped(x)
      BY <1>0, <1>4, <3>3, Zenon DEF wait_register, Step, Types, Popped
    <3> QED
      BY <3>1, <3>2, <3>3, Zenon DEF Reached
  <2> QED
    BY <2>2, <2>3, Zenon DEF Reached
<1>5. ASSUME NEW c \in Waits, wait_fetch_sub(c) PROVE Reached'
  <2>1. ASSUME NEW x \in Waits PROVE Waiting(x)' => Waiting(x)
    BY <1>0, <1>5, Zenon DEF wait_fetch_sub, Step, Types, Continues, Flags, Waiting,
       InWait
  <2> QED
    BY <1>0, <1>5, <2>1, KeptReached, Zenon DEF wait_fetch_sub, Step, Types, Kept
<1>6. ASSUME NEW c \in Waits, wait_check_stop(c) PROVE Reached'
  <2>1. ASSUME NEW x \in Waits PROVE Waiting(x)' => Waiting(x)
    BY <1>0, <1>6, Zenon DEF wait_check_stop, Step, Types, Continues, Flags, Waiting,
       InWait
  <2> QED
    BY <1>0, <1>6, <2>1, KeptReached, Zenon DEF wait_check_stop, Step, Types, Kept
<1>7. ASSUME NEW c \in Waits, stop_check_unparked(c) PROVE Reached'
  <2>1. ASSUME NEW x \in Waits PROVE Waiting(x)' => Waiting(x)
    BY <1>0, <1>7, Zenon DEF stop_check_unparked, Step, Types, Continues, Flags,
       Waiting, InWait
  <2> QED
    BY <1>0, <1>7, <2>1, KeptReached, Zenon DEF stop_check_unparked, Step, Types, Kept
<1>8. ASSUME NEW c \in Waits, stop_set_release(c) PROVE Reached'
  <2>1. ASSUME NEW x \in Waits PROVE Waiting(x)' => Waiting(x)
    BY <1>0, <1>8, Zenon DEF stop_set_release, Step, Types, Continues, Flags, Waiting,
       InWait
  <2> QED
    BY <1>0, <1>8, <2>1, KeptReached, Zenon DEF stop_set_release, Step, Types, Kept
<1>9. ASSUME NEW c \in Waits, stop_recheck(c) PROVE Reached'
  <2>1. ASSUME NEW x \in Waits PROVE Waiting(x)' => Waiting(x)
    BY <1>0, <1>9, Zenon DEF stop_recheck, Step, Types, Continues, Flags, Waiting,
       InWait
  <2> QED
    BY <1>0, <1>9, <2>1, KeptReached, Zenon DEF stop_recheck, Step, Types, Kept
<1>10. ASSUME NEW c \in Waits, stop_take_release(c) PROVE Reached'
  <2>1. ASSUME NEW x \in Waits PROVE Waiting(x)' => Waiting(x)
    BY <1>0, <1>10, Zenon DEF stop_take_release, Step, Types, Continues, Flags,
       Waiting, InWait
  <2> QED
    BY <1>0, <1>10, <2>1, KeptReached, Zenon DEF stop_take_release, Step, Types, Kept
<1>11. ASSUME NEW c \in Waits, park_ok(c) PROVE Reached'
  <2>1. ASSUME NEW x \in Waits PROVE Waiting(x)' => Waiting(x)
    BY <1>0, <1>11, Zenon DEF park_ok, Step, Types, Continues, Flags, Waiting, InWait
  <2> QED
    BY <1>0, <1>11, <2>1, KeptReached, Zenon DEF park_ok, Step, Types, Kept
<1>12. ASSUME NEW c \in Waits, park_err(c) PROVE Reached'
  <2>1. ASSUME NEW x \in Waits PROVE Waiting(x)' => Waiting(x)
    BY <1>0, <1>12, Zenon DEF park_err, Step, Types, Continues, Flags, Waiting, InWait
  <2> QED
    BY <1>0, <1>12, <2>1, KeptReached, Zenon DEF park_err, Step, Types, Kept
<1>13. ASSUME NEW c \in Waits, err_check_unparked(c) PROVE Reached'
  <2>1. ASSUME NEW x \in Waits PROVE Waiting(x)' => Waiting(x)
    BY <1>0, <1>13, Zenon DEF err_check_unparked, Step, Types, Continues, Flags,
       Waiting, InWait
  <2> QED
    BY <1>0, <1>13, <2>1, KeptReached, Zenon DEF err_check_unparked, Step, Types, Kept
<1>14. ASSUME NEW c \in Waits, err_set_release(c) PROVE Reached'
  <2>1. ASSUME NEW x \in Waits PROVE Waiting(x)' => Waiting(x)
    BY <1>0, <1>14, Zenon DEF err_set_release, Step, Types, Continues, Flags, Waiting,
       InWait
  <2> QED
    BY <1>0, <1>14, <2>1, KeptReached, Zenon DEF err_set_release, Step, Types, Kept
<1>15. ASSUME NEW c \in Waits, err_recheck(c) PROVE Reached'
  <2>1. ASSUME NEW x \in Waits PROVE Waiting(x)' => Waiting(x)
    BY <1>0, <1>15, Zenon DEF err_recheck, Step, Types, Continues, Flags, Waiting,
       InWait
  <2> QED
    BY <1>0, <1>15, <2>1, KeptReached, Zenon DEF err_recheck, Step, Types, Kept
<1>16. ASSUME NEW c \in Waits, err_take_release(c) PROVE Reached'
  <2>1. ASSUME NEW x \in Waits PROVE Waiting(x)' => Waiting(x)
    BY <1>0, <1>16, Zenon DEF err_take_release, Step, Types, Continues, Flags,
       Waiting, InWait
  <2> QED
    BY <1>0, <1>16, <2>1, KeptReached, Zenon DEF err_take_release, Step, Types, Kept
<1>17. ASSUME NEW c \in Calls, post_cnt(c) PROVE Reached'
  <2>1. ASSUME NEW x \in Waits PROVE Waiting(x)' => Waiting(x)
    BY <1>0, <1>17, Zenon DEF post_cnt, Step, Types, Continues, Flags, Waiting, InWait
  <2> QED
    BY <1>0, <1>17, <2>1, KeptReached, Zenon DEF post_cnt, Step, Types, Kept
<1>18. ASSUME NEW c \in Calls, wakeup_pop(c) PROVE Reached'
  <2> SUFFICES ASSUME NEW x \in Waits, Waiting(x)' PROVE (InQueue(x) \/ Popped(x))'
    BY Zenon DEF Reached
  <2>1. Waiting(x)
    BY <1>0, <1>18, Zenon DEF wakeup_pop, Step, Types, Waiting, InWait
  <2>2. /\ pc'[c] = "store" /\ w'[c] = to_wake[1]
        /\ Len(to_wake') = Len(to_wake) - 1
        /\ \A i \in 2..Len(to_wake) : to_wake'[i - 1] = to_wake[i]
    BY <1>0, <1>18 DEF wakeup_pop, Step, Types
  <2>3. ASSUME NEW i \in 2..Len(to_wake), to_wake[i] = x PROVE InQueue(x)'
    <3>1. i - 1 \in 1..Len(to_wake') /\ to_wake'[i - 1] = x
      BY <1>0, <2>2, <2>3 DEF Types
    <3> QED
      BY <3>1, Zenon DEF InQueue
  <2>4. CASE to_wake[1] = x
    BY <2>2, <2>4, Zenon DEF Popped
  <2>5. CASE Popped(x)
    BY <1>0, <1>18, <2>5, Zenon DEF wakeup_pop, Step, Types, Popped
  <2> QED
    BY <1>0, <2>1, <2>3, <2>4, <2>5 DEF Reached, InQueue, Types
<1>19. ASSUME NEW c \in Calls, wakeup_store(c) PROVE Reached'
  <2>1. ASSUME NEW x \in Waits, Waiting(x)' PROVE Waiting(x) /\ x # w[c]
    BY <1>0, <1>19, <2>1, Zenon DEF wakeup_store, Step, Types, Waiting, InWait
  <2>2. ASSUME NEW x \in Waits, Popped(x), x # w[c] PROVE Popped(x)'
    BY <1>0, <1>19, <2>2, Zenon DEF wakeup_store, Step, Types, Popped
  <2> QED
    BY <1>19, <2>1, <2>2, Zenon DEF wakeup_store, Reached, InQueue
<1>20. ASSUME NEW c \in Calls, wakeup_wake(c) PROVE Reached'
  <2>1. ASSUME NEW x \in Waits PROVE Waiting(x)' => Waiting(x)
    BY <1>0, <1>20, Zenon DEF wakeup_wake, Step, Types, Continues, Flags, Waiting,
       InWait
  <2> QED
    BY <1>0, <1>20, <2>1, KeptReached, Zenon DEF wakeup_wake, Step, Types, Kept
<1>21. ASSUME NEW c \in Calls, wakeup_take_release(c) PROVE Reached'
  <2>1. ASSUME NEW x \in Waits PROVE Waiting(x)' => Waiting(x)
    BY <1>0, <1>21, Zenon DEF wakeup_take_release, Step, Types, Continues, Flags,
       Waiting, InWait
  <2> QED
    BY <1>0, <1>21, <2>1, KeptReached, Zenon DEF wakeup_take_release, Step, Types,
       Kept
<1>22. ASSUME NEW c \in Calls, wakeup_forward(c) PROVE Reached'
  <2>1. ASSUME NEW x \in Waits PROVE Waiting(x)' => Waiting(x)
    BY <1>0, <1>22, Zenon DEF wakeup_forward, Step, Types, Continues, Flags, Waiting,
       InWait
  <2> QED
    BY <1>0, <1>22, <2>1, KeptReached, Zenon DEF wakeup_forward, Step, Types, Kept
<1>23. CASE UNCHANGED semVars
  BY <1>23, KeptReached, Zenon DEF semVars, Kept, Waiting, InWait
<1> QED
  BY <1>1, <1>2, <1>3, <1>4, <1>5, <1>6, <1>7, <1>8, <1>9, <1>10, <1>11, <1>12, <1>13,
     <1>14, <1>15, <1>16, <1>17, <1>18, <1>19, <1>20, <1>21, <1>22, <1>23, Zenon
     DEF Next, Begin, Wait, Wakeup, raise_stop, Quiet, vars

-----------------------------------------------------------------------------
(* What a step does to the permits                                         *)

Gains(S, T, x) == x \notin S /\ T = S \cup {x}
Loses(S, T, x) == x \in S /\ T = S \ {x}

\* no permit moves
Stay == UNCHANGED <<cnt, Acquired, Posted, Slots, Carried, Granted>>

\* try_wait takes a permit out of the counter
Take(c) ==
  /\ Gains(Acquired, Acquired', c)
  /\ cnt > 0 /\ cnt' = cnt - 1
  /\ UNCHANGED <<Posted, Slots, Carried, Granted>>

\* a wait call enters its slot, and hands on the permit it finds
Enter(c) ==
  /\ Gains(Slots, Slots', c)
  /\ cnt' = cnt - 1
  /\ IF cnt > 0 THEN Gains(Carried, Carried', c) ELSE UNCHANGED Carried
  /\ UNCHANGED <<Acquired, Posted, Granted>>

\* a waiter takes the permit it was handed
Accept(c) ==
  /\ Gains(Acquired, Acquired', c)
  /\ Loses(Slots, Slots', c)
  /\ Loses(Granted, Granted', c)
  /\ UNCHANGED <<cnt, Posted, Carried>>

\* d takes back the permit handed to c, who leaves
TakeBack(c, d) ==
  /\ Loses(Granted, Granted', c)
  /\ Gains(Carried, Carried', d)
  /\ UNCHANGED <<cnt, Acquired, Posted, Slots>>

\* a post call puts a permit in, and carries it to a waiter if there is one
PutIn(c) ==
  /\ Gains(Posted, Posted', c)
  /\ cnt' = cnt + 1
  /\ IF cnt < 0 THEN Gains(Carried, Carried', c) ELSE UNCHANGED Carried
  /\ UNCHANGED <<Acquired, Slots, Granted>>

\* d gives back the slot of c, who left, and the permit if nobody waits
GiveBack(c, d) ==
  /\ Loses(Slots, Slots', c)
  /\ cnt' = cnt + 1
  /\ IF cnt < 0 THEN UNCHANGED Carried ELSE Loses(Carried, Carried', d)
  /\ UNCHANGED <<Acquired, Posted, Granted>>

\* d hands the permit it carries to c
HandOver(c, d) ==
  /\ Loses(Carried, Carried', d)
  /\ Gains(Granted, Granted', c)
  /\ UNCHANGED <<cnt, Acquired, Posted, Slots>>

Moves ==
  \/ Stay
  \/ \E c \in Waits : Take(c) \/ Enter(c) \/ Accept(c)
  \/ \E c \in Waits, d \in Calls : TakeBack(c, d) \/ GiveBack(c, d) \/ HandOver(c, d)
  \/ \E c \in Posts : PutIn(c)

\* somebody has taken the release flag of x and not accounted for it yet
Forwarded(x) == \E d \in Calls : Forwards(d, x)

\* x is where it was, as far as the permits go
Alike(x) ==
  /\ x \in Acquired' <=> x \in Acquired
  /\ x \in Posted' <=> x \in Posted
  /\ x \in Slots' <=> x \in Slots
  /\ x \in Carried' <=> x \in Carried
  /\ x \in Granted' <=> x \in Granted

\* a step of c that touches no other call, and forwards nothing
Alone(c) ==
  /\ \A d \in Calls \ {c} : pc'[d] = pc[d] /\ then'[d] = then[d] /\ w'[d] = w[d]
  /\ \A d \in Waits \ {c} : unparked'[d] = unparked[d] /\ release'[d] = release[d]
  /\ pc[c] # "fwd" /\ pc'[c] # "fwd"

LEMMA Apart ==
  ASSUME NEW x \in Calls, pc'[x] = pc[x], then'[x] = then[x],
         x \in Waits => /\ unparked'[x] = unparked[x] /\ release'[x] = release[x]
                        /\ Forwarded(x)' <=> Forwarded(x)
  PROVE  Alike(x)
<1>1. x \in Acquired' <=> x \in Acquired
  BY Zenon DEF Acquired
<1>2. x \in Posted' <=> x \in Posted
  BY Zenon DEF Posted
<1>3. x \in Slots' <=> x \in Slots
  BY Zenon DEF Slots, Holds, Forwarded
<1>4. x \in Carried' <=> x \in Carried
  BY Zenon DEF Carried
<1>5. x \in Granted' <=> x \in Granted
  BY Zenon DEF Granted
<1> QED
  BY <1>1, <1>2, <1>3, <1>4, <1>5, Zenon DEF Alike

LEMMA Others ==
  ASSUME NEW c \in Calls, Alone(c)
  PROVE  /\ \A x \in Calls \ {c} : Alike(x)
         /\ Forwarded(c)' <=> Forwarded(c)
<1>1. ASSUME NEW x PROVE Forwarded(x)' <=> Forwarded(x)
  BY Zenon DEF Alone, Forwarded, Forwards
<1>2. ASSUME NEW x \in Calls \ {c} PROVE Alike(x)
  BY <1>1, Apart, Zenon DEF Alone
<1> QED
  BY <1>1, <1>2, Zenon

LEMMA AllAlike == ASSUME cnt' = cnt, \A x \in Calls : Alike(x) PROVE Stay
<1>1. Acquired' = Acquired
  BY Zenon DEF Alike, Acquired, Calls
<1>2. Posted' = Posted
  BY Zenon DEF Alike, Posted, Calls
<1>3. Slots' = Slots
  BY Zenon DEF Alike, Slots, Calls
<1>4. Carried' = Carried
  BY Zenon DEF Alike, Carried
<1>5. Granted' = Granted
  BY Zenon DEF Alike, Granted, Calls
<1> QED
  BY <1>1, <1>2, <1>3, <1>4, <1>5, Zenon DEF Stay

\* S and T differ in c at most
Moved(S, T, c) ==
  /\ c \in T /\ c \notin S => Gains(S, T, c)
  /\ c \notin T /\ c \in S => Loses(S, T, c)
  /\ (c \in T <=> c \in S) => T = S

LEMMA Change ==
  ASSUME NEW D, NEW S, NEW T, NEW c \in D, S \subseteq D, T \subseteq D,
         \A x \in D \ {c} : x \in T <=> x \in S
  PROVE  Moved(S, T, c)
BY DEF Moved, Gains, Loses

LEMMA Within ==
  /\ Acquired \subseteq Calls /\ Posted \subseteq Calls /\ Slots \subseteq Calls
  /\ Carried \subseteq Calls /\ Granted \subseteq Calls
  /\ Acquired' \subseteq Calls /\ Posted' \subseteq Calls /\ Slots' \subseteq Calls
  /\ Carried' \subseteq Calls /\ Granted' \subseteq Calls
BY Zenon DEF Acquired, Posted, Slots, Carried, Granted, Calls

LEMMA MovedAt ==
  ASSUME NEW c \in Calls
  PROVE  /\ (\A x \in Calls \ {c} : x \in Acquired' <=> x \in Acquired) => Moved(Acquired, Acquired', c)
         /\ (\A x \in Calls \ {c} : x \in Posted' <=> x \in Posted) => Moved(Posted, Posted', c)
         /\ (\A x \in Calls \ {c} : x \in Slots' <=> x \in Slots) => Moved(Slots, Slots', c)
         /\ (\A x \in Calls \ {c} : x \in Carried' <=> x \in Carried) => Moved(Carried, Carried', c)
         /\ (\A x \in Calls \ {c} : x \in Granted' <=> x \in Granted) => Moved(Granted, Granted', c)
<1>1. ASSUME \A x \in Calls \ {c} : x \in Acquired' <=> x \in Acquired PROVE Moved(Acquired, Acquired', c)
  BY <1>1, Within, Change, Zenon
<1>2. ASSUME \A x \in Calls \ {c} : x \in Posted' <=> x \in Posted PROVE Moved(Posted, Posted', c)
  BY <1>2, Within, Change, Zenon
<1>3. ASSUME \A x \in Calls \ {c} : x \in Slots' <=> x \in Slots PROVE Moved(Slots, Slots', c)
  BY <1>3, Within, Change, Zenon
<1>4. ASSUME \A x \in Calls \ {c} : x \in Carried' <=> x \in Carried PROVE Moved(Carried, Carried', c)
  BY <1>4, Within, Change, Zenon
<1>5. ASSUME \A x \in Calls \ {c} : x \in Granted' <=> x \in Granted PROVE Moved(Granted, Granted', c)
  BY <1>5, Within, Change, Zenon
<1> QED
  BY <1>1, <1>2, <1>3, <1>4, <1>5, Zenon

LEMMA OneMoved ==
  ASSUME NEW c \in Calls, \A x \in Calls \ {c} : Alike(x)
  PROVE  /\ Moved(Acquired, Acquired', c) /\ Moved(Posted, Posted', c)
         /\ Moved(Slots, Slots', c) /\ Moved(Carried, Carried', c)
         /\ Moved(Granted, Granted', c)
BY MovedAt, Zenon DEF Alike

LEMMA Lowered ==
  ASSUME Flags, NEW c \in Waits
  PROVE  /\ pc[c] \notin Raised => ~release[c] /\ ~Forwarded(c)
         /\ release[c] => ~Forwarded(c)
BY Zenon DEF Flags, Forwarded, Forwards

(* Every step of the semaphore moves at most one permit.                   *)
LEMMA StepMoves == Hand /\ [Next]_vars => Moves
<1> SUFFICES ASSUME Hand, [Next]_vars PROVE Moves
  OBVIOUS
<1> USE SemphoreAssumption DEF Calls
<1>0. Types /\ Continues /\ OnePlace /\ Pending /\ Flags
  BY Zenon DEF Hand
<1>1. ASSUME NEW c \in Waits, try_wait(c) PROVE Take(c)
  <2>1. Alone(c)
    BY <1>0, <1>1, Zenon DEF try_wait, Step, Types, Alone
  <2>2. /\ c \notin Acquired /\ c \in Acquired'
        /\ c \in Posted' <=> c \in Posted
        /\ c \in Slots' <=> c \in Slots
        /\ c \in Carried' <=> c \in Carried
        /\ c \in Granted' <=> c \in Granted
    BY <1>0, <1>1, <2>1, Others, Lowered, Zenon DEF try_wait, Types, Continues, Flags,
       Raised, Step,
       Acquired, Posted, Slots, Holds, Forwarded, Carried, Granted
  <2> QED
    BY <1>1, <2>1, <2>2, Others, OneMoved, Zenon DEF try_wait, Moved, Take
<1>2. ASSUME NEW c \in Waits, try_wait_refused(c) PROVE Stay
  <2>1. Alone(c)
    BY <1>0, <1>2, Zenon DEF try_wait_refused, Step, Types, Alone
  <2>2. Alike(c) /\ cnt' = cnt
    BY <1>0, <1>2, <2>1, Others, Zenon DEF try_wait_refused, Alike, Types, Continues,
       Flags, Raised, Step,
       Acquired, Posted, Slots, Holds, Forwarded, Carried, Granted
  <2> QED
    BY <2>1, <2>2, Others, AllAlike, Zenon
<1>3. ASSUME NEW c \in Waits, wait_blocks(c) PROVE Stay
  <2>1. Alone(c)
    BY <1>0, <1>3, Zenon DEF wait_blocks, Step, Types, Alone
  <2>2. Alike(c) /\ cnt' = cnt
    BY <1>0, <1>3, <2>1, Others, Zenon DEF wait_blocks, Alike, Types, Continues,
       Flags, Raised, Step,
       Acquired, Posted, Slots, Holds, Forwarded, Carried, Granted
  <2> QED
    BY <2>1, <2>2, Others, AllAlike, Zenon
<1>4. ASSUME NEW c \in Waits, wait_register(c) PROVE Stay
  <2>1. Alone(c)
    BY <1>0, <1>4, Zenon DEF wait_register, Step, Types, Alone
  <2>2. Alike(c) /\ cnt' = cnt
    BY <1>0, <1>4, <2>1, Others, Zenon DEF wait_register, Alike, Types, Continues,
       Flags, Raised, Step,
       Acquired, Posted, Slots, Holds, Forwarded, Carried, Granted
  <2> QED
    BY <2>1, <2>2, Others, AllAlike, Zenon
<1>5. ASSUME NEW c \in Waits, wait_fetch_sub(c) PROVE Enter(c)
  <2>1. Alone(c)
    BY <1>0, <1>5, Zenon DEF wait_fetch_sub, Step, Types, Alone
  <2>2. /\ c \in Acquired' <=> c \in Acquired
        /\ c \in Posted' <=> c \in Posted
        /\ c \notin Slots /\ c \in Slots'
        /\ c \in Granted' <=> c \in Granted
        /\ IF cnt > 0 THEN c \notin Carried /\ c \in Carried' ELSE c \in Carried' <=> c \in Carried
    BY <1>0, <1>5, <2>1, Others, Lowered, Zenon DEF wait_fetch_sub, Types, Continues,
       Flags, Raised, Step,
       Acquired, Posted, Slots, Holds, Forwarded, Carried, Granted
  <2> QED
    BY <1>5, <2>1, <2>2, Others, OneMoved, Zenon DEF wait_fetch_sub, Moved, Enter
<1>6. ASSUME NEW c \in Waits, wait_check_stop(c) PROVE Stay
  <2>1. Alone(c)
    BY <1>0, <1>6, Zenon DEF wait_check_stop, Step, Types, Alone
  <2>2. Alike(c) /\ cnt' = cnt
    BY <1>0, <1>6, <2>1, Others, Zenon DEF wait_check_stop, Alike, Types, Continues,
       Flags, Raised, Step,
       Acquired, Posted, Slots, Holds, Forwarded, Carried, Granted
  <2> QED
    BY <2>1, <2>2, Others, AllAlike, Zenon
<1>7. ASSUME NEW c \in Waits, stop_check_unparked(c) PROVE Stay \/ Accept(c)
  <2>1. Alone(c)
    BY <1>0, <1>7, Zenon DEF stop_check_unparked, Step, Types, Alone
  <2>2. ASSUME ~unparked[c] PROVE Alike(c) /\ cnt' = cnt
    BY <1>0, <1>7, <2>1, <2>2, Others, Zenon DEF stop_check_unparked, Alike, Types,
       Continues, Flags, Raised, Step,
       Acquired, Posted, Slots, Holds, Forwarded, Carried, Granted
  <2>3. CASE unparked[c]
    <3>1. /\ c \notin Acquired /\ c \in Acquired'
          /\ c \in Posted' <=> c \in Posted
          /\ c \in Slots /\ c \notin Slots'
          /\ c \in Carried' <=> c \in Carried
          /\ c \in Granted /\ c \notin Granted'
      BY <1>0, <1>7, <2>1, <2>3, Others, Lowered, Zenon DEF stop_check_unparked,
         Types, Continues, Flags, Raised, Step,
       Acquired, Posted, Slots, Holds, Forwarded, Carried, Granted
    <3> QED
      BY <1>7, <2>1, <3>1, Others, OneMoved, Zenon DEF stop_check_unparked, Moved,
         Accept
  <2> QED
    BY <2>1, <2>2, <2>3, Others, AllAlike, Zenon
<1>8. ASSUME NEW c \in Waits, stop_set_release(c) PROVE Stay
  <2>1. Alone(c)
    BY <1>0, <1>8, Zenon DEF stop_set_release, Step, Types, Alone
  <2>2. release'[c] /\ unparked'[c] = unparked[c] /\ cnt' = cnt
    BY <1>0, <1>8, Zenon DEF stop_set_release, Types
  <2>3. Alike(c)
    BY <1>0, <1>8, <2>2, Zenon DEF stop_set_release, Alike, Types, Step, Acquired,
       Posted, Slots, Holds,
       Carried, Granted
  <2> QED
    BY <2>1, <2>2, <2>3, Others, AllAlike, Zenon
<1>9. ASSUME NEW c \in Waits, stop_recheck(c) PROVE Stay
  <2>1. Alone(c)
    BY <1>0, <1>9, Zenon DEF stop_recheck, Step, Types, Alone
  <2>2. Alike(c) /\ cnt' = cnt
    BY <1>0, <1>9, <2>1, Others, Zenon DEF stop_recheck, Alike, Types, Continues,
       Flags, Raised, Step,
       Acquired, Posted, Slots, Holds, Forwarded, Carried, Granted
  <2> QED
    BY <2>1, <2>2, Others, AllAlike, Zenon
<1>10. ASSUME NEW c \in Waits, stop_take_release(c) PROVE Stay \/ Accept(c)
  <2>1. Alone(c)
    BY <1>0, <1>10, Zenon DEF stop_take_release, Step, Types, Alone
  <2>2. ASSUME ~release[c] PROVE Alike(c) /\ cnt' = cnt
    BY <1>0, <1>10, <2>1, <2>2, Others DEF stop_take_release, Alike, Types, Continues,
       Flags, Raised, Step,
       Acquired, Posted, Slots, Holds, Forwarded, Carried, Granted
  <2>3. CASE release[c]
    <3>1. /\ c \notin Acquired /\ c \in Acquired'
          /\ c \in Posted' <=> c \in Posted
          /\ c \in Slots /\ c \notin Slots'
          /\ c \in Carried' <=> c \in Carried
          /\ c \in Granted /\ c \notin Granted'
      BY <1>0, <1>10, <2>1, <2>3, Others, Lowered DEF stop_take_release, Types,
         Continues, Flags, Raised, Step,
       Acquired, Posted, Slots, Holds, Forwarded, Carried, Granted
    <3> QED
      BY <1>10, <2>1, <3>1, Others, OneMoved, Zenon DEF stop_take_release, Moved,
         Accept
  <2> QED
    BY <2>1, <2>2, <2>3, Others, AllAlike, Zenon
<1>11. ASSUME NEW c \in Waits, park_ok(c) PROVE Accept(c)
  <2>1. Alone(c)
    BY <1>0, <1>11, Zenon DEF park_ok, Step, Types, Alone
  <2>2. /\ c \notin Acquired /\ c \in Acquired'
        /\ c \in Posted' <=> c \in Posted
        /\ c \in Slots /\ c \notin Slots'
        /\ c \in Carried' <=> c \in Carried
        /\ c \in Granted /\ c \notin Granted'
    BY <1>0, <1>11, <2>1, Others, Lowered, Zenon DEF park_ok, Types, Continues, Flags,
       Raised, Step,
       Acquired, Posted, Slots, Holds, Forwarded, Carried, Granted
  <2> QED
    BY <1>11, <2>1, <2>2, Others, OneMoved, Zenon DEF park_ok, Moved, Accept
<1>12. ASSUME NEW c \in Waits, park_err(c) PROVE Stay
  <2>1. Alone(c)
    BY <1>0, <1>12, Zenon DEF park_err, Step, Types, Alone
  <2>2. Alike(c) /\ cnt' = cnt
    BY <1>0, <1>12, <2>1, Others, Zenon DEF park_err, Alike, Types, Continues, Flags,
       Raised, Step,
       Acquired, Posted, Slots, Holds, Forwarded, Carried, Granted
  <2> QED
    BY <2>1, <2>2, Others, AllAlike, Zenon
<1>13. ASSUME NEW c \in Waits, err_check_unparked(c) PROVE Stay \/ TakeBack(c, c)
  <2>1. Alone(c)
    BY <1>0, <1>13, Zenon DEF err_check_unparked, Step, Types, Alone
  <2>2. ASSUME ~unparked[c] PROVE Alike(c) /\ cnt' = cnt
    BY <1>0, <1>13, <2>1, <2>2, Others, Zenon DEF err_check_unparked, Alike, Types,
       Continues, Flags, Raised, Step,
       Acquired, Posted, Slots, Holds, Forwarded, Carried, Granted
  <2>3. CASE unparked[c]
    <3>1. /\ c \in Acquired' <=> c \in Acquired
          /\ c \in Posted' <=> c \in Posted
          /\ c \in Slots' <=> c \in Slots
          /\ c \notin Carried /\ c \in Carried'
          /\ c \in Granted /\ c \notin Granted'
      BY <1>0, <1>13, <2>1, <2>3, Others, Lowered, Zenon DEF err_check_unparked,
         Types, Continues, Flags, Raised, Step,
       Acquired, Posted, Slots, Holds, Forwarded, Carried, Granted
    <3> QED
      BY <1>13, <2>1, <3>1, Others, OneMoved, Zenon DEF err_check_unparked, Moved,
         TakeBack
  <2> QED
    BY <2>1, <2>2, <2>3, Others, AllAlike, Zenon
<1>14. ASSUME NEW c \in Waits, err_set_release(c) PROVE Stay
  <2>1. Alone(c)
    BY <1>0, <1>14, Zenon DEF err_set_release, Step, Types, Alone
  <2>2. release'[c] /\ unparked'[c] = unparked[c] /\ cnt' = cnt
    BY <1>0, <1>14, Zenon DEF err_set_release, Types
  <2>3. Alike(c)
    BY <1>0, <1>14, <2>2, Zenon DEF err_set_release, Alike, Types, Step, Acquired,
       Posted, Slots, Holds,
       Carried, Granted
  <2> QED
    BY <2>1, <2>2, <2>3, Others, AllAlike, Zenon
<1>15. ASSUME NEW c \in Waits, err_recheck(c) PROVE Stay
  <2>1. Alone(c)
    BY <1>0, <1>15, Zenon DEF err_recheck, Step, Types, Alone
  <2>2. Alike(c) /\ cnt' = cnt
    BY <1>0, <1>15, <2>1, Others, Zenon DEF err_recheck, Alike, Types, Continues,
       Flags, Raised, Step,
       Acquired, Posted, Slots, Holds, Forwarded, Carried, Granted
  <2> QED
    BY <2>1, <2>2, Others, AllAlike, Zenon
<1>16. ASSUME NEW c \in Waits, err_take_release(c) PROVE Stay \/ TakeBack(c, c)
  <2>1. Alone(c)
    BY <1>0, <1>16, Zenon DEF err_take_release, Step, Types, Alone
  <2>2. ASSUME ~release[c] PROVE Alike(c) /\ cnt' = cnt
    BY <1>0, <1>16, <2>1, <2>2, Others DEF err_take_release, Alike, Types, Continues,
       Flags, Raised, Step,
       Acquired, Posted, Slots, Holds, Forwarded, Carried, Granted
  <2>3. CASE release[c]
    <3>1. /\ c \in Acquired' <=> c \in Acquired
          /\ c \in Posted' <=> c \in Posted
          /\ c \in Slots' <=> c \in Slots
          /\ c \notin Carried /\ c \in Carried'
          /\ c \in Granted /\ c \notin Granted'
      BY <1>0, <1>16, <2>1, <2>3, Others, Lowered DEF err_take_release, Types,
         Continues, Flags, Raised, Step,
       Acquired, Posted, Slots, Holds, Forwarded, Carried, Granted
    <3> QED
      BY <1>16, <2>1, <3>1, Others, OneMoved, Zenon DEF err_take_release, Moved,
         TakeBack
  <2> QED
    BY <2>1, <2>2, <2>3, Others, AllAlike, Zenon
<1>17. ASSUME NEW c \in Posts, post_cnt(c) PROVE PutIn(c)
  <2>1. Alone(c)
    BY <1>0, <1>17, Zenon DEF post_cnt, Step, Types, Alone
  <2>2. /\ c \in Acquired' <=> c \in Acquired
        /\ c \notin Posted /\ c \in Posted'
        /\ c \in Slots' <=> c \in Slots
        /\ c \in Granted' <=> c \in Granted
        /\ IF cnt < 0 THEN c \notin Carried /\ c \in Carried' ELSE c \in Carried' <=> c \in Carried
    BY <1>0, <1>17, <2>1, Others, Zenon DEF post_cnt, Types, Continues, Flags, Raised,
       Step,
       Acquired, Posted, Slots, Holds, Forwarded, Carried, Granted
  <2> QED
    BY <1>17, <2>1, <2>2, Others, OneMoved, Zenon DEF post_cnt, Moved, PutIn
<1>18. ASSUME NEW c \in Waits, post_cnt(c) PROVE GiveBack(c, c)
  <2>1. Alone(c)
    BY <1>0, <1>18, Zenon DEF post_cnt, Step, Types, Alone
  <2>2. /\ c \in Acquired' <=> c \in Acquired
        /\ c \in Posted' <=> c \in Posted
        /\ c \in Slots /\ c \notin Slots'
        /\ c \in Granted' <=> c \in Granted
        /\ IF cnt < 0 THEN c \in Carried' <=> c \in Carried ELSE c \in Carried /\ c \notin Carried'
    BY <1>0, <1>18, <2>1, Others, Lowered, Zenon DEF post_cnt, Types, Continues,
       Flags, Raised, Step,
       Acquired, Posted, Slots, Holds, Forwarded, Carried, Granted
  <2> QED
    BY <1>18, <2>1, <2>2, Others, OneMoved, Zenon DEF post_cnt, Moved, GiveBack
<1>19. ASSUME NEW c \in Calls, wakeup_pop(c) PROVE Stay
  <2>1. Alone(c)
    BY <1>0, <1>19, Zenon DEF wakeup_pop, Step, Types, Alone
  <2>2. Alike(c) /\ cnt' = cnt
    BY <1>0, <1>19, <2>1, Others, Zenon DEF wakeup_pop, Alike, Types, Continues,
       Flags, Raised, Step,
       Acquired, Posted, Slots, Holds, Forwarded, Carried, Granted
  <2> QED
    BY <2>1, <2>2, Others, AllAlike, Zenon
<1>20. ASSUME NEW c \in Calls, wakeup_wake(c) PROVE Stay
  <2>1. Alone(c)
    BY <1>0, <1>20, Zenon DEF wakeup_wake, Step, Types, Alone
  <2>2. Alike(c) /\ cnt' = cnt
    BY <1>0, <1>20, <2>1, Others, Zenon DEF wakeup_wake, Alike, Types, Continues,
       Step,
       Acquired, Posted, Slots, Holds, Forwarded, Carried, Granted
  <2> QED
    BY <2>1, <2>2, Others, AllAlike, Zenon
<1>21. ASSUME NEW c \in Calls, pc[c] \in Carrying PROVE w[c] \in Waits
  BY <1>0, <1>21, Zenon DEF Types, OnePlace
<1>22. ASSUME NEW c \in Calls, wakeup_store(c) PROVE HandOver(w[c], c)
  <2>0. PICK b \in Waits : b = w[c]
    BY <1>21, <1>22, Zenon DEF wakeup_store, Step, Carrying
  <2>1. /\ \A d \in Calls \ {c} : pc'[d] = pc[d] /\ w'[d] = w[d] /\ then'[d] = then[d]
        /\ \A x \in Waits \ {b} : unparked'[x] = unparked[x]
        /\ pc[c] = "store" /\ pc'[c] = "wake" /\ then'[c] = then[c]
        /\ unparked'[b] /\ release' = release /\ cnt' = cnt
    BY <1>0, <1>22, <2>0, Zenon DEF wakeup_store, Step, Types
  <2>2. \A x : Forwarded(x)' <=> Forwarded(x)
    BY <2>1, Zenon DEF Forwarded, Forwards
  <2>3. ASSUME NEW x \in Calls \ {c, b} PROVE Alike(x)
    BY <2>1, <2>2, Apart, Zenon
  <2>4. /\ c \in Carried /\ c \notin Carried'
        /\ c \in Acquired' <=> c \in Acquired
        /\ c \in Posted' <=> c \in Posted
        /\ c \in Slots' <=> c \in Slots
        /\ c # b => (c \in Granted' <=> c \in Granted)
    BY <2>1, <2>2, Zenon DEF Acquired, Posted, Slots, Holds, Forwarded, Carried,
       Granted
  <2>5. b \notin Granted /\ b \in Granted'
    <3>1. ~unparked[b] /\ (pc[b] = "sub" \/ InWait(b) \/ release[b])
      BY <1>0, <2>0, <2>1, Zenon DEF Pending, Waiting
    <3> QED
      BY <2>1, <3>1, Zenon DEF InWait, Granted
  <2>6. ASSUME b # c
        PROVE  /\ b \in Carried' <=> b \in Carried
               /\ b \in Acquired' <=> b \in Acquired
               /\ b \in Posted' <=> b \in Posted
               /\ b \in Slots' <=> b \in Slots
    BY <2>1, <2>2, <2>6, Zenon DEF Acquired, Posted, Slots, Holds, Forwarded, Carried
  <2>7. Moved(Granted, Granted', b)
    BY <2>3, <2>4, MovedAt, Zenon DEF Alike
  <2>8. /\ Moved(Acquired, Acquired', c) /\ Moved(Posted, Posted', c)
        /\ Moved(Slots, Slots', c) /\ Moved(Carried, Carried', c)
    BY <2>3, <2>6, MovedAt, Zenon DEF Alike
  <2> QED
    BY <2>0, <2>1, <2>4, <2>5, <2>7, <2>8, Zenon DEF Moved, HandOver
<1>23. ASSUME NEW c \in Calls, wakeup_take_release(c) PROVE Stay \/ TakeBack(w[c], c)
  <2>0. w[c] \in Waits
    BY <1>21, <1>23, Zenon DEF wakeup_take_release, Step, Carrying
  <2>1. ASSUME ~release[w[c]] PROVE Stay
    <3>0. release' = release /\ pc'[c] # "fwd"
      BY <1>0, <1>23, <2>0, <2>1, Zenon DEF wakeup_take_release, Step, Types
    <3>1. Alone(c)
      BY <1>0, <1>23, <3>0, Zenon DEF wakeup_take_release, Step, Types, Alone
    <3>2. /\ pc[c] = "take" /\ pc'[c] = then[c] /\ then' = then
          /\ unparked' = unparked /\ cnt' = cnt
      BY <1>0, <1>23, <2>1, Zenon DEF wakeup_take_release, Step, Types
    <3>3. Alike(c)
      BY <1>0, <3>0, <3>1, <3>2, Others, Zenon DEF Alike, Types, Continues,
         Acquired, Posted, Slots, Holds, Forwarded, Carried, Granted
    <3> QED
      BY <3>1, <3>2, <3>3, Others, AllAlike, Zenon
  <2>2. ASSUME release[w[c]] PROVE TakeBack(w[c], c)
    <3>0. PICK b \in Waits : b = w[c]
      BY <2>0, Zenon
    <3>1. \A d \in Calls \ {c} : pc'[d] = pc[d] /\ w'[d] = w[d] /\ then'[d] = then[d]
      BY <1>0, <1>23, Zenon DEF wakeup_take_release, Step, Types
    <3>2. /\ pc[c] = "take" /\ pc'[c] = "fwd" /\ w'[c] = b /\ w[c] = b /\ then'[c] = then[c]
          /\ ~release'[b] /\ unparked' = unparked /\ cnt' = cnt
          /\ \A x \in Waits \ {b} : release'[x] = release[x]
      BY <1>0, <1>23, <2>2, <3>0, Zenon DEF wakeup_take_release, Step, Types
    <3>3. Forwarded(b)' /\ \A x : x # b => (Forwarded(x)' <=> Forwarded(x))
      BY <3>1, <3>2, Zenon DEF Forwarded, Forwards
    <3>4. ASSUME NEW x \in Calls \ {c, b} PROVE Alike(x)
      BY <3>1, <3>2, <3>3, Apart, Zenon
    <3>5. /\ c \notin Carried /\ c \in Carried'
          /\ c \in Acquired' <=> c \in Acquired
          /\ c \in Posted' <=> c \in Posted
          /\ c # b => (c \in Slots' <=> c \in Slots)
          /\ c # b => (c \in Granted' <=> c \in Granted)
      BY <3>2, <3>3, Zenon DEF Acquired, Posted, Slots, Holds, Forwarded, Carried,
         Granted
    <3>6. b \in Slots /\ b \in Slots'
      BY <2>2, <3>0, <3>3, Zenon DEF Slots, Holds, Forwarded
    <3>7. b \in Granted /\ b \notin Granted'
      <4>1. unparked[b] /\ pc[b] \in Raised
        BY <1>0, <2>2, <3>0, <3>2 DEF Flags
      <4>2. pc'[b] \notin {"sub", "stop", "park", "check", "setrel", "schk", "sset"}
        BY <3>1, <3>2, <4>1, Zenon DEF Raised
      <4>3. ~(pc'[b] \in {"pop", "store", "wake", "take", "fwd"} /\ then'[b] = "stop")
        BY <3>1, <3>2, <4>1, <1>0, Zenon DEF Raised, Continues
      <4> QED
        BY <2>2, <3>0, <3>2, <4>1, <4>2, <4>3, Zenon DEF Granted
    <3>8. ASSUME b # c
          PROVE  /\ b \in Carried' <=> b \in Carried
                 /\ b \in Acquired' <=> b \in Acquired
                 /\ b \in Posted' <=> b \in Posted
      BY <3>1, <3>8, Zenon DEF Acquired, Posted, Carried
    <3>9. Moved(Granted, Granted', b) /\ Moved(Slots, Slots', b)
      BY <3>4, <3>5, MovedAt, Zenon DEF Alike
    <3>10. /\ Moved(Acquired, Acquired', c) /\ Moved(Posted, Posted', c)
           /\ Moved(Carried, Carried', c)
      BY <3>4, <3>8, MovedAt, Zenon DEF Alike
    <3> QED
      BY <3>0, <3>2, <3>5, <3>6, <3>7, <3>9, <3>10, Zenon DEF Moved, TakeBack
  <2> QED
    BY <2>1, <2>2, Zenon
<1>24. ASSUME NEW c \in Calls, wakeup_forward(c) PROVE GiveBack(w[c], c)
  <2>0. PICK b \in Waits : b = w[c]
    BY <1>21, <1>24, Zenon DEF wakeup_forward, Step, Carrying
  <2>1. \A d \in Calls \ {c} : pc'[d] = pc[d] /\ w'[d] = w[d] /\ then'[d] = then[d]
    BY <1>0, <1>24, Zenon DEF wakeup_forward, Step, Types
  <2>2. /\ pc[c] = "fwd" /\ w[c] = b /\ w'[c] = NoCall /\ then'[c] = then[c]
        /\ pc'[c] = IF cnt >= 0 THEN then[c] ELSE "pop"
        /\ release' = release /\ unparked' = unparked /\ cnt' = cnt + 1
    BY <1>0, <1>24, <2>0, Zenon DEF wakeup_forward, Step, Types
  <2>3. ~Forwarded(b)' /\ \A x \in Waits \ {b} : Forwarded(x)' <=> Forwarded(x)
    <3>1. \A d \in Calls \ {c} : w[d] # b
      BY <1>0, <2>0, <2>2, Zenon DEF OnePlace
    <3> QED
      BY <2>1, <2>2, <3>1, Zenon DEF Forwarded, Forwards
  <2>4. ASSUME NEW x \in Calls \ {c, b} PROVE Alike(x)
    BY <2>1, <2>2, <2>3, Apart, Zenon
  <2>5. /\ c \in Acquired' <=> c \in Acquired
        /\ c \in Posted' <=> c \in Posted
        /\ c # b => (c \in Slots' <=> c \in Slots)
        /\ c # b => (c \in Granted' <=> c \in Granted)
    BY <1>0, <2>2, <2>3, Zenon DEF Types, Continues,
       Acquired, Posted, Slots, Holds, Forwarded, Granted
  <2>6. /\ c \in Carried
        /\ cnt < 0 <=> c \in Carried'
    BY <1>0, <2>2 DEF Types, Carried
  <2>7. pc[b] \in Raised /\ ~release[b] /\ b # c
    BY <1>0, <2>0, <2>2, Zenon DEF Flags, Raised
  <2>8. /\ b \in Slots /\ b \notin Slots'
        /\ b \in Carried' <=> b \in Carried
        /\ b \in Acquired' <=> b \in Acquired
        /\ b \in Posted' <=> b \in Posted
        /\ b \in Granted' <=> b \in Granted
    <3>1. b \in Slots
      BY <2>0, <2>2, Zenon DEF Slots, Holds, Forwards
    <3>2. b \notin Slots'
      BY <2>1, <2>2, <2>3, <2>7, Zenon DEF Slots, Holds, Forwarded, Raised
    <3> QED
      BY <2>1, <2>2, <2>7, <3>1, <3>2, Zenon DEF Acquired, Posted, Carried, Granted
  <2>9. Moved(Slots, Slots', b)
    BY <2>4, <2>5, MovedAt, Zenon DEF Alike
  <2>10. /\ Moved(Acquired, Acquired', c) /\ Moved(Posted, Posted', c)
         /\ Moved(Granted, Granted', c) /\ Moved(Carried, Carried', c)
    BY <2>4, <2>8, MovedAt, Zenon DEF Alike
  <2>11. Granted' = Granted
    BY <2>5, <2>7, <2>10, Zenon DEF Moved
  <2> QED
    BY <2>0, <2>2, <2>5, <2>6, <2>8, <2>9, <2>10, <2>11, Zenon DEF Moved, GiveBack
<1>25. ASSUME UNCHANGED semVars PROVE Stay
  BY <1>25, Zenon DEF semVars, Stay, Acquired, Posted, Slots, Holds, Forwards,
     Carried, Granted
<1> QED
  BY <1>1, <1>2, <1>3, <1>4, <1>5, <1>6, <1>7, <1>8, <1>9, <1>10, <1>11, <1>12, <1>13,
     <1>14, <1>15, <1>16, <1>17, <1>18, <1>19, <1>20, <1>21, <1>22, <1>23, <1>24,
     <1>25, Zenon
     DEF Next, Begin, Wait, Wakeup, raise_stop, Quiet, vars, Moves, Carrying, Step,
         wakeup_store, wakeup_take_release, wakeup_forward

-----------------------------------------------------------------------------
(* The accounting                                                          *)

LEMMA OneMore ==
  ASSUME NEW S, NEW T, NEW x, IsFiniteSet(S), Gains(S, T, x)
  PROVE  Cardinality(T) = Cardinality(S) + 1
BY FS_AddElement, Zenon DEF Gains

LEMMA OneLess ==
  ASSUME NEW S, NEW T, NEW x, IsFiniteSet(S), Loses(S, T, x)
  PROVE  Cardinality(T) = Cardinality(S) - 1 /\ Cardinality(S) > 0
<1>1. Cardinality(S) \in Nat /\ S # {}
  BY FS_CardinalityType, Zenon DEF Loses
<1>2. Cardinality(S) # 0
  BY <1>1, FS_EmptySet, Zenon
<1> QED
  BY <1>1, <1>2, FS_RemoveElement DEF Loses

(* Only finitely many calls are made, so all that is counted is finite.    *)
LEMMA Counted ==
  /\ IsFiniteSet(Acquired) /\ Cardinality(Acquired) \in Nat
  /\ IsFiniteSet(Posted) /\ Cardinality(Posted) \in Nat
  /\ IsFiniteSet(Slots) /\ Cardinality(Slots) \in Nat
  /\ IsFiniteSet(Carried) /\ Cardinality(Carried) \in Nat
  /\ IsFiniteSet(Granted) /\ Cardinality(Granted) \in Nat
<1>1. IsFiniteSet(Calls)
  BY SemphoreAssumption, FS_Union, Zenon DEF Calls
<1>2. /\ Acquired \in SUBSET Calls /\ Posted \in SUBSET Calls /\ Slots \in SUBSET Calls
      /\ Carried \in SUBSET Calls /\ Granted \in SUBSET Calls
  BY Zenon DEF Acquired, Posted, Slots, Carried, Granted, Calls
<1> QED
  BY <1>1, <1>2, FS_Subset, FS_CardinalityType, Zenon

\* the counter, and what stands against what was put in
Total ==
  cnt + Cardinality(Acquired) + Cardinality(Slots) - Cardinality(Posted)

(* A move keeps the permits in balance ...                                 *)
LEMMA MovesBalance ==
  ASSUME cnt \in Int, PermitBalance, Moves
  PROVE  PermitBalance'
<1> USE Counted DEF PermitBalance
<1>1. CASE Stay
  BY <1>1, Zenon DEF Stay
<1>2. ASSUME NEW c \in Waits, Take(c) PROVE PermitBalance'
  BY <1>2 DEF Take
<1>3. ASSUME NEW c \in Waits, Enter(c) PROVE PermitBalance'
  BY <1>3, OneMore DEF Enter
<1>4. ASSUME NEW c \in Waits, Accept(c) PROVE PermitBalance'
  BY <1>4, OneLess DEF Accept
<1>5. ASSUME NEW c \in Waits, NEW d \in Calls, TakeBack(c, d) PROVE PermitBalance'
  BY <1>5, OneMore, OneLess DEF TakeBack
<1>6. ASSUME NEW c \in Waits, NEW d \in Calls, GiveBack(c, d) PROVE PermitBalance'
  BY <1>6, OneLess DEF GiveBack
<1>7. ASSUME NEW c \in Waits, NEW d \in Calls, HandOver(c, d) PROVE PermitBalance'
  BY <1>7, OneMore, OneLess DEF HandOver
<1>8. ASSUME NEW c \in Posts, PutIn(c) PROVE PermitBalance'
  BY <1>8, OneMore DEF PutIn
<1> HIDE DEF PermitBalance
<1> QED
  BY <1>1, <1>2, <1>3, <1>4, <1>5, <1>6, <1>7, <1>8, Zenon DEF Moves

(* ... and the counter exact.                                              *)
LEMMA MovesCount ==
  ASSUME cnt \in Int, Moves
  PROVE  /\ Total' = Total
         /\ CntExact => CntExact'
<1> DEFINE Goal == Total' = Total /\ (CntExact => CntExact')
<1>1. ASSUME UNCHANGED <<cnt, Acquired, Posted, Slots>> PROVE Goal
  BY <1>1, Zenon DEF Total, CntExact
<1> USE Counted, SemphoreAssumption DEF Total, CntExact
<1>2. ASSUME NEW c \in Waits, Take(c) PROVE Goal
  BY <1>2, OneMore DEF Take
<1>3. ASSUME NEW c \in Waits, Enter(c) PROVE Goal
  BY <1>3, OneMore DEF Enter
<1>4. ASSUME NEW c \in Waits, Accept(c) PROVE Goal
  BY <1>4, OneMore, OneLess DEF Accept
<1>5. ASSUME NEW c \in Waits, NEW d \in Calls, GiveBack(c, d) PROVE Goal
  BY <1>5, OneLess DEF GiveBack
<1>6. ASSUME NEW c \in Posts, PutIn(c) PROVE Goal
  BY <1>6, OneMore DEF PutIn
<1> HIDE DEF Total, CntExact
<1> QED
  BY <1>1, <1>2, <1>3, <1>4, <1>5, <1>6, Zenon DEF Moves, Stay, TakeBack, HandOver

-----------------------------------------------------------------------------
(* Who pops finds a waiter                                                 *)

LEMMA ImageSize ==
  ASSUME NEW S, IsFiniteSet(S), NEW f
  PROVE  /\ IsFiniteSet({f[x] : x \in S})
         /\ Cardinality({f[x] : x \in S}) <= Cardinality(S)
<1> DEFINE T == {f[x] : x \in S}
           g == [x \in S |-> f[x]]
<1>1. g \in Surjection(S, T)
  BY Zenon DEF Surjection
<1> QED
  BY <1>1, FS_Surjection, Zenon

LEMMA UnionSize ==
  ASSUME NEW S, NEW T, IsFiniteSet(S), IsFiniteSet(T)
  PROVE  /\ IsFiniteSet(S \cup T)
         /\ Cardinality(S) \in Nat /\ Cardinality(T) \in Nat
         /\ Cardinality(S \cup T) \in Nat
         /\ Cardinality(S \cup T) <= Cardinality(S) + Cardinality(T)
         /\ S \cap T = {} => Cardinality(S \cup T) = Cardinality(S) + Cardinality(T)
<1>1. /\ IsFiniteSet(S \cup T)
      /\ Cardinality(S \cup T) = Cardinality(S) + Cardinality(T) - Cardinality(S \cap T)
  BY FS_Union, Zenon
<1>2. IsFiniteSet(S \cap T) /\ Cardinality(S \cap T) \in Nat
  <2>1. S \cap T \in SUBSET S
    OBVIOUS
  <2> QED
    BY <2>1, FS_Subset, FS_CardinalityType, Zenon
<1>3. Cardinality(S) \in Nat /\ Cardinality(T) \in Nat /\ Cardinality(S \cup T) \in Nat
  BY <1>1, FS_CardinalityType, Zenon
<1> QED
  BY <1>1, <1>2, <1>3, FS_EmptySet

(* By the balance the carried and granted permits are at most the slots.   *)
(* A slot that has no permit of its own on its way is queued, so there is  *)
(* an entry for every call that is about to pop.                           *)
LEMMA NoNull ==
  ASSUME Hand, Reached, PermitBalance
  PROVE  NoNullBlocker
<1> DEFINE At(p) == {c \in Calls : pc[c] = p}
           Repost == {c \in Calls : pc[c] = "post" /\ then[c] = "left"}
           Queue == {to_wake[i] : i \in 1..Len(to_wake)}
           Blockers(p) == {w[d] : d \in At(p)}
<1>0. Len(to_wake) \in Nat
  BY DEF Hand, Types
<1>1. IsFiniteSet(Calls)
  BY SemphoreAssumption, FS_Union, Zenon DEF Calls
<1>2. /\ IsFiniteSet(At("pop")) /\ IsFiniteSet(At("store")) /\ IsFiniteSet(At("fwd"))
      /\ IsFiniteSet(Repost)
  <2>1. /\ At("pop") \in SUBSET Calls /\ At("store") \in SUBSET Calls
        /\ At("fwd") \in SUBSET Calls /\ Repost \in SUBSET Calls
    OBVIOUS
  <2> QED
    BY <1>1, <2>1, FS_Subset, Zenon
<1>3. IsFiniteSet(Queue) /\ Cardinality(Queue) <= Len(to_wake)
  <2>1. IsFiniteSet(1..Len(to_wake)) /\ Cardinality(1..Len(to_wake)) = Len(to_wake)
    <3>1. Len(to_wake) \in Int /\ 1 \in Int
      BY <1>0
    <3> HIDE DEF Queue
    <3>2. /\ IsFiniteSet(1..Len(to_wake))
          /\ Cardinality(1..Len(to_wake)) = IF 1 > Len(to_wake) THEN 0 ELSE Len(to_wake) - 1 + 1
      BY <3>1, FS_Interval, Zenon
    <3> QED
      BY <1>0, <3>2
  <2> QED
    BY <2>1, ImageSize, Zenon
<1>4. /\ IsFiniteSet(Blockers("store"))
      /\ Cardinality(Blockers("store")) <= Cardinality(At("store"))
      /\ IsFiniteSet(Blockers("fwd"))
      /\ Cardinality(Blockers("fwd")) <= Cardinality(At("fwd"))
  <2> HIDE DEF At
  <2> QED
    BY <1>2, ImageSize, Zenon
<1>5. Carried = At("pop") \cup (At("store") \cup (At("fwd") \cup Repost))
  BY Zenon DEF Carried
<1>6. /\ At("fwd") \cap Repost = {}
      /\ At("store") \cap (At("fwd") \cup Repost) = {}
      /\ At("pop") \cap (At("store") \cup (At("fwd") \cup Repost)) = {}
  OBVIOUS
<1>7. Cardinality(Carried) = Cardinality(At("pop")) + Cardinality(At("store"))
                               + Cardinality(At("fwd")) + Cardinality(Repost)
  <2> HIDE DEF At, Repost
  <2>1. /\ IsFiniteSet(At("fwd") \cup Repost)
        /\ Cardinality(At("fwd") \cup Repost) = Cardinality(At("fwd")) + Cardinality(Repost)
    BY <1>2, <1>6, UnionSize, Zenon
  <2>2. /\ IsFiniteSet(At("store") \cup (At("fwd") \cup Repost))
        /\ Cardinality(At("store") \cup (At("fwd") \cup Repost))
             = Cardinality(At("store")) + Cardinality(At("fwd") \cup Repost)
    BY <2>1, <1>2, <1>6, UnionSize, Zenon
  <2>3. Cardinality(At("pop") \cup (At("store") \cup (At("fwd") \cup Repost)))
          = Cardinality(At("pop")) + Cardinality(At("store") \cup (At("fwd") \cup Repost))
    BY <2>2, <1>2, <1>6, UnionSize, Zenon
  <2>4. /\ Cardinality(At("pop")) \in Nat /\ Cardinality(At("store")) \in Nat
        /\ Cardinality(At("fwd")) \in Nat /\ Cardinality(Repost) \in Nat
    BY <1>2, FS_CardinalityType, Zenon
  <2> QED
    BY <1>5, <2>1, <2>2, <2>3, <2>4
<1>8. Slots \subseteq
        Queue \cup (Blockers("store") \cup (Granted \cup (Blockers("fwd") \cup Repost)))
  <2> SUFFICES ASSUME NEW c \in Slots
               PROVE  c \in Queue \cup (Blockers("store") \cup
                                      (Granted \cup (Blockers("fwd") \cup Repost)))
    OBVIOUS
  <2>1. c \in Waits /\ c \in Calls /\ Holds(c)
    BY Zenon DEF Slots, Calls
  <2>2. CASE \E d \in Calls : Forwards(d, c)
    BY <2>2, Zenon DEF Forwards
  <2>3. CASE pc[c] = "post" /\ then[c] = "left"
    BY <2>1, <2>3, Zenon
  <2>4. CASE InWait(c) \/ release[c]
    <3>1. CASE unparked[c]
      BY <2>1, <2>4, <3>1, Zenon DEF Granted, InWait
    <3>2. CASE ~unparked[c]
      BY <2>1, <2>4, <3>2, Zenon DEF Reached, Waiting, InQueue, Popped
    <3> QED
      BY <3>1, <3>2, Zenon
  <2> QED
    BY <2>1, <2>2, <2>3, <2>4, Zenon DEF Holds, InWait
<1>9. Cardinality(Slots) <= Cardinality(Queue) + Cardinality(Blockers("store"))
                             + Cardinality(Granted) + Cardinality(Blockers("fwd"))
                             + Cardinality(Repost)
  <2> HIDE DEF At, Repost, Queue, Blockers
  <2> DEFINE U1 == Blockers("fwd") \cup Repost
             U2 == Granted \cup U1
             U3 == Blockers("store") \cup U2
             U4 == Queue \cup U3
  <2>1. IsFiniteSet(U1) /\ Cardinality(U1) <= Cardinality(Blockers("fwd")) + Cardinality(Repost)
    BY <1>2, <1>4, UnionSize, Zenon
  <2> HIDE DEF U1
  <2>2. IsFiniteSet(U2) /\ Cardinality(U2) <= Cardinality(Granted) + Cardinality(U1)
    BY <2>1, Counted, UnionSize, Zenon
  <2> HIDE DEF U2
  <2>3. IsFiniteSet(U3) /\ Cardinality(U3) <= Cardinality(Blockers("store")) + Cardinality(U2)
    BY <2>2, <1>4, UnionSize, Zenon
  <2> HIDE DEF U3
  <2>4. IsFiniteSet(U4) /\ Cardinality(U4) <= Cardinality(Queue) + Cardinality(U3)
    BY <2>3, <1>3, UnionSize, Zenon
  <2> HIDE DEF U4
  <2>5. Cardinality(Slots) <= Cardinality(U4)
    <3>1. Slots \in SUBSET U4
      BY <1>8, Zenon DEF U1, U2, U3, U4
    <3> QED
      BY <2>4, <3>1, FS_Subset, Zenon
  <2>6. /\ Cardinality(U1) \in Nat /\ Cardinality(U2) \in Nat /\ Cardinality(U3) \in Nat
        /\ Cardinality(U4) \in Nat /\ Cardinality(Queue) \in Nat
        /\ Cardinality(Blockers("store")) \in Nat /\ Cardinality(Blockers("fwd")) \in Nat
        /\ Cardinality(Repost) \in Nat
    BY <2>1, <2>2, <2>3, <2>4, <1>2, <1>3, <1>4, FS_CardinalityType, Zenon
  <2> QED
    BY <2>1, <2>2, <2>3, <2>4, <2>5, <2>6, Counted
<1>10. /\ Cardinality(At("pop")) \in Nat /\ Cardinality(At("store")) \in Nat
       /\ Cardinality(At("fwd")) \in Nat /\ Cardinality(Repost) \in Nat
       /\ Cardinality(Queue) \in Nat
       /\ Cardinality(Blockers("store")) \in Nat /\ Cardinality(Blockers("fwd")) \in Nat
  <2> HIDE DEF At, Repost, Queue, Blockers
  <2> QED
    BY <1>2, <1>3, <1>4, FS_CardinalityType, Zenon
<1>11. Cardinality(Carried) + Cardinality(Granted) <= Cardinality(Slots)
  BY Counted DEF Hand, Types, PermitBalance
<1>12. Cardinality(At("pop")) <= Len(to_wake)
  <2> HIDE DEF At, Repost, Queue, Blockers
  <2>1. Cardinality(At("pop")) <= Cardinality(Queue)
    BY <1>4, <1>7, <1>9, <1>10, <1>11, Counted
  <2> QED
    BY <1>0, <1>3, <1>10, <2>1
<1> QED
  BY <1>12, Zenon DEF NoNullBlocker

-----------------------------------------------------------------------------
(* The invariant                                                           *)

LEMMA InitInv == Init => SemInv
<1> SUFFICES ASSUME Init PROVE SemInv
  OBVIOUS
<1> USE SemphoreAssumption DEF Init, Calls
<1>1. Hand
  BY DEF Hand, Types, Continues, OnePlace, Pending, Waiting, InWait, Flags,
         Carrying, Raised
<1>2. Reached
  BY Zenon DEF Reached, Waiting, InWait
<1>3. Acquired = {} /\ Posted = {} /\ Slots = {} /\ Carried = {} /\ Granted = {}
  BY Zenon DEF Acquired, Posted, Slots, Holds, Forwards, Carried, Granted
<1>4. CntExact /\ PermitBalance
  BY <1>3, FS_EmptySet DEF CntExact, PermitBalance
<1> QED
  BY <1>1, <1>2, <1>4, Zenon DEF SemInv

LEMMA StepInv == SemInv /\ [Next]_vars => SemInv'
<1> SUFFICES ASSUME SemInv, [Next]_vars PROVE SemInv'
  OBVIOUS
<1>1. Hand' /\ Reached' /\ Moves
  BY HandStep, ReachedStep, StepMoves, Zenon DEF SemInv
<1>2. cnt \in Int
  BY Zenon DEF SemInv, Hand, Types
<1> QED
  BY <1>1, <1>2, MovesBalance, MovesCount, Zenon DEF SemInv

(* The counter stays between minus the waits and the value all posts make. *)
LEMMA CntRange ==
  SemInv => cnt \in -Cardinality(Waits)..(Permits + Cardinality(Posts))
<1> SUFFICES ASSUME SemInv
             PROVE  cnt \in -Cardinality(Waits)..(Permits + Cardinality(Posts))
  OBVIOUS
<1> USE SemphoreAssumption
<1>1. Acquired \cap Slots = {}
  BY Zenon DEF SemInv, Hand, Types, Flags, Raised, Acquired, Slots, Holds, Forwards,
     Calls
<1>2. Acquired \cup Slots \in SUBSET Waits /\ Posted \in SUBSET Posts
  BY Zenon DEF Acquired, Slots, Posted
<1>3. /\ Cardinality(Acquired \cup Slots) <= Cardinality(Waits)
      /\ Cardinality(Posted) <= Cardinality(Posts)
  BY <1>2, FS_Subset, Zenon
<1>4. Cardinality(Acquired \cup Slots) = Cardinality(Acquired) + Cardinality(Slots)
  BY <1>1, Counted, UnionSize, Zenon
<1>5. Cardinality(Waits) \in Nat /\ Cardinality(Posts) \in Nat
  BY FS_CardinalityType, Zenon
<1> QED
  BY <1>3, <1>4, <1>5, Counted DEF SemInv, CntExact

(* stop() is the caller's own predicate.                                   *)
LEMMA StopStep == stopped \in BOOLEAN /\ [Next]_vars => stopped' \in BOOLEAN
BY Zenon DEF Next, Begin, Wait, Wakeup, raise_stop, Quiet, vars,
       try_wait, try_wait_refused, wait_blocks, wait_register, wait_fetch_sub,
       wait_check_stop, stop_check_unparked, stop_set_release, stop_recheck,
       stop_take_release, park_ok, park_err, err_check_unparked, err_set_release,
       err_recheck, err_take_release, post_cnt, wakeup_pop, wakeup_store,
       wakeup_wake, wakeup_take_release, wakeup_forward

(* For any number of waits and posts, of whom any may time out, be         *)
(* canceled or stop at any step: cnt is what was put in less what was      *)
(* taken out less the open slots, every permit is on its way to a waiter   *)
(* of its own, and the expect("got null blocker!") of wakeup_one holds.    *)
THEOREM PermitsSafe == Spec => []PermitsExact
<1>1. Init => SemInv /\ stopped \in BOOLEAN
  BY InitInv, Zenon DEF Init
<1>2. (SemInv /\ stopped \in BOOLEAN) /\ [Next]_vars
        => (SemInv /\ stopped \in BOOLEAN)'
  BY StepInv, StopStep, Zenon
<1>3. SemInv /\ stopped \in BOOLEAN => PermitsExact
  <2> SUFFICES ASSUME SemInv, stopped \in BOOLEAN PROVE PermitsExact
    OBVIOUS
  <2>1. TypeOK
    BY CntRange, Zenon DEF SemInv, Hand, Types, TypeOK
  <2> QED
    BY <2>1, NoNull, Zenon DEF SemInv, PermitsExact
<1> QED
  BY <1>1, <1>2, <1>3, PTL DEF Spec

-----------------------------------------------------------------------------
(* The abstract semaphore                                                  *)

(* A move posts, acquires, or leaves the value as it is; and a waiter that *)
(* accepts finds the value positive, because of the balance.               *)
LEMMA MovesImplement ==
  ASSUME SemInv, Moves
  PROVE  [Sem!Next]_value
<1> USE SemphoreAssumption, Counted DEF Sem!Next, Sem!Post, Sem!Acquire, value
<1>1. ASSUME UNCHANGED <<Acquired, Posted>> PROVE [Sem!Next]_value
  BY <1>1, Zenon
<1>2. ASSUME NEW c \in Waits, Take(c) PROVE Sem!Acquire
  BY <1>2, OneMore DEF Take, SemInv, CntExact
<1>3. ASSUME NEW c \in Waits, Accept(c) PROVE Sem!Acquire
  <2>1. Cardinality(Granted) > 0
    BY <1>3, OneLess, Zenon DEF Accept
  <2>2. value > 0
    BY <2>1 DEF SemInv, Hand, Types, CntExact, PermitBalance
  <2> QED
    BY <1>3, <2>2, OneMore DEF Accept
<1>4. ASSUME NEW c \in Posts, PutIn(c) PROVE Sem!Post
  BY <1>4, OneMore DEF PutIn
<1> HIDE DEF Sem!Post, Sem!Acquire, value
<1> QED
  BY <1>1, <1>2, <1>3, <1>4, Zenon DEF Moves, Stay, Enter, TakeBack, GiveBack,
     HandOver

(* "an integer whose value is never allowed to fall below zero": every wait*)
(* that returns with a permit takes one that was there or was posted.      *)
THEOREM SemaphoreRefinement == Spec => ImplementsSemaphore
<1>1. Init => Sem!Init
  <2> SUFFICES ASSUME Init PROVE value = Permits
    BY Zenon DEF Sem!Init
  <2>1. Acquired = {} /\ Posted = {}
    BY SemphoreAssumption, Zenon DEF Init, Calls, Acquired, Posted
  <2> QED
    BY <2>1, SemphoreAssumption, FS_EmptySet DEF value
<1>2. SemInv /\ [Next]_vars => [Sem!Next]_value
  BY StepMoves, MovesImplement, Zenon DEF SemInv
<1> QED
  BY <1>1, <1>2, InitInv, StepInv, PTL DEF Spec, ImplementsSemaphore, Sem!Spec
-----------------------------------------------------------------------------
(* A semaphore that is part of something else                              *)
(*                                                                         *)
(* A call stands for one use.  A caller that posts or waits again is the   *)
(* same call started anew, and what of the invariant does not count posts  *)
(* from the beginning is kept then too.                                    *)

HandOff == Hand /\ Reached /\ PermitBalance

\* no call is under way, and nothing was taken out
AtRest ==
  /\ cnt = Permits
  /\ to_wake = <<>>
  /\ unparked = [c \in Waits |-> FALSE]
  /\ release = [c \in Waits |-> FALSE]
  /\ token = [c \in Waits |-> FALSE]
  /\ pc = [c \in Calls |-> IF c \in Waits THEN "start" ELSE "posted"]
  /\ w = [c \in Calls |-> NoCall]
  /\ then = [c \in Calls |-> IF c \in Waits THEN "stop" ELSE "posted"]

LEMMA HandOffInit ==
  ASSUME AtRest
  PROVE  HandOff /\ Total = Permits - Cardinality(Posts)
<1> USE SemphoreAssumption DEF AtRest, Calls
<1>1. Hand
  <2>1. Types /\ Continues
    BY DEF Types, Continues
  <2>2. OnePlace /\ Pending /\ Flags
    BY DEF OnePlace, Carrying, Pending, Flags
  <2> QED
    BY <2>1, <2>2, Zenon DEF Hand
<1>2. Reached
  BY Zenon DEF Reached, Waiting, InWait
<1>3. Acquired = {} /\ Posted = Posts /\ Slots = {} /\ Carried = {} /\ Granted = {}
  BY Zenon DEF Acquired, Posted, Slots, Holds, Forwards, Carried, Granted
<1>4. Total = Permits - Cardinality(Posts)
  BY <1>3, FS_EmptySet, FS_CardinalityType DEF Total
<1>5. PermitBalance
  BY <1>3, FS_EmptySet DEF PermitBalance
<1> QED
  BY <1>1, <1>2, <1>4, <1>5, Zenon DEF HandOff

LEMMA HandOffStep ==
  ASSUME HandOff, [Next]_vars
  PROVE  HandOff' /\ Total' = Total
<1>1. Hand' /\ Reached' /\ Moves
  BY HandStep, ReachedStep, StepMoves, Zenon DEF HandOff
<1>2. cnt \in Int
  BY Zenon DEF HandOff, Hand, Types
<1> QED
  BY <1>1, <1>2, MovesBalance, MovesCount, Zenon DEF HandOff

LEMMA HandOffSame ==
  ASSUME HandOff, UNCHANGED semVars
  PROVE  HandOff' /\ Total' = Total
<1> USE DEF semVars
<1>0. Types /\ Continues /\ OnePlace /\ Pending /\ Flags
  BY Zenon DEF HandOff, Hand
<1>1. Hand'
  <2>1. Types' /\ Continues'
    BY <1>0, Zenon DEF Types, Continues
  <2>2. OnePlace'
    BY <1>0, Zenon DEF OnePlace
  <2>3. Pending'
    BY <1>0, Zenon DEF Pending, Waiting, InWait
  <2>4. Flags'
    BY <1>0, Zenon DEF Flags
  <2> QED
    BY <2>1, <2>2, <2>3, <2>4, Zenon DEF Hand
<1>2. Reached'
  BY Zenon DEF HandOff, Reached, InQueue, Popped, Waiting, InWait, semVars
<1>3. Stay
  BY Zenon DEF Stay, Acquired, Posted, Slots, Holds, Forwards, Carried, Granted,
     semVars
<1>4. PermitBalance'
  BY <1>3, Zenon DEF HandOff, PermitBalance, Stay
<1>5. Total' = Total
  BY <1>3, Zenon DEF Total, Stay
<1> QED
  BY <1>1, <1>2, <1>4, <1>5, Zenon DEF HandOff

\* c, done with one call, is at the start of the next
Again(c, from, to) ==
  /\ pc[c] = from
  /\ pc' = [pc EXCEPT ![c] = to]
  /\ UNCHANGED <<cnt, to_wake, unparked, release, token, w, then>>

LEMMA AgainKeeps ==
  ASSUME Hand, Reached, NEW c \in Calls,
         \/ c \in Posts /\ Again(c, "posted", "post")
         \/ c \in Waits /\ Again(c, "refused", "start")
  PROVE  /\ Hand' /\ Reached'
         /\ UNCHANGED <<cnt, Acquired, Slots, Carried, Granted>>
<1>0. Types /\ Continues /\ OnePlace /\ Pending /\ Flags
  BY Zenon DEF Hand
<1>1. \A x \in Calls : x # c => pc'[x] = pc[x]
  BY <1>0, Zenon DEF Again, Types
<1>2. \/ /\ c \in Posts /\ c \notin Waits /\ then[c] = "posted"
         /\ pc[c] = "posted" /\ pc'[c] = "post"
      \/ /\ c \in Waits /\ c \notin Posts
         /\ pc[c] = "refused" /\ pc'[c] = "start"
  BY <1>0, SemphoreAssumption, Zenon DEF Again, Types, Continues
<1>3. UNCHANGED <<cnt, to_wake, unparked, release, token, w, then>>
  BY Zenon DEF Again
<1>4. Types'
  BY <1>0, <1>3, Zenon DEF Again, Types
<1>5. Continues'
  BY <1>0, <1>1, <1>2, <1>3, Zenon DEF Continues, Calls
<1>6. OnePlace'
  BY <1>0, <1>1, <1>2, <1>3, Zenon DEF OnePlace, Carrying
<1>7. \A x \in Waits : Waiting(x)' <=> Waiting(x)
  BY <1>1, <1>2, <1>3, Zenon DEF Waiting, InWait, Calls
<1>8. \A d \in Calls : pc'[d] = "store" <=> pc[d] = "store"
  BY <1>1, <1>2, Zenon
<1>9. Pending'
  <2>1. \A i \in 1..Len(to_wake) : to_wake[i] \in Waits
    BY <1>0 DEF Types
  <2>2. \A d \in Calls : pc[d] = "store" => w[d] \in Waits
    BY <1>0, Zenon DEF Types, OnePlace, Carrying
  <2> QED
    BY <1>0, <1>3, <1>7, <1>8, <2>1, <2>2, Zenon DEF Pending
<1>10. Flags'
  <2>1. \A d \in Calls : pc[d] \in {"wake", "take", "fwd"} => w[d] \in Waits
    BY <1>0, Zenon DEF Types, OnePlace, Carrying
  <2>2. \A x \in Waits : pc'[x] \in Raised <=> pc[x] \in Raised
    BY <1>1, <1>2, Zenon DEF Raised, Calls
  <2>3. \A x \in Waits : pc'[x] \in {"start", "push", "refused"}
                         <=> pc[x] \in {"start", "push", "refused"}
    BY <1>1, <1>2, Zenon DEF Calls
  <2>4. \A x \in Waits : pc'[x] \in {"stake", "takeown"}
                         <=> pc[x] \in {"stake", "takeown"}
    BY <1>1, <1>2, Zenon DEF Calls
  <2>5. \A d \in Calls : /\ pc'[d] \in {"wake", "take", "fwd"}
                             <=> pc[d] \in {"wake", "take", "fwd"}
                         /\ pc'[d] = "fwd" <=> pc[d] = "fwd"
    BY <1>1, <1>2, Zenon
  <2> QED
    BY <1>0, <1>3, <2>1, <2>2, <2>3, <2>4, <2>5 DEF Flags
<1>11. Reached'
  BY <1>3, <1>7, <1>8, Zenon DEF Reached, InQueue, Popped
<1>12. Acquired' = Acquired
  BY <1>1, <1>2, Zenon DEF Acquired, Calls
<1>13. Slots' = Slots
  BY <1>1, <1>2, <1>3, Zenon DEF Slots, Holds, Forwards, Calls
<1>14. Carried' = Carried
  BY <1>1, <1>2, <1>3, Zenon DEF Carried
<1>15. Granted' = Granted
  BY <1>1, <1>2, <1>3, Zenon DEF Granted, Calls
<1> QED
  BY <1>3, <1>4, <1>5, <1>6, <1>9, <1>10, <1>11, <1>12, <1>13, <1>14, <1>15, Zenon
  DEF Hand

LEMMA PostAgain ==
  ASSUME HandOff, NEW c \in Posts, Again(c, "posted", "post")
  PROVE  HandOff' /\ Total' = Total + 1
<1>1. /\ Hand' /\ Reached'
      /\ UNCHANGED <<cnt, Acquired, Slots, Carried, Granted>>
  BY AgainKeeps, Zenon DEF HandOff, Calls
<1>2. Loses(Posted, Posted', c)
  BY Zenon DEF HandOff, Hand, Types, Again, Posted, Loses, Calls
<1>3. cnt \in Int
  BY Zenon DEF HandOff, Hand, Types
<1>4. Total' = Total + 1
  BY <1>1, <1>2, <1>3, OneLess, Counted DEF Total
<1>5. PermitBalance'
  BY <1>1, Zenon DEF HandOff, PermitBalance
<1> QED
  BY <1>1, <1>4, <1>5, Zenon DEF HandOff

LEMMA WaitAgain ==
  ASSUME HandOff, NEW c \in Waits, Again(c, "refused", "start")
  PROVE  HandOff' /\ Total' = Total
<1>1. /\ Hand' /\ Reached'
      /\ UNCHANGED <<cnt, Acquired, Slots, Carried, Granted>>
  BY AgainKeeps, Zenon DEF HandOff, Calls
<1>2. Posted' = Posted
  BY SemphoreAssumption, Zenon DEF HandOff, Hand, Types, Again, Posted, Calls
<1>3. Total' = Total
  BY <1>1, <1>2, Zenon DEF Total
<1>4. PermitBalance'
  BY <1>1, Zenon DEF HandOff, PermitBalance
<1> QED
  BY <1>1, <1>3, <1>4, Zenon DEF HandOff
=============================================================================
