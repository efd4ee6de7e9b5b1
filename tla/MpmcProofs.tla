----------------------------- MODULE MpmcProofs -----------------------------
(***************************************************************************)
(* The mpmc channel for any number of senders, receivers and sends: every  *)
(* permit of its semaphore has a queued value, and Disconnected is final.  *)
(*                                                                         *)
(* The semaphore is not proved again.  Its lemmas hold for the instance the*)
(* channel makes of it, and the channel's invariant is about what goes     *)
(* between the two: the port counters, where each handle is in its call,   *)
(* and the number of permits against the number of values.                 *)
(***************************************************************************)
EXTENDS Mpmc, FiniteSetTheorems, TLAPS

Places == {"unborn", "idle", "push", "post", "drain", "drain_post",
           "try", "load", "wait", "pop", "noitem", "ok", "empty",
           "disc", "timeout", "clear", "gone"}

\* where a call of the semaphore can be
Pcs == {"start", "push", "sub", "stop", "park", "check", "setrel",
        "recheck", "takeown", "schk", "sset", "srechk", "stake",
        "post", "pop", "store", "wake", "take", "fwd",
        "acquired", "refused", "stopped", "left", "posted"}

\* the pcs of a wait that has seen its stop predicate true
Stopping == {"schk", "sset", "srechk", "stake", "stopped"}

\* h counts as a sender, or as a receiver
IsTx(h) == h \in Senders /\ at[h] \in {"idle", "push", "post"}
IsRx(h) == h \in Receivers /\ at[h] \notin {"unborn", "clear", "gone"}

\* h took a permit and has been to the queue with it
HasPopped(h) == h \in Receivers /\ pc[h] = "acquired" /\ at[h] \notin {"wait", "pop"}

OpenTx == {h \in Handles : IsTx(h)}
OpenRx == {h \in Handles : IsRx(h)}
Popped == {h \in Handles : HasPopped(h)}

\* where a handle is in the channel, against its semaphore call and the ports
Placed(h) ==
  /\ h \in Senders =>
        /\ at[h] \in {"unborn", "idle", "push", "post", "drain", "drain_post", "gone"}
        /\ at[h] \notin {"post", "drain_post"} => pc[h] = "posted"
        /\ at[h] \in {"drain", "drain_post"} => tx_ports = 0
  /\ h \in Receivers =>
        /\ at[h] \notin {"push", "post", "drain", "drain_post", "try"}
        /\ at[h] = "load" => pc[h] = "refused"
        /\ at[h] = "pop" => pc[h] = "acquired"
        /\ at[h] \in {"noitem", "disc"} => tx_ports = 0
        /\ pc[h] \in Stopping => tx_ports = 0
        /\ at[h] = "clear" => rx_ports = 0

Types ==
  /\ queue \in Seq(Senders)
  /\ at \in [Handles -> Places]
  /\ sends \in [Senders -> 0..MaxSends]

Ports == tx_ports = Cardinality(OpenTx) /\ rx_ports = Cardinality(OpenRx)

\* What the semaphore tells the channel: the types of its state, and that no
\* slot is without a permit that is there or on its way.
SemFacts ==
  /\ cnt \in Int /\ to_wake \in Seq(Receivers)
  /\ pc \in [Handles -> Pcs]
  /\ then \in [Handles -> {"stop", "left", "posted"}]
  /\ cnt + Cardinality(Sem!Slots) >= 0

\* the counter, and what stands against what was put in
Total == cnt + Cardinality(Sem!Acquired) + Cardinality(Sem!Slots)
             - Cardinality(Sem!Posted)

\* A sender that is not posting counts as one permit put in, so an open
\* channel at rest has the Total at minus the senders; a value pushed and a
\* post begun raise both sides together.
Items ==
  tx_ports > 0 /\ rx_ports > 0 =>
      Total = Len(queue) + Cardinality(Popped) - Cardinality(Senders)

Chan == Types /\ Ports /\ Items /\ \A h \in Handles : Placed(h)

-----------------------------------------------------------------------------
(* Steps in the semaphore                                                  *)

\* h makes a step of sem.wait_timeout_until, sem.try_wait or sem.post
Uses(h) ==
  \/ /\ h \in Receivers
     /\ \/ Sem!try_wait(h) \/ Sem!try_wait_refused(h) \/ Sem!wait_blocks(h)
        \/ Sem!Wait(h) \/ Sem!park_err(h)
  \/ Sem!post_cnt(h) \/ Sem!Wakeup(h)

(* A step in the semaphore moves its caller only, and a receiver starts to *)
(* stop only when it has seen tx_ports = 0.                                *)
LEMMA UsesMoves ==
  ASSUME SemFacts, NEW h \in Handles, Uses(h)
  PROVE  /\ \A x \in Handles : x # h => pc'[x] = pc[x]
         /\ pc'[h] \in Stopping => pc[h] \in Stopping \/ tx_ports = 0
<1>0. pc \in [Handles -> Pcs] /\ then[h] \in {"stop", "left", "posted"}
  BY Zenon DEF SemFacts
<1> DEFINE Goal == /\ \A x \in Handles : x # h => pc'[x] = pc[x]
                   /\ pc'[h] \in Stopping => pc[h] \in Stopping \/ tx_ports = 0
<1>1. ASSUME NEW from, NEW to, Sem!Step(h, from, to),
             to \in Stopping => from \in Stopping \/ tx_ports = 0
      PROVE  Goal
  BY <1>0, <1>1, Zenon DEF Sem!Step
<1> USE <1>0, <1>1 DEF Stopping
<1>2. Sem!try_wait(h) => Goal
  BY Zenon DEF Sem!try_wait
<1>3. Sem!try_wait_refused(h) => Goal
  BY Zenon DEF Sem!try_wait_refused
<1>4. Sem!wait_blocks(h) => Goal
  BY Zenon DEF Sem!wait_blocks
<1>5. Sem!wait_register(h) => Goal
  BY Zenon DEF Sem!wait_register
<1>6. Sem!wait_fetch_sub(h) => Goal
  BY Zenon DEF Sem!wait_fetch_sub
<1>7. Sem!wait_check_stop(h) => Goal
  BY Zenon DEF Sem!wait_check_stop
<1>8. Sem!stop_check_unparked(h) => Goal
  BY Zenon DEF Sem!stop_check_unparked
<1>9. Sem!stop_set_release(h) => Goal
  BY Zenon DEF Sem!stop_set_release
<1>10. Sem!stop_recheck(h) => Goal
  BY Zenon DEF Sem!stop_recheck
<1>11. Sem!stop_take_release(h) => Goal
  BY Zenon DEF Sem!stop_take_release
<1>12. Sem!park_ok(h) => Goal
  BY Zenon DEF Sem!park_ok
<1>13. Sem!park_err(h) => Goal
  BY Zenon DEF Sem!park_err
<1>14. Sem!err_check_unparked(h) => Goal
  BY Zenon DEF Sem!err_check_unparked
<1>15. Sem!err_set_release(h) => Goal
  BY Zenon DEF Sem!err_set_release
<1>16. Sem!err_recheck(h) => Goal
  BY Zenon DEF Sem!err_recheck
<1>17. Sem!err_take_release(h) => Goal
  BY Zenon DEF Sem!err_take_release
<1>18. Sem!post_cnt(h) => Goal
  BY Zenon DEF Sem!post_cnt
<1>19. Sem!wakeup_pop(h) => Goal
  BY Zenon DEF Sem!wakeup_pop
<1>20. Sem!wakeup_store(h) => Goal
  BY Zenon DEF Sem!wakeup_store
<1>21. Sem!wakeup_wake(h) => Goal
  BY Zenon DEF Sem!wakeup_wake
<1>22. Sem!wakeup_take_release(h) => Goal
  BY Zenon DEF Sem!wakeup_take_release
<1>23. Sem!wakeup_forward(h) => Goal
  BY Zenon DEF Sem!wakeup_forward
<1> QED
  BY <1>2, <1>3, <1>4, <1>5, <1>6, <1>7, <1>8, <1>9, <1>10, <1>11, <1>12,
     <1>13, <1>14, <1>15, <1>16, <1>17, <1>18, <1>19, <1>20, <1>21, <1>22,
     <1>23,
     Zenon DEF Uses, Sem!Wait, Sem!Wakeup
-----------------------------------------------------------------------------
(* Counting handles                                                        *)

LEMMA Finite ==
  /\ IsFiniteSet(OpenTx) /\ Cardinality(OpenTx) \in Nat
  /\ IsFiniteSet(OpenRx) /\ Cardinality(OpenRx) \in Nat
  /\ IsFiniteSet(Popped) /\ Cardinality(Popped) \in Nat
  /\ Cardinality(Senders) \in Nat /\ Cardinality(Receivers) \in Nat
<1>1. IsFiniteSet(Handles)
  BY MpmcAssumption, FS_Union, Zenon DEF Handles
<1>2. OpenTx \in SUBSET Handles /\ OpenRx \in SUBSET Handles /\ Popped \in SUBSET Handles
  BY Zenon DEF OpenTx, OpenRx, Popped
<1> QED
  BY <1>1, <1>2, MpmcAssumption, FS_Subset, FS_CardinalityType, Zenon

LEMMA OneIn ==
  ASSUME NEW S, IsFiniteSet(S), NEW x \in S
  PROVE  Cardinality(S) > 0
<1>1. Cardinality(S) \in Nat /\ Cardinality(S) # 0
  BY FS_CardinalityType, FS_EmptySet, Zenon
<1> QED
  BY <1>1

(* All that the semaphore counts is finite.                                *)
LEMMA SemFinite ==
  /\ IsFiniteSet(Sem!Acquired) /\ Cardinality(Sem!Acquired) \in Nat
  /\ IsFiniteSet(Sem!Posted) /\ Cardinality(Sem!Posted) \in Nat
  /\ IsFiniteSet(Sem!Slots) /\ Cardinality(Sem!Slots) \in Nat
  /\ Cardinality(Sem!Posted) <= Cardinality(Senders)
<1>1. /\ Sem!Acquired \in SUBSET Receivers /\ Sem!Slots \in SUBSET Receivers
      /\ Sem!Posted \in SUBSET Senders
  BY Zenon DEF Sem!Acquired, Sem!Slots, Sem!Posted
<1> QED
  BY <1>1, MpmcAssumption, FS_Subset, FS_CardinalityType, Zenon

LEMMA TotalInt == SemFacts => Total \in Int
BY SemFinite DEF SemFacts, Total

-----------------------------------------------------------------------------
(* Steps of one handle                                                     *)

\* all but h stay where they are
Elsewhere(h) == \A x \in Handles : x # h => at'[x] = at[x] /\ pc'[x] = pc[x]

LEMMA PlacedStep ==
  ASSUME NEW h \in Handles, Elsewhere(h), \A x \in Handles : Placed(x), Placed(h)',
         tx_ports = 0 => tx_ports' = 0, rx_ports = 0 => rx_ports' = 0
  PROVE  \A x \in Handles : Placed(x)'
<1> SUFFICES ASSUME NEW x \in Handles, x # h PROVE Placed(x)'
  BY Zenon
<1>1. at'[x] = at[x] /\ pc'[x] = pc[x] /\ Placed(x)
  BY Zenon DEF Elsewhere
<1> QED
  BY <1>1, Zenon DEF Placed

LEMMA TxSame ==
  ASSUME NEW h \in Handles, Elsewhere(h), IsTx(h)' <=> IsTx(h)
  PROVE  OpenTx' = OpenTx
BY Zenon DEF OpenTx, Elsewhere, IsTx

LEMMA RxSame ==
  ASSUME NEW h \in Handles, Elsewhere(h), IsRx(h)' <=> IsRx(h)
  PROVE  OpenRx' = OpenRx
BY Zenon DEF OpenRx, Elsewhere, IsRx

LEMMA PoppedSame ==
  ASSUME NEW h \in Handles, Elsewhere(h), HasPopped(h)' <=> HasPopped(h)
  PROVE  Popped' = Popped
BY Zenon DEF Popped, Elsewhere, HasPopped

\* h goes on in a call, neither opening nor closing its end
Inside(h) ==
  /\ Elsewhere(h)
  /\ Placed(h)'
  /\ IsTx(h)' <=> IsTx(h)
  /\ IsRx(h)' <=> IsRx(h)
  /\ UNCHANGED <<tx_ports, rx_ports>>

LEMMA InsideKeeps ==
  ASSUME Chan, NEW h \in Handles, Inside(h)
  PROVE  Ports' /\ \A x \in Handles : Placed(x)'
<1>1. OpenTx' = OpenTx /\ OpenRx' = OpenRx
  BY TxSame, RxSame, Zenon DEF Inside
<1>2. \A x \in Handles : Placed(x)'
  BY PlacedStep, Zenon DEF Inside, Chan
<1> QED
  BY <1>1, <1>2, Zenon DEF Ports, Chan, Inside

(* A step in a call that pushes and pops nothing.                          *)
LEMMA QuietKeeps ==
  ASSUME Chan, NEW h \in Handles, Inside(h), HasPopped(h)' <=> HasPopped(h), Types',
         queue' = queue, Total' = Total
  PROVE  Chan'
<1>1. Popped' = Popped
  BY PoppedSame, Zenon DEF Inside
<1>2. Items'
  BY <1>1, Zenon DEF Inside, Chan, Items
<1> QED
  BY <1>2, InsideKeeps, Zenon DEF Chan

\* h moves in the channel, and if at all then it alone in the semaphore
Goes(h, from, to) ==
  /\ at[h] = from /\ at'[h] = to
  /\ at' \in [Handles -> Places]
  /\ Elsewhere(h)

LEMMA GoGoes ==
  ASSUME Chan, NEW h \in Handles, NEW from, NEW to \in Places, Go(h, from, to),
         \A x \in Handles : x # h => pc'[x] = pc[x]
  PROVE  Goes(h, from, to)
BY Zenon DEF Chan, Types, Go, Goes, Elsewhere

(* Whoever is not a receiver is a sender.                                  *)
LEMMA Sides ==
  /\ \A s \in Senders : s \in Handles /\ s \notin Receivers
  /\ \A r \in Receivers : r \in Handles /\ r \notin Senders
BY MpmcAssumption, Zenon DEF Handles

-----------------------------------------------------------------------------
(* Senders                                                                 *)

(* send looks at rx_ports.                                                 *)
LEMMA SendCheckKeeps ==
  ASSUME Chan, NEW s \in Senders, send_check(s), Total' = Total
  PROVE  Chan'
<1>0. /\ Chan /\ Placed(s) /\ s \in Handles /\ pc' = pc /\ queue' = queue
      /\ UNCHANGED <<tx_ports, rx_ports>>
  BY Sides, Zenon DEF Chan, send_check, semVars
<1>1. Goes(s, "idle", IF rx_ports = 0 THEN "idle" ELSE "push")
  BY <1>0, GoGoes, Zenon DEF send_check, Places
<1>2. Types'
  BY <1>0, <1>1, MpmcAssumption DEF send_check, Goes, Types, Chan
<1>3. Inside(s) /\ (HasPopped(s)' <=> HasPopped(s))
  BY <1>0, <1>1, Sides, Zenon DEF send_check, Inside, Goes, Placed, IsTx, IsRx, HasPopped
<1> QED
  BY <1>0, <1>2, <1>3, QuietKeeps, Zenon

(* send returns from sem.post().                                           *)
LEMMA SendReturnKeeps ==
  ASSUME Chan, NEW s \in Senders, send_return(s), Total' = Total
  PROVE  Chan'
<1>0. /\ Chan /\ Placed(s) /\ s \in Handles /\ pc' = pc /\ queue' = queue
      /\ UNCHANGED <<tx_ports, rx_ports>>
  BY Sides, Zenon DEF Chan, send_return, semVars
<1>1. Goes(s, "post", "idle")
  BY <1>0, GoGoes, Zenon DEF send_return, Places
<1>2. Types'
  BY <1>0, <1>1, Zenon DEF send_return, Goes, Types, Chan
<1>3. Inside(s) /\ (HasPopped(s)' <=> HasPopped(s))
  BY <1>0, <1>1, Sides, Zenon DEF send_return, Inside, Goes, Placed, IsTx, IsRx, HasPopped
<1> QED
  BY <1>0, <1>2, <1>3, QuietKeeps, Zenon

(* The last sender has found no waiter.                                    *)
LEMMA DrainEndKeeps ==
  ASSUME Chan, NEW s \in Senders, drain_end(s), Total' = Total
  PROVE  Chan'
<1>0. /\ Chan /\ Placed(s) /\ s \in Handles /\ pc' = pc /\ queue' = queue
      /\ UNCHANGED <<tx_ports, rx_ports>>
  BY Sides, Zenon DEF Chan, drain_end, semVars
<1>1. Goes(s, "drain", "gone")
  BY <1>0, GoGoes, Zenon DEF drain_end, Places
<1>2. Types'
  BY <1>0, <1>1, Zenon DEF drain_end, Goes, Types, Chan
<1>3. Inside(s) /\ (HasPopped(s)' <=> HasPopped(s))
  BY <1>0, <1>1, Sides, Zenon DEF drain_end, Inside, Goes, Placed, IsTx, IsRx, HasPopped
<1> QED
  BY <1>0, <1>2, <1>3, QuietKeeps, Zenon

(* The last sender looks for another waiter.                               *)
LEMMA DrainPostedKeeps ==
  ASSUME Chan, NEW s \in Senders, drain_posted(s), Total' = Total
  PROVE  Chan'
<1>0. /\ Chan /\ Placed(s) /\ s \in Handles /\ pc' = pc /\ queue' = queue
      /\ UNCHANGED <<tx_ports, rx_ports>>
  BY Sides, Zenon DEF Chan, drain_posted, semVars
<1>1. Goes(s, "drain_post", "drain")
  BY <1>0, GoGoes, Zenon DEF drain_posted, Places
<1>2. Types'
  BY <1>0, <1>1, Zenon DEF drain_posted, Goes, Types, Chan
<1>3. Inside(s) /\ (HasPopped(s)' <=> HasPopped(s))
  BY <1>0, <1>1, Sides, Zenon DEF drain_posted, Inside, Goes, Placed, IsTx, IsRx, HasPopped
<1> QED
  BY <1>0, <1>2, <1>3, QuietKeeps, Zenon

(* A value pushed, and the post that stands for it.                        *)
LEMMA SendPushKeeps ==
  ASSUME SemFacts, Chan, NEW s \in Senders, send_push(s), Total' = Total + 1
  PROVE  Chan'
<1>0. /\ Chan /\ Placed(s) /\ s \in Handles
      /\ pc \in [Handles -> Pcs]
      /\ UNCHANGED <<tx_ports, rx_ports>>
  BY Sides, Zenon DEF Chan, SemFacts, send_push
<1>1. pc[s] = "posted" /\ \A x \in Handles : x # s => pc'[x] = pc[x]
  BY <1>0, Zenon DEF Placed, send_push, Go, Enter
<1>3. Goes(s, "push", "post")
  BY <1>0, <1>1, GoGoes, Zenon DEF send_push, Places
<1>4. Types' /\ Len(queue') = Len(queue) + 1
  BY <1>0, <1>3 DEF send_push, Goes, Types, Chan
<1>5. Inside(s) /\ (HasPopped(s)' <=> HasPopped(s))
  BY <1>0, <1>3, Sides, Zenon DEF Inside, Goes, Placed, IsTx, IsRx, HasPopped
<1>6. Popped' = Popped /\ Ports' /\ \A x \in Handles : Placed(x)'
  BY <1>0, <1>5, PoppedSame, InsideKeeps, Zenon DEF Inside
<1>7. Len(queue) \in Nat /\ Total \in Int
  BY <1>0, TotalInt DEF Chan, SemFacts, Types
<1>8. Items'
  BY <1>0, <1>4, <1>6, <1>7, Finite DEF Chan, Items
<1> QED
  BY <1>4, <1>6, <1>8, Zenon DEF Chan

(* The steps of sem.post().                                                *)
LEMMA PostStepKeeps ==
  ASSUME SemFacts, Chan, NEW s \in Senders, post_step(s), Total' = Total
  PROVE  Chan'
<1>0. /\ Chan /\ Placed(s) /\ s \in Handles /\ Uses(s)
      /\ at' = at /\ UNCHANGED <<queue, tx_ports, rx_ports, sends>>
  BY Sides, Zenon DEF Chan, SemFacts, post_step, Uses, chanVars
<1>1. Elsewhere(s)
  BY <1>0, UsesMoves, Zenon DEF Elsewhere
<1>2. Types'
  BY <1>0, Zenon DEF Types, Chan
<1>3. Inside(s) /\ (HasPopped(s)' <=> HasPopped(s))
  BY <1>0, <1>1, Sides, Zenon DEF post_step, Inside, Placed, IsTx, IsRx, HasPopped
<1> QED
  BY <1>0, <1>1, <1>2, <1>3, QuietKeeps, Zenon

(* The last sender posts, without a value, for a waiter it has seen.       *)
LEMMA DrainWaitersKeeps ==
  ASSUME SemFacts, Chan, NEW s \in Senders, drain_waiters(s)
  PROVE  Chan'
<1>0. /\ Chan /\ Placed(s) /\ s \in Handles
      /\ pc \in [Handles -> Pcs]
      /\ UNCHANGED <<queue, tx_ports, rx_ports, sends>>
  BY Sides, Zenon DEF Chan, SemFacts, drain_waiters
<1>1. /\ pc[s] = "posted" /\ tx_ports = 0
      /\ \A x \in Handles : x # s => pc'[x] = pc[x]
  BY <1>0, Zenon DEF Placed, drain_waiters, Go, Enter
<1>3. Goes(s, "drain", "drain_post")
  BY <1>0, <1>1, GoGoes, Zenon DEF drain_waiters, Places
<1>4. Types'
  BY <1>0, <1>3, Zenon DEF Goes, Types, Chan
<1>5. Inside(s)
  BY <1>0, <1>1, <1>3, Sides, Zenon DEF Inside, Goes, Placed, IsTx, IsRx
<1>6. Items'
  BY <1>0, <1>1 DEF Items
<1> QED
  BY <1>0, <1>4, <1>5, <1>6, InsideKeeps, Zenon DEF Chan

-----------------------------------------------------------------------------
(* Receivers                                                               *)

(* try_recv tells Disconnected from Empty.                                 *)
LEMMA TryRecvLoadKeeps ==
  ASSUME Chan, NEW r \in Receivers, try_recv_load(r), Total' = Total
  PROVE  Chan'
<1>0. /\ Chan /\ Placed(r) /\ r \in Handles /\ pc' = pc /\ queue' = queue
      /\ UNCHANGED <<tx_ports, rx_ports>>
  BY Sides, Zenon DEF Chan, try_recv_load, semVars
<1>1. Goes(r, "load", IF tx_ports = 0 THEN "disc" ELSE "empty")
  BY <1>0, GoGoes, Zenon DEF try_recv_load, Places
<1>2. Types'
  BY <1>0, <1>1, Zenon DEF try_recv_load, Goes, Types, Chan
<1>3. Inside(r) /\ (HasPopped(r)' <=> HasPopped(r))
  BY <1>0, <1>1, Sides, Zenon DEF try_recv_load, Inside, Goes, Placed, IsTx, IsRx, HasPopped
<1> QED
  BY <1>0, <1>2, <1>3, QuietKeeps, Zenon

(* A receiver woken for the disconnect.                                    *)
LEMMA PopNoneKeeps ==
  ASSUME Chan, NEW r \in Receivers, pop_none(r), Total' = Total
  PROVE  Chan'
<1>0. /\ Chan /\ Placed(r) /\ r \in Handles /\ pc' = pc /\ queue' = queue
      /\ UNCHANGED <<tx_ports, rx_ports>>
  BY Sides, Zenon DEF Chan, pop_none, semVars
<1>1. Goes(r, "noitem", "disc")
  BY <1>0, GoGoes, Zenon DEF pop_none, Places
<1>2. Types'
  BY <1>0, <1>1, Zenon DEF pop_none, Goes, Types, Chan
<1>3. Inside(r) /\ (HasPopped(r)' <=> HasPopped(r))
  BY <1>0, <1>1, Sides, Zenon DEF pop_none, Inside, Goes, Placed, IsTx, IsRx, HasPopped
<1> QED
  BY <1>0, <1>2, <1>3, QuietKeeps, Zenon

(* try_recv takes a permit.                                                *)
LEMMA TryRecvKeeps ==
  ASSUME SemFacts, Chan, NEW r \in Receivers, try_recv(r), Total' = Total
  PROVE  Chan'
<1>0. /\ Chan /\ Placed(r) /\ r \in Handles /\ Uses(r)
      /\ UNCHANGED <<queue, tx_ports, rx_ports, sends>>
  BY Sides, Zenon DEF Chan, SemFacts, try_recv, Uses
<1>1. \A x \in Handles : x # r => pc'[x] = pc[x]
  BY <1>0, UsesMoves, Zenon
<1>2. Goes(r, "idle", "pop")
  BY <1>0, <1>1, GoGoes, Zenon DEF try_recv, Places
<1>3. pc[r] = "start" /\ pc'[r] = "acquired"
  BY <1>0, Zenon DEF SemFacts, try_recv, Sem!try_wait, Sem!Step
<1>4. Types'
  BY <1>0, <1>2, Zenon DEF Goes, Types, Chan
<1>5. Inside(r) /\ (HasPopped(r)' <=> HasPopped(r))
  BY <1>0, <1>2, <1>3, Sides, Zenon
     DEF Inside, Goes, Placed, IsTx, IsRx, HasPopped, Stopping
<1> QED
  BY <1>0, <1>1, <1>4, <1>5, QuietKeeps, Zenon

(* try_recv finds none.                                                    *)
LEMMA TryRecvRefusedKeeps ==
  ASSUME SemFacts, Chan, NEW r \in Receivers, try_recv_refused(r), Total' = Total
  PROVE  Chan'
<1>0. /\ Chan /\ Placed(r) /\ r \in Handles /\ Uses(r)
      /\ UNCHANGED <<queue, tx_ports, rx_ports, sends>>
  BY Sides, Zenon DEF Chan, SemFacts, try_recv_refused, Uses
<1>1. \A x \in Handles : x # r => pc'[x] = pc[x]
  BY <1>0, UsesMoves, Zenon
<1>2. Goes(r, "idle", "load")
  BY <1>0, <1>1, GoGoes, Zenon DEF try_recv_refused, Places
<1>3. pc[r] = "start" /\ pc'[r] = "refused"
  BY <1>0, Zenon DEF SemFacts, try_recv_refused, Sem!try_wait_refused, Sem!Step
<1>4. Types'
  BY <1>0, <1>2, Zenon DEF Goes, Types, Chan
<1>5. Inside(r) /\ (HasPopped(r)' <=> HasPopped(r))
  BY <1>0, <1>2, <1>3, Sides, Zenon
     DEF Inside, Goes, Placed, IsTx, IsRx, HasPopped, Stopping
<1> QED
  BY <1>0, <1>1, <1>4, <1>5, QuietKeeps, Zenon

(* The steps of sem.wait_timeout_until().                                  *)
LEMMA WaitStepKeeps ==
  ASSUME SemFacts, Chan, NEW r \in Receivers, wait_step(r) \/ wait_err(r),
         Total' = Total
  PROVE  Chan'
<1>0. /\ Chan /\ Placed(r) /\ r \in Handles /\ Uses(r)
      /\ at[r] = "wait" /\ at' = at /\ UNCHANGED <<queue, tx_ports, rx_ports, sends>>
  BY Sides, Zenon DEF Chan, SemFacts, wait_step, wait_err, Uses, chanVars
<1>1. /\ Elsewhere(r)
      /\ pc'[r] \in Stopping => pc[r] \in Stopping \/ tx_ports = 0
  BY <1>0, UsesMoves, Zenon DEF Elsewhere
<1>2. Types'
  BY <1>0, Zenon DEF Types, Chan
<1>3. Inside(r) /\ (HasPopped(r)' <=> HasPopped(r))
  BY <1>0, <1>1, Sides, Zenon DEF Inside, Placed, IsTx, IsRx, HasPopped
<1> QED
  BY <1>0, <1>1, <1>2, <1>3, QuietKeeps, Zenon

(* The wait returns: with a permit it goes to the queue.                   *)
LEMMA WaitReturnKeeps ==
  ASSUME Chan, NEW r \in Receivers, wait_return(r), Total' = Total
  PROVE  Chan'
<1>0. /\ Chan /\ Placed(r) /\ r \in Handles /\ pc' = pc
      /\ UNCHANGED <<queue, tx_ports, rx_ports, sends>>
  BY Sides, Zenon DEF Chan, wait_return, semVars
<1>1. PICK to \in {"pop", "disc", "timeout"} :
         /\ Goes(r, "wait", to)
         /\ to = "pop" <=> pc[r] = "acquired"
         /\ to = "disc" => pc[r] = "stopped"
  BY <1>0, GoGoes, Zenon DEF wait_return, Places
<1>2. Types'
  BY <1>0, <1>1, Zenon DEF Goes, Types, Chan
<1>3. Inside(r) /\ (HasPopped(r)' <=> HasPopped(r))
  BY <1>0, <1>1, Sides, Zenon
     DEF Inside, Goes, Placed, IsTx, IsRx, HasPopped, Stopping
<1> QED
  BY <1>0, <1>2, <1>3, QuietKeeps, Zenon

(* recv, refused a permit, goes to wait for one.                           *)
LEMMA RecvLoadKeeps ==
  ASSUME SemFacts, Chan, NEW r \in Receivers, recv_load(r), Total' = Total
  PROVE  Chan'
<1>0. /\ Chan /\ Placed(r) /\ r \in Handles
      /\ pc \in [Handles -> Pcs]
      /\ UNCHANGED <<queue, tx_ports, rx_ports, sends>>
  BY Sides, Zenon DEF Chan, SemFacts, recv_load
<1>1. pc[r] = "refused" /\ \A x \in Handles : x # r => pc'[x] = pc[x]
  BY <1>0, Zenon DEF Placed, recv_load, Go, Enter
<1>2. pc'[r] \in {"refused", "start"}
  BY <1>0, Zenon DEF recv_load, Enter
<1>3. Goes(r, "load", IF tx_ports = 0 THEN "disc" ELSE "wait")
  BY <1>0, <1>1, GoGoes, Zenon DEF recv_load, Places
<1>4. Types'
  BY <1>0, <1>3, Zenon DEF Goes, Types, Chan
<1>5. Inside(r) /\ (HasPopped(r)' <=> HasPopped(r))
  BY <1>0, <1>1, <1>2, <1>3, Sides, Zenon
     DEF Inside, Goes, Placed, IsTx, IsRx, HasPopped, Stopping
<1> QED
  BY <1>0, <1>2, <1>4, <1>5, QuietKeeps, Zenon

-----------------------------------------------------------------------------
(* The queue                                                               *)

(* A receiver with a permit finds a value while there is a sender: the     *)
(* permits taken and not yet used are at most the values.                  *)
LEMMA ItemThere ==
  ASSUME SemFacts, Chan, NEW r \in Receivers, at[r] = "pop", tx_ports > 0
  PROVE  Len(queue) > 0
<1>0. /\ Chan /\ Placed(r) /\ r \in Handles /\ cnt \in Int
  BY Sides, Zenon DEF Chan, SemFacts
<1>1. rx_ports > 0
  <2>1. r \in OpenRx
    BY <1>0, Zenon DEF OpenRx, IsRx
  <2> QED
    BY <1>0, <2>1, OneIn, Finite, Zenon DEF Chan, Ports
<1>4. cnt \in Int /\ cnt + Cardinality(Sem!Slots) >= 0
  BY Zenon DEF SemFacts
<1>5. Cardinality(Sem!Acquired) > Cardinality(Popped)
  <2>1. r \notin Popped /\ Popped \cup {r} \in SUBSET Sem!Acquired
    BY <1>0, Zenon DEF Placed, Popped, HasPopped, Sem!Acquired
  <2>2. Cardinality(Popped \cup {r}) = Cardinality(Popped) + 1
    BY <2>1, Finite, FS_AddElement, Zenon
  <2>3. Cardinality(Popped \cup {r}) <= Cardinality(Sem!Acquired)
    BY <2>1, SemFinite, FS_Subset, Zenon
  <2> QED
    BY <2>2, <2>3, SemFinite, Finite
<1>6. Total = cnt + Cardinality(Sem!Acquired) + Cardinality(Sem!Slots)
                   - Cardinality(Sem!Posted)
  BY Zenon DEF Total
<1>7. Total = Len(queue) + Cardinality(Popped) - Cardinality(Senders)
  BY <1>0, <1>1, Zenon DEF Chan, Items
<1>8. Len(queue) \in Nat
  BY <1>0 DEF Chan, Types
<1>9. \A a, s, p, q, t \in Nat, b \in Int :
         b + s >= 0 /\ p <= t /\ a > q => b + a + s - p > q - t
  OBVIOUS
<1>10. Len(queue) + Cardinality(Popped) - Cardinality(Senders)
         > Cardinality(Popped) - Cardinality(Senders)
  BY <1>4, <1>5, <1>6, <1>7, <1>9, SemFinite, Finite, Zenon
<1> QED
  BY <1>8, <1>10, Finite

LEMMA PopItemKeeps ==
  ASSUME SemFacts, Chan, NEW r \in Receivers, pop_item(r), Total' = Total
  PROVE  Chan'
<1>0. /\ Chan /\ Placed(r) /\ r \in Handles /\ pc' = pc /\ queue \in Seq(Senders)
      /\ UNCHANGED <<tx_ports, rx_ports, sends>>
  BY Sides, Zenon DEF Chan, SemFacts, Types, pop_item, semVars
<1>1. Goes(r, "pop", IF queue = <<>> THEN "noitem" ELSE "ok")
  BY <1>0, GoGoes, Zenon DEF pop_item, Places
<1>2. Types'
  BY <1>0, <1>1 DEF pop_item, Goes, Types, Chan
<1>3. tx_ports > 0 => queue # <<>>
  <2>1. tx_ports > 0 => Len(queue) > 0
    BY <1>1, ItemThere, Zenon DEF Goes
  <2> QED
    BY <2>1
<1>4. tx_ports \in Nat
  BY <1>0, Finite, Zenon DEF Chan, Ports
<1>5. queue = <<>> => tx_ports = 0
  BY <1>3, <1>4
<1>6. Inside(r)
  BY <1>0, <1>1, <1>5, Sides, Zenon DEF Inside, Goes, Placed, IsTx, IsRx, Stopping
<1>7. Items'
  <2> SUFFICES ASSUME tx_ports > 0, rx_ports > 0
               PROVE  Total' = Len(queue') + Cardinality(Popped') - Cardinality(Senders)
    BY <1>0, Zenon DEF Items
  <2>1. Len(queue') = Len(queue) - 1 /\ Len(queue) \in Nat
    BY <1>0, <1>3 DEF pop_item
  <2>2. r \notin Popped /\ Popped' = Popped \cup {r}
    BY <1>0, <1>1, <1>3, Sides, Zenon
       DEF Goes, Elsewhere, Placed, Popped, HasPopped
  <2>3. Cardinality(Popped') = Cardinality(Popped) + 1
    BY <2>2, Finite, FS_AddElement, Zenon
  <2> QED
    BY <1>0, <2>1, <2>3, Finite DEF Chan, Items
<1> QED
  BY <1>0, <1>2, <1>6, <1>7, InsideKeeps, Zenon DEF Chan

(* The last receiver clears the queue.                                     *)
LEMMA ClearQueueKeeps ==
  ASSUME Chan, NEW r \in Receivers, clear_queue(r), Total' = Total
  PROVE  Chan'
<1>0. /\ Chan /\ Placed(r) /\ r \in Handles /\ pc' = pc /\ queue \in Seq(Senders)
      /\ UNCHANGED <<tx_ports, rx_ports, sends>>
  BY Sides, Zenon DEF Chan, Types, clear_queue, semVars
<1>1. Goes(r, "clear", IF queue = <<>> THEN "gone" ELSE "clear")
  BY <1>0, GoGoes, Zenon DEF clear_queue, Places
<1>2. Types'
  BY <1>0, <1>1 DEF clear_queue, Goes, Types, Chan
<1>3. Inside(r) /\ rx_ports = 0
  BY <1>0, <1>1, Sides, Zenon DEF Inside, Goes, Placed, IsTx, IsRx, Stopping
<1>4. Items'
  BY <1>0, <1>3 DEF Items
<1> QED
  BY <1>0, <1>2, <1>3, <1>4, InsideKeeps, Zenon DEF Chan

-----------------------------------------------------------------------------
(* Handles made and dropped                                                *)

(* A sender is cloned while another is there.                              *)
LEMMA CloneTxKeeps ==
  ASSUME Chan, NEW s \in Senders, clone_tx(s), Total' = Total
  PROVE  Chan'
<1>0. /\ Chan /\ Placed(s) /\ s \in Handles /\ pc' = pc
      /\ UNCHANGED <<queue, rx_ports, sends>>
  BY Sides, Zenon DEF Chan, clone_tx, semVars
<1>1. Goes(s, "unborn", "idle")
  BY <1>0, GoGoes, Zenon DEF clone_tx, Places
<1>2. Types'
  BY <1>0, <1>1, Zenon DEF Goes, Types, Chan
<1>3. tx_ports > 0 /\ tx_ports' = tx_ports + 1
  <2>1. \E t \in Senders : t \in OpenTx
    BY Sides, Zenon DEF clone_tx, OpenTx, IsTx
  <2>2. tx_ports > 0
    BY <1>0, <2>1, OneIn, Finite, Zenon DEF Chan, Ports
  <2> QED
    BY <2>2, Zenon DEF clone_tx
<1>4. s \notin OpenTx /\ OpenTx' = OpenTx \cup {s}
  BY <1>0, <1>1, Zenon DEF Goes, Elsewhere, OpenTx, IsTx
<1>5. tx_ports' = Cardinality(OpenTx')
  <2>1. Cardinality(OpenTx') = Cardinality(OpenTx) + 1
    BY <1>4, Finite, FS_AddElement, Zenon
  <2> QED
    BY <1>0, <1>3, <2>1, Zenon DEF Chan, Ports
<1>6. OpenRx' = OpenRx /\ Popped' = Popped
  BY <1>0, <1>1, Sides, Zenon DEF Goes, Elsewhere, OpenRx, IsRx, Popped, HasPopped
<1>7. Ports'
  BY <1>0, <1>5, <1>6, Zenon DEF Chan, Ports
<1>8. tx_ports # 0
  BY <1>3
<1>9. Placed(s)'
  BY <1>0, <1>1, <1>8, Sides, Zenon DEF Goes, Placed
<1>10. \A x \in Handles : Placed(x)'
  BY <1>0, <1>1, <1>8, <1>9, PlacedStep, Zenon DEF Goes, Chan
<1>11. Items'
  BY <1>0, <1>3, <1>6, Zenon DEF Items, Chan
<1> QED
  BY <1>0, <1>2, <1>7, <1>10, <1>11, Zenon DEF Chan

(* A receiver is cloned while another is there.                            *)
LEMMA CloneRxKeeps ==
  ASSUME Chan, NEW r \in Receivers, clone_rx(r), Total' = Total
  PROVE  Chan'
<1>0. /\ Chan /\ Placed(r) /\ r \in Handles /\ pc' = pc
      /\ UNCHANGED <<queue, tx_ports, sends>>
  BY Sides, Zenon DEF Chan, clone_rx, semVars
<1>1. Goes(r, "unborn", "idle")
  BY <1>0, GoGoes, Zenon DEF clone_rx, Places
<1>2. Types'
  BY <1>0, <1>1, Zenon DEF Goes, Types, Chan
<1>3. rx_ports > 0 /\ rx_ports' = rx_ports + 1
  <2>1. \E t \in Receivers : t \in OpenRx
    BY Sides, Zenon DEF clone_rx, OpenRx, IsRx
  <2>2. rx_ports > 0
    BY <1>0, <2>1, OneIn, Finite, Zenon DEF Chan, Ports
  <2> QED
    BY <2>2, Zenon DEF clone_rx
<1>4. r \notin OpenRx /\ OpenRx' = OpenRx \cup {r}
  BY <1>0, <1>1, Zenon DEF Goes, Elsewhere, OpenRx, IsRx
<1>5. rx_ports' = Cardinality(OpenRx')
  <2>1. Cardinality(OpenRx') = Cardinality(OpenRx) + 1
    BY <1>4, Finite, FS_AddElement, Zenon
  <2> QED
    BY <1>0, <1>3, <2>1, Zenon DEF Chan, Ports
<1>6. OpenTx' = OpenTx /\ Popped' = Popped
  BY <1>0, <1>1, Sides, Zenon DEF Goes, Elsewhere, OpenTx, IsTx, Popped, HasPopped
<1>7. Ports'
  BY <1>0, <1>5, <1>6, Zenon DEF Chan, Ports
<1>8. rx_ports # 0
  BY <1>3
<1>9. Placed(r)'
  BY <1>0, <1>1, <1>8, Sides, Zenon DEF Goes, Placed
<1>10. \A x \in Handles : Placed(x)'
  BY <1>0, <1>1, <1>8, <1>9, PlacedStep, Zenon DEF Goes, Chan
<1>11. Items'
  BY <1>0, <1>3, <1>6, Zenon DEF Items, Chan
<1> QED
  BY <1>0, <1>2, <1>7, <1>10, <1>11, Zenon DEF Chan

(* A sender is dropped; the last one goes on to wake the receivers.        *)
LEMMA DropTxKeeps ==
  ASSUME Chan, NEW s \in Senders, drop_tx(s), Total' = Total
  PROVE  Chan'
<1>0. /\ Chan /\ Placed(s) /\ s \in Handles /\ pc' = pc
      /\ UNCHANGED <<queue, rx_ports, sends>>
  BY Sides, Zenon DEF Chan, drop_tx, semVars
<1>1. PICK from \in {"idle"} :
        Goes(s, from, IF tx_ports = 1 THEN "drain" ELSE "gone")
  BY <1>0, GoGoes, Zenon DEF drop_tx, Places
<1>2. Types'
  BY <1>0, <1>1, Zenon DEF Goes, Types, Chan
<1>3. tx_ports > 0 /\ tx_ports \in Nat /\ tx_ports' = tx_ports - 1
  <2>1. s \in OpenTx
    BY <1>0, <1>1, Zenon DEF Goes, OpenTx, IsTx
  <2>2. tx_ports > 0 /\ tx_ports \in Nat
    BY <1>0, <2>1, OneIn, Finite, Zenon DEF Chan, Ports
  <2> QED
    BY <2>2, Zenon DEF drop_tx
<1>4. s \in OpenTx /\ OpenTx' = OpenTx \ {s}
  BY <1>0, <1>1, Zenon DEF Goes, Elsewhere, OpenTx, IsTx
<1>5. tx_ports' = Cardinality(OpenTx')
  <2>1. Cardinality(OpenTx') = Cardinality(OpenTx) - 1
    BY <1>4, Finite, FS_RemoveElement, Zenon
  <2> QED
    BY <1>0, <1>3, <2>1, Zenon DEF Chan, Ports
<1>6. OpenRx' = OpenRx /\ Popped' = Popped
  BY <1>0, <1>1, Sides, Zenon DEF Goes, Elsewhere, OpenRx, IsRx, Popped, HasPopped
<1>7. Ports'
  BY <1>0, <1>5, <1>6, Zenon DEF Chan, Ports
<1>8. tx_ports # 0 /\ (tx_ports = 1 => tx_ports' = 0) /\ (tx_ports' > 0 => tx_ports > 0)
  BY <1>3
<1>9. Placed(s)'
  BY <1>0, <1>1, <1>8, Sides, Zenon DEF Goes, Placed
<1>10. \A x \in Handles : Placed(x)'
  BY <1>0, <1>1, <1>8, <1>9, PlacedStep, Zenon DEF Goes, Chan
<1>11. Items'
  BY <1>0, <1>6, <1>8, Zenon DEF Items, Chan
<1> QED
  BY <1>0, <1>2, <1>7, <1>10, <1>11, Zenon DEF Chan

(* A receiver is dropped; the last one goes on to clear the queue.         *)
LEMMA DropRxKeeps ==
  ASSUME Chan, NEW r \in Receivers, drop_rx(r), Total' = Total
  PROVE  Chan'
<1>0. /\ Chan /\ Placed(r) /\ r \in Handles /\ pc' = pc
      /\ UNCHANGED <<queue, tx_ports, sends>>
  BY Sides, Zenon DEF Chan, drop_rx, semVars
<1>1. PICK from \in {"idle", "ok", "empty", "disc", "timeout"} :
        Goes(r, from, IF rx_ports = 1 THEN "clear" ELSE "gone")
  BY <1>0, Zenon DEF drop_rx, Places, Goes, Elsewhere, Chan, Types
<1>2. Types'
  BY <1>0, <1>1, Zenon DEF Goes, Types, Chan
<1>3. rx_ports > 0 /\ rx_ports \in Nat /\ rx_ports' = rx_ports - 1
  <2>1. r \in OpenRx
    BY <1>0, <1>1, Zenon DEF Goes, OpenRx, IsRx
  <2>2. rx_ports > 0 /\ rx_ports \in Nat
    BY <1>0, <2>1, OneIn, Finite, Zenon DEF Chan, Ports
  <2> QED
    BY <2>2, Zenon DEF drop_rx
<1>4. r \in OpenRx /\ OpenRx' = OpenRx \ {r}
  BY <1>0, <1>1, Zenon DEF Goes, Elsewhere, OpenRx, IsRx
<1>5. rx_ports' = Cardinality(OpenRx')
  <2>1. Cardinality(OpenRx') = Cardinality(OpenRx) - 1
    BY <1>4, Finite, FS_RemoveElement, Zenon
  <2> QED
    BY <1>0, <1>3, <2>1, Zenon DEF Chan, Ports
<1>6. OpenTx' = OpenTx /\ Popped' = Popped
  BY <1>0, <1>1, Sides, Zenon DEF Goes, Elsewhere, OpenTx, IsTx, Popped, HasPopped
<1>7. Ports'
  BY <1>0, <1>5, <1>6, Zenon DEF Chan, Ports
<1>8. rx_ports # 0 /\ (rx_ports = 1 => rx_ports' = 0) /\ (rx_ports' > 0 => rx_ports > 0)
  BY <1>3
<1>9. Placed(r)'
  BY <1>0, <1>1, <1>8, Sides, Zenon DEF Goes, Placed, Stopping
<1>10. \A x \in Handles : Placed(x)'
  BY <1>0, <1>1, <1>8, <1>9, PlacedStep, Zenon DEF Goes, Chan
<1>11. Items'
  BY <1>0, <1>6, <1>8, Zenon DEF Items, Chan
<1> QED
  BY <1>0, <1>2, <1>7, <1>10, <1>11, Zenon DEF Chan

-----------------------------------------------------------------------------
(* All steps of the channel, by what they do to the semaphore: nothing, a  *)
(* step of one of its calls, or a call made anew.                          *)

\* the call of h starts again
Anew(h, from, to) == pc[h] = from /\ Enter(h, to) /\ UNCHANGED semFrame

StepKeeps ==
  \/ UNCHANGED semVars /\ (Total' = Total => Chan')
  \/ \E h \in Handles : Uses(h) /\ (Total' = Total => Chan')
  \/ \E s \in Senders : Anew(s, "posted", "post") /\ (Total' = Total + 1 => Chan')
  \/ \E r \in Receivers : Anew(r, "refused", "start") /\ (Total' = Total => Chan')

LEMMA SenderKeeps ==
  ASSUME SemFacts, Chan, NEW s \in Senders,
         clone_tx(s) \/ send_check(s) \/ drop_tx(s) \/ SenderStep(s)
  PROVE  StepKeeps
<1>1. CASE clone_tx(s) \/ send_check(s) \/ drop_tx(s) \/ send_return(s)
           \/ drain_end(s) \/ drain_posted(s)
  <2>1. UNCHANGED semVars
    BY <1>1, Zenon
       DEF clone_tx, send_check, drop_tx, send_return, drain_end, drain_posted
  <2> QED
    BY <1>1, <2>1, CloneTxKeeps, SendCheckKeeps, DropTxKeeps, SendReturnKeeps,
       DrainEndKeeps, DrainPostedKeeps, Zenon DEF StepKeeps
<1>2. CASE post_step(s)
  <2>1. s \in Handles /\ Uses(s)
    BY <1>2, Sides, Zenon DEF post_step, Uses
  <2> QED
    BY <1>2, <2>1, PostStepKeeps, Zenon DEF StepKeeps
<1>3. CASE send_push(s) \/ drain_waiters(s)
  <2>1. Anew(s, "posted", "post")
    BY <1>3, Sides, Zenon DEF send_push, drain_waiters, Anew, Go, Chan, Placed
  <2> QED
    BY <1>3, <2>1, SendPushKeeps, DrainWaitersKeeps, Zenon DEF StepKeeps
<1> QED
  BY <1>1, <1>2, <1>3, Zenon DEF SenderStep

LEMMA ReceiverKeeps ==
  ASSUME SemFacts, Chan, NEW r \in Receivers,
         \/ clone_rx(r) \/ try_recv(r) \/ try_recv_refused(r)
         \/ wait_err(r) \/ drop_rx(r) \/ ReceiverStep(r)
  PROVE  StepKeeps
<1>1. CASE clone_rx(r) \/ drop_rx(r) \/ try_recv_load(r) \/ wait_return(r)
           \/ pop_item(r) \/ pop_none(r) \/ clear_queue(r)
  <2>1. UNCHANGED semVars
    BY <1>1, Zenon DEF clone_rx, drop_rx, try_recv_load, wait_return, pop_item,
       pop_none, clear_queue
  <2> QED
    BY <1>1, <2>1, CloneRxKeeps, DropRxKeeps, TryRecvLoadKeeps, WaitReturnKeeps,
       PopItemKeeps, PopNoneKeeps, ClearQueueKeeps, Zenon DEF StepKeeps
<1>2. CASE try_recv(r) \/ try_recv_refused(r) \/ wait_step(r) \/ wait_err(r)
  <2>1. r \in Handles /\ Uses(r)
    BY <1>2, Sides, Zenon DEF try_recv, try_recv_refused, wait_step, wait_err, Uses
  <2> QED
    BY <1>2, <2>1, TryRecvKeeps, TryRecvRefusedKeeps, WaitStepKeeps, Zenon
       DEF StepKeeps
<1>3. CASE recv_load(r)
  <2>1. pc[r] = "refused" /\ r \in Handles
    BY <1>3, Sides, Zenon DEF recv_load, Go, Chan, Placed
  <2>2. CASE tx_ports = 0
    <3>1. pc' = pc
      BY <1>3, <2>1, <2>2 DEF SemFacts, recv_load, Enter
    <3>2. UNCHANGED semVars
      BY <1>3, <3>1, Zenon DEF recv_load, semVars, semFrame
    <3> QED
      BY <1>3, <3>2, RecvLoadKeeps, Zenon DEF StepKeeps
  <2>3. CASE tx_ports # 0
    <3>1. Anew(r, "refused", "start")
      BY <1>3, <2>1, <2>3, Zenon DEF recv_load, Enter, Anew
    <3> QED
      BY <1>3, <3>1, RecvLoadKeeps, Zenon DEF StepKeeps
  <2> QED
    BY <2>2, <2>3, Zenon
<1> QED
  BY <1>1, <1>2, <1>3, Zenon DEF ReceiverStep

LEMMA ChannelStep == SemFacts /\ Chan /\ [Next]_vars => StepKeeps
<1> SUFFICES ASSUME SemFacts, Chan, [Next]_vars PROVE StepKeeps
  OBVIOUS
<1>1. ASSUME UNCHANGED vars PROVE StepKeeps
  <2>1. OpenTx' = OpenTx /\ OpenRx' = OpenRx /\ Popped' = Popped
    BY <1>1, Zenon DEF vars, chanVars, semVars, OpenTx, OpenRx, Popped, IsTx, IsRx,
       HasPopped
  <2>2. \A h \in Handles : Placed(h)'
    BY <1>1, Zenon DEF vars, chanVars, semVars, Chan, Placed
  <2>3. Total' = Total => Types' /\ Ports' /\ Items'
    BY <1>1, <2>1, Zenon DEF vars, chanVars, Chan, Types, Ports, Items
  <2> QED
    BY <1>1, <2>2, <2>3, Zenon DEF Chan, StepKeeps, vars
<1> QED
  BY <1>1, SenderKeeps, ReceiverKeeps, Zenon DEF Next, Finished

-----------------------------------------------------------------------------
(* The first state, and what the invariant means                           *)

LEMMA ChanInit == Init /\ Total = 0 - Cardinality(Senders) => Chan
<1> SUFFICES ASSUME Init, Total = 0 - Cardinality(Senders) PROVE Chan
  OBVIOUS
<1> USE MpmcAssumption, Sides
<1>1. Types
  BY DEF Init, Types, Places
<1>2. OpenTx = {FirstTx} /\ OpenRx = {FirstRx} /\ Popped = {}
  BY Zenon DEF Init, OpenTx, OpenRx, Popped, IsTx, IsRx, HasPopped
<1>3. Ports
  BY <1>2, FS_Singleton, Zenon DEF Init, Ports
<1>4. ASSUME NEW h \in Handles PROVE Placed(h)
  BY <1>4, Zenon DEF Init, Placed, Stopping
<1>5. Items
  BY <1>2, Finite, FS_EmptySet DEF Init, Items
<1> QED
  BY <1>1, <1>3, <1>4, <1>5, Zenon DEF Chan

LEMMA DisjointSum ==
  ASSUME NEW S, NEW T, NEW U, IsFiniteSet(S), IsFiniteSet(T), S \cap T = {},
         U = S \cup T
  PROVE  Cardinality(U) = Cardinality(S) + Cardinality(T)
<1>1. Cardinality(U) = Cardinality(S) + Cardinality(T) - Cardinality(S \cap T)
  BY FS_Union, Zenon
<1>2. /\ Cardinality(S \cap T) = 0
      /\ Cardinality(S) \in Nat /\ Cardinality(T) \in Nat
  BY FS_EmptySet, FS_CardinalityType, Zenon
<1> QED
  BY <1>1, <1>2

(* What Items says of the senders between push and post and the receivers  *)
(* between permit and value.                                               *)
LEMMA PermitItem == SemFacts /\ Chan => PermitPerItem
<1> DEFINE Posting == {s \in Senders : at[s] = "post" /\ pc[s] = "post"}
           Popping == {r \in Receivers : \/ at[r] = "pop"
                                         \/ at[r] = "wait" /\ pc[r] = "acquired"}
<1> SUFFICES ASSUME SemFacts, Chan, tx_ports > 0, rx_ports > 0
             PROVE  cnt + Cardinality(Sem!Slots) + Cardinality(Posting)
                      = Len(queue) - Cardinality(Popping)
  BY Zenon DEF PermitPerItem
<1>0. /\ Chan /\ cnt \in Int /\ \A h \in Handles : Placed(h)
  BY Zenon DEF Chan, SemFacts
<1>1. tx_ports # 0
  OBVIOUS
<1>4. IsFiniteSet(Posting) /\ IsFiniteSet(Popping)
  <2>1. Posting \in SUBSET Senders /\ Popping \in SUBSET Receivers
    BY Zenon
  <2> QED
    BY <2>1, MpmcAssumption, FS_Subset, Zenon
<1>5. Cardinality(Posting) \in Nat /\ Cardinality(Popping) \in Nat
  BY <1>4, FS_CardinalityType, Zenon
<1>6. Cardinality(Senders) = Cardinality(Sem!Posted) + Cardinality(Posting)
  <2>1. Sem!Posted \cap Posting = {} /\ Senders = Sem!Posted \cup Posting
    BY <1>0, <1>1, Sides, Zenon DEF Sem!Posted, Placed
  <2> QED
    BY <1>4, <2>1, SemFinite, DisjointSum, Zenon
<1>7. Cardinality(Sem!Acquired) = Cardinality(Popped) + Cardinality(Popping)
  <2>1. Popped \cap Popping = {} /\ Sem!Acquired = Popped \cup Popping
    BY <1>0, Sides, Zenon DEF Sem!Acquired, Placed, Popped, HasPopped
  <2> QED
    BY <1>4, <2>1, Finite, DisjointSum, Zenon
<1>8. Total = cnt + Cardinality(Sem!Acquired) + Cardinality(Sem!Slots)
                   - Cardinality(Sem!Posted)
  BY Zenon DEF Total
<1>9. PICK q \in Nat : Len(queue) = q
  <2>1. Len(queue) \in Nat
    BY <1>0 DEF Chan, Types
  <2> QED
    BY <2>1, Zenon
<1>10. Total = q + Cardinality(Popped) - Cardinality(Senders)
  BY <1>0, <1>9, Zenon DEF Chan, Items
<1>11. /\ Cardinality(Sem!Posted) \in Nat /\ Cardinality(Sem!Slots) \in Nat
       /\ Cardinality(Popped) \in Nat
  BY SemFinite, Finite, Zenon
<1>12. cnt \in Int
  BY <1>0, Zenon
<1> HIDE DEF Posting, Popping
<1>13. cnt + (Cardinality(Popped) + Cardinality(Popping)) + Cardinality(Sem!Slots)
         - Cardinality(Sem!Posted)
         = q + Cardinality(Popped) - (Cardinality(Sem!Posted) + Cardinality(Posting))
  BY <1>6, <1>7, <1>8, <1>10, Zenon
<1>14. PICK d, o, s, p, g \in Nat :
          /\ Cardinality(Popped) = d /\ Cardinality(Popping) = o
          /\ Cardinality(Sem!Slots) = s /\ Cardinality(Sem!Posted) = p
          /\ Cardinality(Posting) = g
  BY <1>5, <1>11, Zenon
<1>15. cnt + (d + o) + s - p = q + d - (p + g)
  BY <1>13, <1>14, Zenon
<1>16. cnt + s + g = q - o
  BY <1>12, <1>15
<1> QED
  BY <1>9, <1>14, <1>16, Zenon

LEMMA ChanSafe == SemFacts /\ Chan => MpmcSafe
<1> SUFFICES ASSUME SemFacts, Chan PROVE MpmcSafe
  OBVIOUS
<1>0. Types /\ Ports /\ \A h \in Handles : Placed(h)
  BY Zenon DEF Chan
<1>1. tx_ports \in 0..Cardinality(Senders) /\ rx_ports \in 0..Cardinality(Receivers)
  <2>1. OpenTx \in SUBSET Senders /\ OpenRx \in SUBSET Receivers
    BY Zenon DEF OpenTx, OpenRx, IsTx, IsRx
  <2>2. /\ Cardinality(OpenTx) <= Cardinality(Senders)
        /\ Cardinality(OpenRx) <= Cardinality(Receivers)
    BY <2>1, MpmcAssumption, FS_Subset, Zenon
  <2> QED
    BY <1>0, <2>2, Finite DEF Ports
<1>2. TypeOK
  BY <1>0, <1>1, Zenon DEF SemFacts, Types, TypeOK, Places
<1>3. ItemForPermit /\ DisconnectedIsFinal
  BY <1>0, Sides, Zenon DEF ItemForPermit, DisconnectedIsFinal, Placed
<1> QED
  BY <1>2, <1>3, PermitItem, Zenon DEF MpmcSafe

-----------------------------------------------------------------------------
(* The semaphore of the channel                                            *)

SP == INSTANCE SemphoreProofs WITH
    Waits <- Receivers, Posts <- Senders, Stoppable <- Receivers, Permits <- 0,
    stopped <- (tx_ports = 0)

LEMMA SameCardinality == ASSUME NEW S PROVE SP!Cardinality(S) = Cardinality(S)
BY Zenon DEF SP!Cardinality, Cardinality

LEMMA SemAssumed ==
  /\ SP!IsFiniteSet(Receivers) /\ SP!IsFiniteSet(Senders)
  /\ Receivers \cap Senders = {}
  /\ Leavers \subseteq Receivers
  /\ Receivers \subseteq Receivers
  /\ 0 \in Nat
  /\ NoCall \notin Receivers \cup Senders
<1>1. \A S : IsFiniteSet(S) => SP!IsFiniteSet(S)
  BY Zenon DEF SP!IsFiniteSet, IsFiniteSet
<1> QED
  BY <1>1, MpmcAssumption

LEMMA SameTotal == SP!Total = Total
<1>1. SP!Acquired = Sem!Acquired /\ SP!Posted = Sem!Posted /\ SP!Slots = Sem!Slots
  BY Zenon DEF Sem!Acquired, SP!Acquired, Sem!Posted, SP!Posted, Sem!Slots, SP!Slots,
     SP!Holds, Sem!Holds, SP!Forwards, Sem!Forwards, SP!Calls, Sem!Calls
<1> QED
  BY <1>1, SameCardinality, Zenon DEF SP!Total, Total

LEMMA HandOffFacts == SP!HandOff => SemFacts
<1> SUFFICES ASSUME SP!HandOff PROVE SemFacts
  OBVIOUS
<1>1. /\ cnt \in Int /\ to_wake \in Seq(Receivers) /\ pc \in [Handles -> Pcs]
      /\ then \in [Handles -> {"stop", "left", "posted"}]
  BY Zenon DEF SP!HandOff, SP!Hand, SP!Types, SP!Calls, Handles, Pcs
<1>2. PICK c, g, n \in Nat :
         c + g - n = (IF cnt < 0 THEN cnt ELSE 0) /\ Cardinality(Sem!Slots) = n
  <2>1. SP!Slots = Sem!Slots
    BY Zenon DEF Sem!Slots, SP!Slots, SP!Holds, Sem!Holds, SP!Forwards, Sem!Forwards,
       SP!Calls, Sem!Calls
  <2> QED
    BY <2>1, SemAssumed, SP!Counted, SameCardinality, Zenon
       DEF SP!HandOff, SP!PermitBalance
<1>3. cnt + n >= 0
  BY <1>1, <1>2
<1> QED
  BY <1>1, <1>2, <1>3, Zenon DEF SemFacts

LEMMA UsesNext == ASSUME NEW h \in Handles, Uses(h) PROVE SP!Next
<1> USE DEF Sem!Step, SP!Step
<1>1. Sem!Wait(h) => SP!Wait(h)
  BY Zenon DEF Sem!Wait, SP!Wait,
     Sem!wait_register, SP!wait_register, Sem!wait_fetch_sub, SP!wait_fetch_sub,
     Sem!wait_check_stop, SP!wait_check_stop, Sem!stop_check_unparked,
     SP!stop_check_unparked, Sem!stop_set_release, SP!stop_set_release,
     Sem!stop_recheck, SP!stop_recheck, Sem!stop_take_release, SP!stop_take_release,
     Sem!park_ok, SP!park_ok, Sem!err_check_unparked, SP!err_check_unparked,
     Sem!err_set_release, SP!err_set_release, Sem!err_recheck, SP!err_recheck,
     Sem!err_take_release, SP!err_take_release
<1>2. Sem!Wakeup(h) => SP!Wakeup(h)
  BY Zenon DEF Sem!Wakeup, SP!Wakeup,
     Sem!wakeup_pop, SP!wakeup_pop, Sem!wakeup_store, SP!wakeup_store,
     Sem!wakeup_wake, SP!wakeup_wake, Sem!wakeup_take_release,
     SP!wakeup_take_release, Sem!wakeup_forward, SP!wakeup_forward
<1>3. /\ Sem!try_wait(h) => SP!try_wait(h)
      /\ Sem!try_wait_refused(h) => SP!try_wait_refused(h)
      /\ Sem!wait_blocks(h) => SP!wait_blocks(h)
      /\ Sem!park_err(h) => SP!park_err(h)
      /\ Sem!post_cnt(h) => SP!post_cnt(h)
  BY Zenon DEF Sem!try_wait, SP!try_wait, Sem!try_wait_refused, SP!try_wait_refused,
     Sem!wait_blocks, SP!wait_blocks, Sem!park_err, SP!park_err, Sem!post_cnt,
     SP!post_cnt
<1> QED
  BY <1>1, <1>2, <1>3, Zenon DEF Uses, SP!Next, SP!Begin, SP!Calls, Handles

\* The inductive invariant.
MpmcInv == SP!HandOff /\ Chan

LEMMA MpmcInit == Init => MpmcInv
<1> SUFFICES ASSUME Init PROVE MpmcInv
  OBVIOUS
<1>1. SP!AtRest
  BY Zenon DEF Init, SP!AtRest, SP!Calls, Handles
<1>2. SP!HandOff /\ Total = 0 - Cardinality(Senders)
  BY <1>1, SemAssumed, SP!HandOffInit, SameCardinality, SameTotal, Zenon
<1> QED
  BY <1>2, ChanInit, Zenon DEF MpmcInv

LEMMA MpmcStep == MpmcInv /\ [Next]_vars => MpmcInv'
<1> SUFFICES ASSUME MpmcInv, [Next]_vars PROVE MpmcInv'
  OBVIOUS
<1>0. SP!HandOff /\ SP!Total = Total /\ SP!Total' = Total'
  <2>1. (SP!Total = Total)'
    BY SameTotal, PTL
  <2> QED
    BY <2>1, SameTotal, Zenon DEF MpmcInv
<1>1. StepKeeps
  BY HandOffFacts, ChannelStep, Zenon DEF MpmcInv
<1>2. ASSUME UNCHANGED semVars PROVE SP!HandOff' /\ Total' = Total
  BY <1>0, <1>2, SemAssumed, SP!HandOffSame, Zenon DEF semVars, SP!semVars
<1>3. ASSUME NEW h \in Handles, Uses(h) PROVE SP!HandOff' /\ Total' = Total
  BY <1>0, <1>3, UsesNext, SemAssumed, SP!HandOffStep, Zenon
<1>4. ASSUME NEW s \in Senders, Anew(s, "posted", "post")
      PROVE  SP!HandOff' /\ Total' = Total + 1
  <2>1. SP!Again(s, "posted", "post")
    BY <1>4, Zenon DEF SP!Again, Anew, Enter, semFrame
  <2> QED
    BY <1>0, <2>1, SemAssumed, SP!PostAgain, Zenon
<1>5. ASSUME NEW r \in Receivers, Anew(r, "refused", "start")
      PROVE  SP!HandOff' /\ Total' = Total
  <2>1. SP!Again(r, "refused", "start")
    BY <1>5, Zenon DEF SP!Again, Anew, Enter, semFrame
  <2> QED
    BY <1>0, <2>1, SemAssumed, SP!WaitAgain, Zenon
<1> QED
  BY <1>1, <1>2, <1>3, <1>4, <1>5, Zenon DEF StepKeeps, MpmcInv

LEMMA MpmcMeans == MpmcInv => MpmcSafe /\ Sem!NoNullBlocker
<1> SUFFICES ASSUME MpmcInv PROVE MpmcSafe /\ Sem!NoNullBlocker
  OBVIOUS
<1>1. MpmcSafe
  BY HandOffFacts, ChanSafe, Zenon DEF MpmcInv
<1>2. SP!NoNullBlocker
  BY SemAssumed, SP!NoNull, Zenon DEF MpmcInv, SP!HandOff
<1>3. Sem!NoNullBlocker
  BY <1>2, SameCardinality, Zenon DEF SP!NoNullBlocker, Sem!NoNullBlocker,
     SP!Calls, Sem!Calls, SP!Cardinality, Sem!Cardinality
<1> QED
  BY <1>1, <1>3, Zenon

(* For any number of senders, receivers and sends, whoever clones, drops,  *)
(* times out or is canceled, and when: no port counter underflows, a       *)
(* receiver with a permit finds a value while there is a sender (the       *)
(* debug_assert "a semaphore permit had no queued item"), the permits and  *)
(* the values are the same number, and Disconnected is reported only when  *)
(* every sender is gone.                                                   *)
THEOREM MpmcIsSafe == Spec => []MpmcSafe
BY MpmcInit, MpmcStep, MpmcMeans, PTL DEF Spec

(* The expect("got null blocker!") of the channel's semaphore, which is    *)
(* posted and waited on any number of times, and by the wake-up loop of    *)
(* drop_tx too.                                                            *)
THEOREM MpmcNoNullBlocker == Spec => []Sem!NoNullBlocker
BY MpmcInit, MpmcStep, MpmcMeans, PTL DEF Spec
=============================================================================
