---------------------------- MODULE ScopeProofs -----------------------------
(***************************************************************************)
(* Scope for any set of coroutines: a scope is not left while a coroutine  *)
(* of it runs, and not left normally if one of them did not return, unless *)
(* another unwind on the thread keeps that from being seen.                *)
(***************************************************************************)
EXTENDS Scope, TLAPS

Joining == {"load", "register", "recheck", "joining"}

Types ==
  /\ pc \in [Kids \cup {Parent} ->
              {"none", "run", "store", "trigger", "take_waiter", "ended",
               "body", "drop_all", "joined", "left"} \cup Joining]
  /\ pc[Parent] \in {"body", "drop_all", "joined", "left"} \cup Joining
  /\ \A k \in Kids : pc[k] \in {"none", "run", "store", "trigger", "take_waiter", "ended"}
  /\ dtors \in Seq(Kids)
  /\ ret \in {"body", "drop_all"}
  /\ pc[Parent] \in {"joined"} \cup Joining => cur \in Kids

\* the state of a Join falls, and its waiter is woken, after the closure
EndIsTold ==
  /\ \A k \in Kids : k \in finished => pc[k] \in {"take_waiter", "ended"}
  /\ \A k \in Kids : pc[k] \in {"take_waiter", "ended"} => k \in finished
  /\ \A k \in Kids : <<Parent, k>> \in token => k \in finished
  /\ jwake \in [Kids -> {None, Parent}]

InDtors(k) == \E i \in 1..Len(dtors) : dtors[i] = k

\* a coroutine that was spawned has its join ahead or behind
JoinDeferred ==
  /\ \A k \in Kids : pc[k] # "none" => InDtors(k) \/ k \in joined
  /\ pc[Parent] = "left" => dtors = <<>>

\* a join that is behind has seen the end of the coroutine, unless the wait
\* of a canceled parent was cut short
JoinWaited ==
  Parent \notin canceled =>
    \A k \in Kids \cap joined : k \in finished \/ (k = cur /\ pc[Parent] \in Joining)

\* ... and has found its result, or begun to unwind, which does not lead
\* back into the body
ResultSeen ==
  /\ ~unwinding =>
       \A k \in Kids \cap joined :
          k \in packet \cup muted \/ (k = cur /\ pc[Parent] \in {"joined"} \cup Joining)
  /\ unwinding => \/ pc[Parent] \in {"drop_all", "left"}
                  \/ pc[Parent] \in {"joined"} \cup Joining /\ ret = "drop_all"

ScopeInv == Types /\ EndIsTold /\ JoinDeferred /\ JoinWaited /\ ResultSeen

-----------------------------------------------------------------------------

LEMMA ScopeStep ==
  ASSUME Parent \notin Kids, ScopeInv, [Next]_vars
  PROVE  ScopeInv'
<1> USE DEF ScopeInv, Types, Joining, EndIsTold, JoinDeferred, InDtors, JoinWaited,
            ResultSeen, Step, joins, ends, scoped
<1>1. ASSUME NEW k \in Kids, spawn(k) PROVE ScopeInv'
  BY <1>1 DEF spawn
<1>2. ASSUME NEW k \in Kids, closure(k) PROVE ScopeInv'
  BY <1>2 DEF closure
<1>3. ASSUME NEW k \in Kids, run_coroutine(k) PROVE ScopeInv'
  BY <1>3 DEF run_coroutine, trigger
<1>4. ASSUME NEW k \in Kids, body(k) PROVE ScopeInv'
  <2>1. CASE Step(Parent, "body", "load")
    <3>1. /\ UNCHANGED <<dtors, unwinding, muted, finished, jwake, token, packet, canceled>>
          /\ cur' = k /\ ret' = "body" /\ joined' = joined \cup {k}
          /\ pc[Parent] = "body" /\ pc'[Parent] = "load"
          /\ \A x \in Kids : pc'[x] = pc[x]
      BY <1>4, <2>1 DEF body
    <3>2. Types'
      BY <1>4, <2>1, <3>1
    <3>3. EndIsTold' /\ JoinDeferred'
      BY <3>1
    <3>4. \A x \in Kids \cap joined : /\ x \in packet \cup muted
                                    /\ Parent \notin canceled => x \in finished
      BY <3>1
    <3>5. JoinWaited' /\ ResultSeen'
      BY <3>1, <3>4
    <3> QED
      BY <3>2, <3>3, <3>5
  <2>2. CASE Step(Parent, "body", "drop_all")
    <3>1. /\ UNCHANGED <<dtors, joined, cur, ret, muted, finished, jwake, token, packet, canceled>>
          /\ pc[Parent] = "body"
      BY <1>4, <2>2 DEF body
    <3>2. Types' /\ EndIsTold' /\ JoinDeferred' /\ JoinWaited'
      BY <2>2, <3>1
    <3>3. \A k2 \in Kids \cap joined : k2 \in packet \cup muted
      BY <3>1
    <3>4. ResultSeen'
      BY <2>2, <3>1, <3>3
    <3> QED
      BY <3>2, <3>4
  <2> QED
    BY <1>4, <2>1, <2>2 DEF body
<1>5. CASE drop_all
  <2>1. CASE dtors = <<>>
    BY <1>5, <2>1 DEF drop_all
  <2>2. CASE dtors # <<>>
    <3>1. /\ dtors' \in Seq(Kids) /\ Head(dtors) \in Kids /\ Head(dtors) = dtors[1]
          /\ Len(dtors') = Len(dtors) - 1
          /\ \A i \in 2..Len(dtors) : dtors'[i - 1] = dtors[i]
      BY <1>5, <2>2 DEF drop_all
    <3>2. ASSUME NEW k \in Kids, InDtors(k), k # Head(dtors) PROVE InDtors(k)'
      <4>1. PICK i \in 2..Len(dtors) : dtors[i] = k
        BY <3>1, <3>2
      <4>2. i - 1 \in 1..Len(dtors') /\ dtors'[i - 1] = k
        BY <3>1, <4>1
      <4> QED
        BY <4>2
    <3>3. /\ UNCHANGED <<unwinding, muted, finished, jwake, token, packet, canceled>>
          /\ cur' = Head(dtors) /\ ret' = "drop_all" /\ joined' = joined \cup {Head(dtors)}
          /\ pc[Parent] = "drop_all"
          /\ pc'[Parent] = IF Head(dtors) \in joined THEN "drop_all" ELSE "load"
          /\ \A x \in Kids : pc'[x] = pc[x]
      BY <1>5, <2>2 DEF drop_all
    <3>4. Types'
      BY <1>5, <2>2, <3>1, <3>3 DEF drop_all
    <3>5. EndIsTold'
      BY <3>3
    <3>6. JoinDeferred'
      BY <3>2, <3>3
    <3>7. \A x \in Kids \cap joined : /\ Parent \notin canceled => x \in finished
                                    /\ ~unwinding => x \in packet \cup muted
      BY <3>3
    <3>8. JoinWaited' /\ ResultSeen'
      BY <3>1, <3>3, <3>7
    <3> QED
      BY <3>4, <3>5, <3>6, <3>8
  <2> QED
    BY <2>1, <2>2
<1>6. CASE join_wait
  BY <1>6 DEF join_wait, wait
<1>7. CASE join_canceled
  BY <1>7 DEF join_canceled
<1>8. CASE join_result
  BY <1>8 DEF join_result
<1>9. ASSUME NEW a \in Kids \cup {Parent}, cancel(a) PROVE ScopeInv'
  BY <1>9 DEF cancel
<1>10. CASE UNCHANGED vars
  BY <1>10 DEF vars
<1> HIDE DEF ScopeInv
<1> QED
  BY <1>1, <1>2, <1>3, <1>4, <1>5, <1>6, <1>7, <1>8, <1>9, <1>10
     DEF Next, RunParent, RunKid, Quiet

(* "it's guaranteed to terminate before the current stack frame goes away":*)
(* whatever the coroutines and the parent do, except for a parent that is  *)
(* canceled.  And a scope that is left normally has all the results, but   *)
(* for those a join met while another unwind was in flight on its thread.  *)
THEOREM ScopesSafe ==
  ASSUME Parent \notin Kids
  PROVE  Spec => [](ScopeOutlives /\ PanicPropagates)
<1>1. Init => ScopeInv
  BY DEF Init, JoinInit, ScopeInv, Types, Joining, EndIsTold, JoinDeferred, InDtors,
         JoinWaited, ResultSeen
<1>2. ScopeInv /\ [Next]_vars => ScopeInv'
  BY ScopeStep
<1>3. ScopeInv => ScopeOutlives /\ PanicPropagates
  BY DEF ScopeInv, Types, EndIsTold, JoinDeferred, InDtors, JoinWaited, ResultSeen,
         Joining, ScopeOutlives, PanicPropagates
<1> QED
  BY <1>1, <1>2, <1>3, PTL DEF Spec
=============================================================================
