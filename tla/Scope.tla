------------------------------- MODULE Scope -------------------------------
(***************************************************************************)
(* coroutine::scope (src/src/scoped.rs), the coroutines it spawns, and how *)
(* a coroutine ends (src/src/coroutine_impl.rs).  The actor Parent runs    *)
(* scope(); each of Kids is spawned in it at most once.                    *)
(***************************************************************************)
EXTENDS Join

CONSTANTS Parent, Kids,
          Panicky,       \* coroutines whose closure may panic
          Cancelable     \* coroutines that may be canceled

VARIABLES packet, panic, \* coroutines with a result, with panic data
          value,         \* coroutines whose f() has returned (their_packet)
          canceled,      \* Cancel.state & 1
          dtors,         \* Scope.dtors
          joined,        \* handles whose JoinState is Joined
          cur,           \* the coroutine Parent is joining
          ret,           \* where the join continues
          unwinding,     \* Parent is panicking
          muted          \* history: coroutines whose failure a join kept to
                         \* itself because another unwind was in flight

ends == <<packet, panic, value, canceled>>
scoped == <<dtors, joined, cur, ret, unwinding, muted>>
joins == <<finished, jwake, token>>
vars == <<pc, joins, ends, scoped>>

Init ==
    /\ JoinInit(Kids \cup {Parent}, [a \in Kids \cup {Parent} |-> IF a = Parent THEN "body" ELSE "none"], Kids)
    /\ packet = {} /\ panic = {} /\ value = {} /\ canceled = {}
    /\ dtors = <<>> /\ joined = {}
    /\ cur = None /\ ret = "body" /\ unwinding = FALSE /\ muted = {}

-----------------------------------------------------------------------------
(* Spawning, running and ending a coroutine                                *)

\* Scope::spawn: the coroutine is scheduled and its join deferred
spawn(k) ==
    /\ pc[Parent] = "body"
    /\ Step(k, "none", "run")
    /\ dtors' = <<k>> \o dtors
    /\ UNCHANGED <<joins, ends, joined, cur, ret, unwinding, muted>>

\* the closure of spawn_impl: f() returns, or panics (run_coroutine sets the
\* panic data); the result is dropped if the coroutine has been canceled
closure(k) ==
    /\ \/ /\ Step(k, "run", IF k \in canceled THEN "trigger" ELSE "store")
          /\ value' = value \cup {k}
          /\ UNCHANGED <<packet, panic>>
       \/ /\ k \in Panicky \cup canceled
          /\ Step(k, "run", "trigger")
          /\ panic' = IF k \in canceled THEN panic ELSE panic \cup {k}
          /\ UNCHANGED <<packet, value>>
       \/ /\ Step(k, "store", "trigger")
          /\ packet' = packet \cup {k}
          /\ UNCHANGED <<panic, value>>
    /\ UNCHANGED <<joins, canceled, scoped>>

run_coroutine(k) ==
    /\ trigger(k, "ended")
    /\ UNCHANGED <<ends, scoped>>

cancel(a) ==
    /\ a \in Cancelable \ canceled
    /\ pc[a] \notin {"none", "left", "ended"}
    /\ canceled' = canceled \cup {a}
    /\ UNCHANGED <<pc, joins, packet, panic, value, scoped>>

-----------------------------------------------------------------------------
(* The scope                                                               *)

\* ScopedJoinHandle::join, the end of the closure, or a panic in it
body(k) ==
    /\ pc[Parent] = "body"
    /\ \/ /\ pc[k] # "none" /\ k \notin joined
          /\ Step(Parent, "body", "load")
          /\ cur' = k /\ ret' = "body" /\ joined' = joined \cup {k}
          /\ UNCHANGED <<dtors, unwinding, muted>>
       \/ /\ Step(Parent, "body", "drop_all")
          /\ unwinding' \in IF Parent \in Panicky THEN BOOLEAN ELSE {FALSE}
          /\ UNCHANGED <<dtors, joined, cur, ret, muted>>
    /\ UNCHANGED <<joins, ends>>

\* mutant of drop_all: the last destructor of the chain is forgotten
drop_all_short ==
    /\ pc[Parent] = "drop_all"
    /\ IF Len(dtors) <= 1
         THEN Step(Parent, "drop_all", "left") /\ UNCHANGED scoped
         ELSE /\ Step(Parent, "drop_all", IF Head(dtors) \in joined THEN "drop_all" ELSE "load")
              /\ dtors' = Tail(dtors)
              /\ cur' = Head(dtors) /\ ret' = "drop_all" /\ joined' = joined \cup {Head(dtors)}
              /\ UNCHANGED <<unwinding, muted>>
    /\ UNCHANGED <<joins, ends>>

\* a destructor is unlinked before it runs, so an unwind goes on with the next
drop_all ==
    /\ pc[Parent] = "drop_all"
    /\ IF dtors = <<>>
         THEN Step(Parent, "drop_all", "left") /\ UNCHANGED scoped
         ELSE /\ Step(Parent, "drop_all", IF Head(dtors) \in joined THEN "drop_all" ELSE "load")
              /\ dtors' = Tail(dtors)
              /\ cur' = Head(dtors) /\ ret' = "drop_all" /\ joined' = joined \cup {Head(dtors)}
              /\ UNCHANGED <<unwinding, muted>>
    /\ UNCHANGED <<joins, ends>>

join_wait ==
    /\ wait(Parent, cur, "joined")
    /\ UNCHANGED <<ends, scoped>>

\* the wait of a canceled coroutine panics, or returns at once when the thread
\* is panicking: Parent unwinds, or a coroutine suspended in its unwind does
join_canceled ==
    /\ Parent \in canceled
    /\ \/ ~unwinding /\ Step(Parent, "joining", "drop_all") /\ unwinding' = TRUE
       \/ Step(Parent, "joining", "joined") /\ UNCHANGED unwinding
    /\ UNCHANGED <<joins, ends, dtors, joined, cur, ret, muted>>

\* JoinState::join rethrows what the coroutine ended with, or keeps it to itself
\* when the thread is panicking; ScopedJoinHandle::join then unwraps the value
join_result ==
    /\ \/ /\ cur \in packet
          /\ Step(Parent, "joined", ret) /\ UNCHANGED <<unwinding, muted>>
       \/ /\ cur \notin packet
          /\ Step(Parent, "joined", "drop_all")
          /\ unwinding' = TRUE /\ UNCHANGED muted
       \/ /\ cur \notin packet /\ (ret = "drop_all" \/ cur \in value)
          /\ Step(Parent, "joined", ret)
          /\ muted' = IF unwinding THEN muted ELSE muted \cup {cur}
          /\ UNCHANGED unwinding
    /\ UNCHANGED <<joins, ends, dtors, joined, cur, ret>>

-----------------------------------------------------------------------------

RunKid(k) == spawn(k) \/ closure(k) \/ run_coroutine(k)
RunParent == drop_all \/ join_wait \/ join_canceled \/ join_result

\* the scope is left or waits for a coroutine, and no coroutine runs
Quiet ==
    /\ pc[Parent] \in {"left", "joining"}
    /\ \A k \in Kids : pc[k] \in {"none", "ended"}
    /\ UNCHANGED vars

Next ==
    \/ RunParent
    \/ \E k \in Kids : RunKid(k) \/ body(k)
    \/ \E a \in Kids \cup {Parent} : cancel(a)
    \/ Quiet

\* the worker threads run what is ready; f() itself need not return
Fairness ==
    /\ WF_vars(RunParent)
    /\ \A k \in Kids : WF_vars(run_coroutine(k))

Spec == Init /\ [][Next]_vars /\ Fairness

-----------------------------------------------------------------------------

\* "it's guaranteed to terminate before the current stack frame goes away"
\* (Scope::spawn): no coroutine of the scope runs on after it is left, however
\* it is left.  A canceled parent is excepted: its waits do not wait.
ScopeOutlives ==
    pc[Parent] = "left" /\ Parent \notin canceled => \A k \in Kids : pc[k] \notin {"run", "store"}

\* A scope is left normally only if every coroutine of it returned a result:
\* no panic and no cancellation is swallowed on the way to the parent, but where
\* another unwind on its thread makes thread::panicking() true (JoinState::join).
PanicPropagates ==
    pc[Parent] = "left" /\ ~unwinding =>
        \A k \in Kids : pc[k] = "none" \/ k \in packet \cup muted

\* The end of a coroutine wakes the parent that waits for it.
JoinWakes == []<>(pc[Parent] = "joining" => cur \notin finished)
=============================================================================
