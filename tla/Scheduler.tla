----------------------------- MODULE Scheduler -----------------------------
(***************************************************************************)
(* The scheduler and its event loops (src/src/scheduler.rs,                *)
(* src/src/io/event_loop.rs and the select/wakeup pair of epoll.rs,        *)
(* kqueue.rs and iocp.rs).  Each worker thread sleeps in its selector      *)
(* until somebody posts a wake-up, then runs the coroutines of its local   *)
(* queue and at last its io timers, each of which resumes a coroutine at   *)
(* once.  A coroutine made ready on a worker goes to that worker's local   *)
(* queue without any wake-up; one made ready on another thread goes to a   *)
(* worker's global queue, and a wake-up is posted.                         *)
(*                                                                         *)
(* The queues are the linearizable FIFOs of MpscQueue, SpscQueue and       *)
(* SpmcQueue.  io events, which put coroutines into the local queue of the *)
(* worker that selects, are in UnixIo.                                     *)
(***************************************************************************)
EXTENDS Naturals, Sequences, FiniteSetsExt

CONSTANTS
  workers,     \* config().get_workers()
  Cos,         \* coroutines
  Posters,     \* threads that are no workers (WORKER_ID = usize::MAX), and
               \* coroutines that spawn
  None,        \* no coroutine, no worker
  MaxReady     \* how often a coroutine is made ready

VARIABLES
  build,       \* [steal |-> the feature work_steal, io_timeout |-> the feature
               \*  io_timeout, os |-> the selector]
  at,          \* at[w]: where worker w is in EventLoop::run
  evfd,        \* evfd[w]: wake-ups posted to w's selector and not yet consumed
  timed,       \* timed[w]: next_expire of w is not None
  tries,       \* tries[w]: the targets w has tried in its steal loop
  local_queues, global_queues,
  next_id,     \* NEXT_THREAD_ID
  cur,         \* cur[w]: the coroutine w runs, None between two coroutines
  poster,      \* poster[p]: the worker p has pushed to and not yet woken
  asleep,      \* the suspended coroutines that nobody has made ready
  readied      \* how often each coroutine was made ready (bound)

\* Scheduler, the selectors' wake-up state and the two thread locals
vars == <<build, at, evfd, timed, tries, local_queues, global_queues, next_id,
          cur, poster, asleep, readied>>

Ids == 0..(workers - 1)

\* Scheduler::new and init_scheduler: every queue empty, every worker in its
\* first select, which has no timeout
Init ==
  /\ build \in [steal : BOOLEAN, io_timeout : BOOLEAN, os : {"epoll", "kqueue", "iocp"}]
  /\ build.os = "iocp" => build.io_timeout
  /\ at = [w \in Ids |-> "select"]
  /\ evfd = [w \in Ids |-> 0]
  /\ timed = [w \in Ids |-> FALSE]
  /\ tries = [w \in Ids |-> 0]
  /\ local_queues = [w \in Ids |-> <<>>]
  /\ global_queues = [w \in Ids |-> <<>>]
  /\ next_id = 0
  /\ cur = [w \in Ids |-> None]
  /\ poster = [p \in Posters |-> None]
  /\ asleep = Cos
  /\ readied = [c \in Cos |-> 0]

Wake(c) ==
  /\ c \in asleep
  /\ readied[c] < MaxReady
  /\ asleep' = asleep \ {c}
  /\ readied' = [readied EXCEPT ![c] = @ + 1]

-----------------------------------------------------------------------------
\* Selector::wakeup: an eventfd counts, ...
eventfd_write(n) == n + 1
\* ... a kqueue user event is one flag, ...
note_trigger(n) == 1
\* ... a completion port queues a packet for every post
post(n) == n + 1

wakeup(w) ==
  evfd' = [evfd EXCEPT ![w] = CASE build.os = "epoll" -> eventfd_write(@)
                                [] build.os = "kqueue" -> note_trigger(@)
                                [] build.os = "iocp" -> post(@)]

\* what is ready is pushed to the global queue of one worker ...
PushGlobal(p, id) ==
  /\ poster[p] = None
  /\ \E c \in Cos :
       /\ Wake(c)
       /\ global_queues' = [global_queues EXCEPT ![id] = Append(@, c)]
  /\ poster' = [poster EXCEPT ![p] = id]
  /\ UNCHANGED <<build, at, evfd, timed, tries, local_queues, cur>>

\* schedule on a thread that is no worker takes the next worker round robin
schedule(p) ==
  /\ PushGlobal(p, next_id)
  /\ next_id' = (next_id + 1) % workers

\* spawn takes the next one, or the one the Builder names
spawn(p) ==
  \/ schedule(p)
  \/ /\ \E id \in Ids : PushGlobal(p, id)
     /\ UNCHANGED next_id

\* ... then it wakes that worker
schedule_global(p) ==
  /\ poster[p] # None
  /\ wakeup(poster[p])
  /\ poster' = [poster EXCEPT ![p] = None]
  /\ UNCHANGED <<build, at, timed, tries, local_queues, global_queues, next_id, cur, asleep, readied>>

\* schedule on a worker, by the coroutine that runs there
schedule_with_id(w) ==
  /\ cur[w] # None
  /\ \E c \in Cos :
       /\ Wake(c)
       /\ local_queues' = [local_queues EXCEPT ![w] = Append(@, c)]
  /\ UNCHANGED <<build, at, evfd, timed, tries, global_queues, next_id, cur, poster>>

\* the running coroutine suspends, or yields and is pushed back at once
suspend(w) ==
  /\ cur[w] # None
  /\ \/ /\ asleep' = asleep \cup {cur[w]}
        /\ UNCHANGED <<local_queues, readied>>
     \/ /\ readied[cur[w]] < MaxReady
        /\ readied' = [readied EXCEPT ![cur[w]] = @ + 1]
        /\ local_queues' = [local_queues EXCEPT ![w] = Append(@, cur[w])]
        /\ UNCHANGED asleep
  /\ cur' = [cur EXCEPT ![w] = None]
  /\ UNCHANGED <<build, at, evfd, timed, tries, global_queues, next_id, poster>>

-----------------------------------------------------------------------------
\* collect_global: everything in the global queue moves to the local queue
Collected(w) ==
  /\ local_queues' = [local_queues EXCEPT ![w] = @ \o global_queues[w]]
  /\ global_queues' = [global_queues EXCEPT ![w] = <<>>]

\* epoll: the eventfd stays readable until it is read
epoll_wait(w) ==
  /\ build.os = "epoll"
  /\ evfd[w] > 0
  /\ evfd' = evfd

\* mutant of epoll_read: the eventfd is cleared after the global queue
epoll_read_late(w) ==
  /\ build.os = "epoll"
  /\ \/ /\ at[w] = "event"
        /\ Collected(w)
        /\ at' = [at EXCEPT ![w] = "read"]
        /\ UNCHANGED evfd
     \/ /\ at[w] = "read"
        /\ evfd' = [evfd EXCEPT ![w] = 0]
        /\ at' = [at EXCEPT ![w] = "run"]
        /\ UNCHANGED <<local_queues, global_queues>>
  /\ UNCHANGED <<build, timed, tries, next_id, cur, poster, asleep, readied>>

\* ... which is the first thing select does with a wake-up event
epoll_read(w) ==
  /\ build.os = "epoll"
  /\ at[w] = "event"
  /\ evfd' = [evfd EXCEPT ![w] = 0]
  /\ at' = [at EXCEPT ![w] = "collect"]
  /\ UNCHANGED <<build, timed, tries, local_queues, global_queues, next_id, cur, poster, asleep, readied>>

\* kqueue: EV_CLEAR resets the user event when it is delivered
kevent(w) ==
  /\ build.os = "kqueue"
  /\ evfd[w] > 0
  /\ evfd' = [evfd EXCEPT ![w] = 0]

\* iocp: get_many dequeues every packet, each one collects once
get_many(w) ==
  /\ build.os = "iocp"
  /\ evfd[w] > 0
  /\ evfd' = [evfd EXCEPT ![w] = 0]

\* select returns from the kernel with a wake-up, or with nothing when the
\* timeout of a later round ends; a build without io_timeout passes no
\* timeout to the kernel.  After an error run selects again with a timeout,
\* in a later round a step that changes nothing
select(w) ==
  /\ at[w] = "select"
  /\ \/ /\ epoll_wait(w) \/ kevent(w) \/ get_many(w)
        /\ at' = [at EXCEPT ![w] = IF build.os = "epoll" THEN "event" ELSE "collect"]
     \/ /\ timed[w] /\ build.io_timeout
        /\ evfd[w] = 0
        /\ at' = [at EXCEPT ![w] = "run"]
        /\ UNCHANGED evfd
  /\ UNCHANGED <<build, timed, tries, local_queues, global_queues, next_id, cur, poster, asleep, readied>>

collect_global(w) ==
  /\ at[w] = "collect"
  /\ Collected(w)
  /\ at' = [at EXCEPT ![w] = "run"]
  /\ UNCHANGED <<build, evfd, timed, tries, next_id, cur, poster, asleep, readied>>

\* run_queued_tasks: the next coroutine of the local queue runs; with none, a
\* worker that steals first looks at its global queue
run_queued_tasks(w) ==
  /\ at[w] = "run"
  /\ cur[w] = None
  /\ IF local_queues[w] # <<>>
     THEN /\ cur' = [cur EXCEPT ![w] = Head(local_queues[w])]
          /\ local_queues' = [local_queues EXCEPT ![w] = Tail(@)]
          /\ UNCHANGED <<at, global_queues>>
     ELSE IF build.steal
     THEN /\ Collected(w)
          /\ at' = [at EXCEPT ![w] = IF global_queues[w] # <<>> THEN "run" ELSE "steal"]
          /\ UNCHANGED cur
     ELSE /\ at' = [at EXCEPT ![w] = "timers"]
          /\ UNCHANGED <<cur, local_queues, global_queues>>
  /\ UNCHANGED <<build, evfd, timed, tries, next_id, poster, asleep, readied>>

\* steal_into: some of the oldest coroutines of the target's queue move; the
\* last of them runs, the others go to the thief's queue
Stolen(w, t, n) ==
  /\ cur' = [cur EXCEPT ![w] = local_queues[t][n]]
  /\ local_queues' = [local_queues EXCEPT
                        ![t] = SubSeq(@, n + 1, Len(@)),
                        ![w] = @ \o SubSeq(local_queues[t], 1, n - 1)]

\* the steal loop: up to three other workers in turn, then run_queued_tasks
\* returns
steal(w) ==
  LET max_steal == IF workers - 1 < 3 THEN workers - 1 ELSE 3
      target == (w + tries[w] + 1) % workers IN
  /\ at[w] = "steal"
  /\ \/ /\ tries[w] < max_steal
        /\ \E n \in 1..Len(local_queues[target]) : Stolen(w, target, n)
        /\ at' = [at EXCEPT ![w] = "run"]
        /\ tries' = [tries EXCEPT ![w] = 0]
     \/ /\ tries[w] < max_steal
        /\ local_queues[target] = <<>>
        /\ tries' = [tries EXCEPT ![w] = @ + 1]
        /\ UNCHANGED <<at, cur, local_queues>>
     \/ /\ tries[w] = max_steal
        /\ at' = [at EXCEPT ![w] = "timers"]
        /\ tries' = [tries EXCEPT ![w] = 0]
        /\ UNCHANGED <<cur, local_queues>>
  /\ UNCHANGED <<build, evfd, timed, global_queues, next_id, poster, asleep, readied>>

\* timeout_handler on unix: the coroutine whose io timed out runs at once
timeout_handler(w) ==
  /\ at[w] = "timers"
  /\ cur[w] = None
  /\ build.io_timeout /\ build.os # "iocp"
  /\ \E c \in Cos :
       /\ readied[c] > 0
       /\ Wake(c)
       /\ cur' = [cur EXCEPT ![w] = c]
  /\ UNCHANGED <<build, at, evfd, timed, tries, local_queues, global_queues, next_id, poster>>

\* schedule_timer ends.  The worker goes back to select although a coroutine
\* that a timer resumed may have left others, or itself, in the local queue:
\* EventLoop::run gives that select a timeout
schedule_timer(w) ==
  /\ at[w] = "timers"
  /\ cur[w] = None
  /\ at' = [at EXCEPT ![w] = "select"]
  /\ timed' = [timed EXCEPT ![w] = TRUE]
  /\ UNCHANGED <<build, evfd, tries, local_queues, global_queues, next_id, cur, poster, asleep, readied>>

\* a step of worker w outside the kernel
Busy(w) ==
  \/ epoll_read(w) \/ collect_global(w) \/ run_queued_tasks(w) \/ steal(w)
  \/ schedule_timer(w)

\* nothing is left to run: the workers sleep
Quiet ==
  /\ \A w \in Ids : at[w] = "select"
  /\ UNCHANGED vars

Next ==
  \/ \E p \in Posters : spawn(p) \/ schedule_global(p)
  \/ \E w \in Ids : select(w) \/ Busy(w) \/ timeout_handler(w)
  \/ \E w \in Ids : schedule_with_id(w) \/ suspend(w)
  \/ Quiet

\* select has a reason to return: a wake-up, or the end of the timeout that
\* run gives it.  The second is asked for only where the worker has left
\* something in its own queue
Returns(w) == select(w) /\ (evfd[w] > 0 \/ local_queues[w] # <<>>)

\* the threads run, and a coroutine that runs ends or suspends
Fairness ==
  /\ \A w \in Ids :
       /\ WF_vars(Returns(w))
       /\ WF_vars(Busy(w))
       /\ WF_vars(suspend(w))
  /\ \A p \in Posters : WF_vars(schedule_global(p))

Spec == Init /\ [][Next]_vars /\ Fairness

-----------------------------------------------------------------------------
\* how many times c stands in the sequence s
Times(c, s) == Cardinality({i \in DOMAIN s : s[i] = c})

(* Scheduling, collecting and stealing move coroutines between queues of   *)
(* different threads: each coroutine is at every moment suspended, on one  *)
(* worker, or in one queue once, and so it never runs on two threads.      *)
CoroutineOnce ==
  \A c \in Cos :
     LET Held(w) == Times(c, local_queues[w]) + Times(c, global_queues[w])
                      + (IF cur[w] = c THEN 1 ELSE 0) IN
     (IF c \in asleep THEN 1 ELSE 0)
       + MapThenSumSet(Held, Ids) = 1

(* No wake-up is lost (schedule_global against select): a coroutine that   *)
(* is ready in a queue is run by some worker, whatever the selector.  One  *)
(* in a global queue is run although its worker's select is not promised   *)
(* to time out; one that a coroutine resumed by an io timer has left in    *)
(* the local queue, without a wake-up, is run when that select times out.  *)
ReadyRuns ==
  \A c \in Cos : []<>(c \in asleep \/ \E w \in Ids : cur[w] = c)
=============================================================================
