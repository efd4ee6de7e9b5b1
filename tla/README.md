# Verification of may

TLA+ models of the coroutine library *may*: its parking, locks, channels,
queues, scheduler, timers and io; the TLC configurations that check them on
small instances; and TLAPS proofs for any instance. `PROJECT.json` maps every
definition to the lines it models and lists the hazards, the findings and, for
every property, a wrong variant of the code that the property catches.

## The system

| Part | State | Operations | Interacts with |
|---|---|---|---|
| `Park` (`park.rs`, `delay_drop.rs`, `yield_now.rs`) | token, coroutine slot `wait_co`, timer handle, `can_drop` | `park_timeout`, `subscribe`, `unpark`, drop | scheduler, timer thread, `Cancel` |
| `Cancel` (`cancel.rs`) | state bits, registered slot or io data, panic flag | `cancel`, `check_cancel`, `set_co`, `set_io`, disable/enable | every blocking call |
| Blockers (`blocking.rs`) | `unparked`, `release`, a parker | `park`, `unpark`, `set_release`, `take_release` | all of `sync` |
| `Mutex`, `RwLock`, `Condvar`, `Semphore`, `SyncFlag` | a counter and a queue of blockers | lock/wait, unlock/post/notify/fire | blockers, `Cancel` |
| `Barrier`, `WaitGroup` | counts under a mutex | wait, clone, drop | `Mutex`, `Condvar` |
| Channels `mpmc`, `mpsc`, `spsc` | a queue, port counters, blocker, semaphore or coroutine cell | send, recv, clone, drop | `Semphore`, blockers, timers |
| Coroutines (`coroutine_impl.rs`, `join.rs`, `scoped.rs`, `cqueue.rs`, `pool.rs`) | join state, result cell, event queue, pool | spawn, finish, join, cancel, poll | scheduler, blockers |
| Scheduler (`scheduler.rs`, `io/event_loop.rs`) | local and global queues, worker threads | schedule, spawn, run, steal | `may_queue`, selectors |
| Timers (`timeout_list.rs`) | a list per duration, a heap, the sleep of the thread | add, delete, fire | `Park`, io |
| Queues (`may_queue`) | linked blocks and indices | push, pop, bulk pop, steal, remove | scheduler, timers, locks |
| Io (`io/sys`, `net`, `os`) | event data, `io_flag`, `OVERLAPPED`, timers of a selector | select, subscribe, schedule, cancel, drop | scheduler, timers, `Cancel` |

What makes this code hard: a coroutine can be resumed by another thread while
the code that suspended it (its *kernel*, the `subscribe` of an event source)
is still running; a waiter can leave by timeout or cancellation at the very
moment it is handed a lock or a permit; counters are changed before or after
the queue they describe; and the timer thread, cancelers, wakers and the io
selector all race for one slot. The correctness properties that follow: nothing
handed over is lost or used twice, nobody sleeps for good on something that is
there, memory is not released under somebody who still uses it, and a result
has its cause.

## Modules

| Module | Models | State and actions |
|---|---|---|
| `Mutex` | `mutex.rs`, `SyncBlocker` | an actor is a call of `lock` or `try_lock`; one action per atomic operation |
| `AbstractLock` | what a lock promises | status of each user |
| `Park` | `park.rs`, `delay_drop.rs`, `yield_with`, `Cancel`, the timer handler | one coroutine, its Parks, the kernel of each Park, wakers, a canceler, the timer thread |
| `ThreadPark` | the parker of a thread (`blocking.rs`) | token, condition variable, wakers, timeouts |
| `SyncBlocker` | the hand-off flags of `blocking.rs` | shared by `Condvar`, `RwLock`, `SyncFlag` |
| `Semphore`, `AbstractSemaphore` | `semphore.rs`; its value | wait, timed wait, `try_wait` and post calls |
| `Condvar`, `Monitor` | `condvar.rs`; a caller with consumers, producers and a closer | wait, forwarding of a notify past a waiter that leaves |
| `Barrier`, `WaitGroup` | `barrier.rs`, `wait_group.rs` | the caller's code over `Condvar` |
| `RwLock`, `SyncFlag` | `rwlock.rs`, `sync_flag.rs` | calls, one action per atomic operation |
| `Mpmc` | `mpmc.rs` | handles of both kinds over an instance of `Semphore`, whose stop predicate is `tx_ports = 0` |
| `Mpsc`, `Spsc` | `mpsc.rs`, `spsc.rs` | sender, receiver, and for `Spsc` the kernel, timer and canceler of its own event sources |
| `Join`, `Scope`, `Cqueue` | `join.rs`, `scoped.rs` with the end of a coroutine, `cqueue.rs` | a parent and the coroutines it spawns |
| `Scheduler` | `scheduler.rs`, event loop, the wake-up of the three selectors | workers, posters, queues, io timers that run coroutines |
| `TimeoutList` | `timeout_list.rs` | threads that add and delete, the timer thread, a clock that stops at its maximum |
| `MpscQueue`, `SpscQueue`, `SpmcQueue`, `MpscList` | `may_queue` | producers and consumers over an explicit memory of blocks |
| `AbstractQueue` | what those queues promise | a sequence |
| `Pool`, `Poison` | `pool.rs`, `poison.rs` with the cancel panic flag | users; coroutines that unwind in turns on a thread |
| `UnixIo`, `UnixOps` | `io/sys/unix` | a socket: its owner, `subscribe`, selector, io timers, canceler, waker; `UnixOps` holds how the operations differ, and which one each call of `net` and `os` suspends in |
| `WinIo`, `WinOps` | `io/sys/windows` | an operation: coroutine, `subscribe`, the system, io thread, canceler, timers |
| `MutexProofs`, `SemphoreProofs`, `MpmcProofs`, `ParkProofs`, `MpscProofs`, `ScopeProofs`, `UnixIoProofs`, `WinIoProofs` | theorems about the module each is named after | |
| `MC*` | | the instances TLC checks |

Conventions. A step is one access to shared memory; a `compare_exchange` loop
is the step of its successful exchange, and what is done with a mutex held is
one step. Memory is sequentially consistent in the models. For the locks'
counters and blocker flags that is what the code asks for (SeqCst); `Park`,
`Cancel`, the queues and the port counters use Acquire/Release accesses, so
there it is an assumption, and reorderings those orderings permit are not
explored. `expect` and `debug_assert` are state properties rather than
branches. A definition commented "mutant of" is a deliberately wrong variant
used to see that a property can fail; no specification refers to it.

A component is used by another through what was shown of it: `Condvar` and the
`rlock` of `RwLock` stand on the abstract lock that `Mutex` implements
(`Refinement`), `Mpmc` contains a whole `Semphore`, the channels and the
scheduler use FIFO queues that `MpscQueue`, `SpscQueue` and `MpscList`
implement, and a blocking call outside `Park` uses the token that `Park` and
`ThreadPark` keep.

`Mutex`. `pc` is the next atomic operation of a call. The right to the lock is
a *permit*: held by a call that has the guard or walks the hand-off chain
(`Active`), by a waiter that has been handed the lock (`Granted`), or lying in
the release flag of a waiter that is unwinding (`Flagged`). `Shielded` calls
are those made under `disable_cancel` (condvar and rwlock do that).

`Park`. `loc` says where the coroutine is; `kpc[p]` is the step of Park `p`'s
subscribe; `host` and `under` are the kernels beneath a coroutine or another
kernel on one stack, which `fast_wake_up` and the nested subscribes build.
`OtherUnwinds` says that `thread::panicking()` may be true because of somebody
else: the unwind of another coroutine can be suspended on the thread.

`Semphore`. A permit is in `cnt`, carried by a call (`Carried`), handed to a
waiter (`Granted`), or acquired. `Slots` are the waiters whose `fetch_sub`
stands without a permit of their own. `PermitBalance` relates the three.

`SyncBlocker`. A blocker is a pair of the call and the number of its wait,
because every wait allocates a fresh one while an old one may still be queued.

`Scheduler`. `build` picks the selector (epoll, kqueue or iocp) whose wake-up
the run uses, and the features `work_steal` and `io_timeout`. A wake-up is a
write and later a read, so one that was consumed before the queue was looked at
is distinguished from one that was not. A worker's round is select, collect,
`run_queued_tasks` with its steal loop, and last the io timers, each of which
runs a coroutine on the worker; what that one leaves in the local queue is
there when the worker selects again. After an error of `select` the loop selects
again with a timeout; that of the very first select is left out.

The queues of `may_queue`. `mem` maps a small set of addresses to blocks, free
or live. An allocation takes the lowest free address, so a freed block comes
back soon, at an address another thread may still hold. `reg` holds what a
thread has read. Indices count from 0 and do not come near 2^64 (`bulk_end` of
`spsc.rs` is not written for that).

`TimeoutList`. Time is a counter that stops at `MaxTime`; `U64_MAX` is the
largest deadline, to which `timeout_deadline` cuts a duration. `HASH_CAP` bounds
the map of intervals, as in the code.

`Poison`. Coroutines take turns on one thread and may be suspended in their
unwinds; `masked` is a history of the panics that met the unwind of another.

`UnixIo`. `k[i]` is what is left of the `subscribe` of suspension `i`, which
runs on although the coroutine may be back; `timers[i]` is its io timer. `life`
follows the EventData from `add_socket` through `del_fd` and `free_ev` to the
free. `env` chooses who else is there, a canceler, a `WaitIoWaker`, or a thread
that does its io through a proxy coroutine.

`WinIo`. `ev[i]` is the EventData of operation `i`, with the count of its Arcs
reduced to the operation's (`own`) and the cancel slot's (`io`). The wait of
`DelayDrop` is a loop of `yield_now` (`YieldInDrop`), which a cancel can end.

That `thread::panicking()` is a property of the thread, and true for a coroutine
that runs while another's unwind is suspended there, is in `Park`, `Scope` and
`Poison`. The io modules have one coroutine and leave it out.

## Runs

A run that covers several components starts in any one of them and stays there
(`part`): the components share no state in that run, and TLC checks each of
them completely. States and times are of one machine with two workers.

| Run | Components and instance | Shows |
|---|---|---|
| `mutex` | `Mutex` with 3 calls (a thread, 2 coroutines, one of them shielded); beside it one `Park` with 2 wakers, 2 parks, a cancel. 119 k states | the inductive invariant, mutual exclusion, hand-off in order; a waiting `lock` ends if guards are dropped and a canceled waiter gets out anyway; refinement of `AbstractLock`; unpark and cancel resume the coroutine, and the drop of the Park ends unless a cancel comes |
| `park` | 2 Parks, 2 wakers, 2 parks each, timeouts, 1 cancel, unwinds of others on the thread. 2.9 M states | no lost unpark, no Park freed under its kernel, kernels nested, results have causes |
| `sync` | `Semphore` (3 waits, 2 can leave, 1 permit, 2 posts), `Monitor` (2 consumers, 2 producers, a closer), `Barrier` (4 calls, groups of 2), `WaitGroup` (3), `SyncFlag` (2 waiters, a firer), `RwLock` (3 readers, one of them `try_read`, a writer), `ThreadPark` (3 parks, 2 wakers). 163 k states | permits are exact and the semaphore refines its value; a notify given to a waiter that leaves reaches another; nobody passes a barrier, wait group, flag or park without its cause; readers and writer exclude each other and every call ends, whoever is canceled; everybody whose cause has come wakes |
| `channels` | `Mpmc` (2 and 2 handles), `Mpsc` (2 senders, 2 values each), `Spsc` (2 values, coroutine and thread), `Scope` and `Cqueue` (2 coroutines, panics, a cancel). 517 k states | permits match values; the coroutine of an `Spsc` wait is resumed once and its source outlives the kernel; a channel's end is reported when it is real; receivers wake for a value and for the end; a scope outlives what it spawned and keeps its panic unless it is told of it while the thread is panicking; joins end |
| `io` | `UnixIo` (2 owners, 2 suspensions, 1 event), `WinIo` (2 operations of any kind), `Scheduler` (2 workers, 2 coroutines, a poster, three selectors with and without `work_steal` and `io_timeout`). 636 k states | no event of freed EventData; no `OVERLAPPED` the system has is freed; no frame is left under its `subscribe`, but for a cancel in the wait itself; a coroutine is in one place; a suspended io call wakes for its event and for a cancel; a ready coroutine runs |
| `queues` | `MpscQueue` (2 producers, 2 pushes each, blocks of 2), `MpscList` (2 producers), `SpscQueue` (5 pushes, both builds), `SpmcQueue` (owner, 2 thieves), `Pool` (4 users, capacity 1), `Poison` (3 coroutines, one thread), `TimeoutList` (2 timers, 3 lists). 670 k states | no use of a freed block or node, nothing lost or taken twice, and `MpscQueue`, `MpscList` and `SpscQueue` refine `AbstractQueue`; the pool's count is its content between calls; a timer is never early, fires, and its list is in the heap once; a cancel does not poison a lock, and a panic does that neither falls into the unwind of another coroutine on the thread nor meets a cancel panic there |

Six more runs are expected to fail; see "Where code and text disagree".

Bounds. Every hand-off involves one call that passes and one that receives,
and the hard cases add one that leaves in between and one that registers
meanwhile: three calls for the mutex (the proof covers any number), three waits
and two posts for the semaphore. In `Park` two Parks are needed for a kernel of
an earlier park to meet a later one, and two calls on one Park for a stale
timer to meet the next call. A queue's block holds 2 slots, so that a few pushes
fill a block, link the next and let the first be freed; the addresses are few enough
to be used again. The four calls of the barrier make two generations. Two
suspensions and two owners let the rest of a `subscribe` meet the next
operation and the next owner of a socket. `UnixIo` over every operation of
`UnixOps` instead of the three kinds of the `io` run (timed or not, cancelable
or not, consuming or not) was also checked alone, 1.3 M states, with the same
result. `MaxCalls`, `MaxCancels`, `MaxSends`, `MaxPops`, `MaxReady`,
`MaxEvents` and the like only bound how often an environment acts. Deadlock is
checked except in the instances that contain the hang of `Mpmc` described
below.

Fairness. Weak fairness of a call's own steps and of a coroutine's kernel:
threads run and workers serve their queues. A selector returns when it has an
event or a wake-up. `EventLoop::run` gives every select but the first a timeout
(`t.or(Some(timeout_ns))`), and a build with `io_timeout` passes it on; that such
a select ends is assumed only for a worker that has left something in its own
queue (`Returns`), so what is in a global queue needs its wake-up. Nothing obliges a waker,
a canceler, a poster, a sender or a peer to act, but what it has begun goes on;
that guards are dropped is a hypothesis of `LockCompletes`, and in `RwLock` part
of a call.
In `Park` an armed timer expires, in `TimeoutList` time goes on, and on Windows
the system completes an operation it was asked to abort.

Liveness properties have the form "infinitely often not (waiting although the
cause is there)": a wait that has its cause does not last.

## Where code and text disagree

Each has a run that TLC refutes; `PROJECT.json` quotes the text.

* `park_lost_timeout`: the timer is armed before the slot is filled; expiring
  in between, it is lost and the park has no timeout.
* `park_drop_spin`: a canceled coroutine on top of its own kernel spins in
  `Park::drop`.
* `mpmc_hang`: `has_waiters` reads `cnt < 0`, but a receiver popped before its
  own `fetch_sub` hides another one; the last sender then leaves that one
  parked for good.
* `cqueue`: the last access of a select coroutine to its `Cqueue` comes after
  the count that lets `Cqueue::drop` return.
* `unix`: an io timer already popped ends the next operation on the socket.
* `windows`: `io_data` of an io source is dropped before `can_drop`, so
  `subscribe` can clone an Arc that was given up.

Noticed while modelling, in the model or in the comments of a definition, and
not a run of its own:

* `park.rs:212`: with two Parks, a late kernel of the first replaces the slot
  registered for cancel, and the cancel does not resume the coroutine.
  `CancelResumes` is therefore checked with one Park. `sleep.rs` registers in
  the same way.
* `park.rs:212-216`: when a waker holds the last Arc of a Park, the coroutine
  can finish, and its `Cancel` go, while `subscribe` still uses it.
* `mpmc.rs:100`: `Disconnected` can be reported beside a value that was sent
  between the two reads.
* `spsc.rs:413-420`: a `recv_timeout` that is back with an empty queue and
  without `TimedOut` reports `Disconnected`, whether or not the sender is gone;
  `EndIsReal` is about `recv` and `try_recv`.
* `io/sys/unix`: a timer that fires before the coroutine is in the cell is lost
  (as in `Park`), and `EventData::timer` is written without synchronization.
* `iocp.rs:226-235`: a timer may lie in the list of another thread than the one
  that handles the packet, and stays armed when the overlapped call fails.
* `scoped.rs:135`: a canceled parent leaves its joins at once (`join_canceled`),
  and the scope with its coroutines running; `ScopeOutlives` excepts it.
* `scoped.rs:54`: the panic of a coroutine is not passed on while the thread is
  panicking, be it because of another coroutine whose unwind is suspended there.
  The scope is then left as if nothing had happened; `PanicPropagates` excepts
  what was dropped in this way (`muted`).
* `park.rs:140`: a canceled coroutine that parks while the thread is panicking
  (a Drop in its own unwind, or the suspended unwind of another) is not stopped:
  `yield_with` does not suspend it, `check_cancel` clears the para and does not
  panic, and `park_timeout` returns `Ok(())` without an unpark, where its comment
  names `Err(ParkError::Canceled)`. `ResultHasCause` excepts that Ok.
* `delay_drop.rs:36`: a cancel that arrives while the drop of a Windows io source
  waits for `subscribe` makes `yield_now` panic, and the frame is left without a
  further wait; `SubscribeOutlived` excepts it. `Park::drop` waits twice.
* `epoll.rs:143`: what a coroutine resumed by an io timer schedules on its worker
  is run only when the next select ends, by its timeout if by nothing else.
* `poison.rs`: the flag of a cancel unwind is per thread; a coroutine that
  moves to another thread in the middle of its unwind is not covered, and
  `Poison` has one thread. A panic that overlaps a cancel unwind of another
  coroutine on its thread does not poison (`poison.rs:40`).
* `pool.rs`: the capacity is compared with a count that other calls are
  changing, so it is no strict bound.

## Proofs

`MutexProofs` proves, for any set of calls, coroutines and shielded calls
(assumption `CallsAssumption`): `Invariance`, and from it
`MutualExclusionHolds`, `SinglePopperHolds`, `LockNotLostHolds`,
`NoNullBlockerHolds`, `FifoHandOffHolds`, `TypeCorrect`, and `Refinement`, that
`Mutex` implements `AbstractLock`.

The argument. Mutual exclusion alone is not inductive: a waiter about to get
the lock looks like any other. `IInv` adds that there is one permit
(`OnePermit`) exactly when `cnt` is not 0 (`LockNotLost`); that `cnt` is the
number of calls between their `fetch_add` and the `fetch_sub` made for them
(`CntIsCounted`), so that `cnt > 1` after an unlock means another registered
call; that such a call's blocker is queued, popped or marked (`NoBlockerLost`),
so that the pop finds it; and that queued blockers are fresh (`QueueFresh`).
`LocalsOK` and `CancelOK` tie local variables to the program counter. The step
proof has one case per action; `CountedFrame`, `CountedAdd` and `CountedRemove`
handle the cardinality.

`SemphoreProofs` proves, for any finite sets of wait and post calls, any
initial value and any choice of the waits that can leave or stop
(`SemphoreAssumption`), that the accounting `PermitsExact` holds
(`PermitsSafe`) and that `Semphore` implements `AbstractSemaphore`
(`SemaphoreRefinement`). The accounting says that `cnt` is what was put in less
what was taken out less the open slots, and that each slot has a permit of its
own when one is due; it says nothing about how a permit travels, so it is not
inductive. `SemInv` adds the hand-off (`Hand`: a blocker is queued once or
carried by one call, and its flags agree with where its owner and its waker
are) and that whoever waits can be reached from the queue or from a call that
popped it (`Reached`). The step proof first shows what each action does to the
permits (`StepMoves`: at most one permit moves, in one of a few ways), and then
that every such move keeps the sums. That the pop of `wakeup_one` finds a
waiter (`got null blocker!`) is counted: by the balance there are at least as
many queued slots as calls about to pop.

`MpmcProofs` proves, for any finite sets of senders and receivers, any number
of sends and any choice of receivers that can leave (`MpmcAssumption`), that
the channel and its semaphore agree (`MpmcIsSafe`), and that the
`got null blocker!` of the semaphore holds in this use of it too
(`MpmcNoNullBlocker`). The semaphore is not proved again: the lemmas of
`SemphoreProofs` are instantiated for the channel's semaphore. A channel posts
and waits more often than once per handle, so those lemmas are about the part
of `SemInv` that does not count posts from the beginning (`HandOff`), and about
`Total`, which only a call started anew changes (`HandOffStep`, `PostAgain`,
`WaitAgain`). `MpmcInv` adds to `HandOff` that the port counters count the open
handles (`Ports`), where a handle can be in the channel against its semaphore
call and the ports (`Placed`: who stops, drains or found no item did so with
no sender left), and that while both ends are open `Total` and the queue's
length differ by the receivers that have popped and by a constant (`Items`). That
a receiver with a permit finds a value is then counted: the permits taken and
not yet used are at most the values. `ChannelStep` sorts the channel's steps by
what they do to the semaphore, and the four sorts meet the four lemmas.

`ParkProofs` proves, for any set of Parks and wakers, any number of calls and
cancels, and any choice of timeouts, ignored cancels and shields
(`ParkAssumption`), the two safety properties of the `park` run: `ParkIsSafe`
and `UnparkNotLost`. `ParkInv` adds where the coroutine is against its program
counter and its kernels (`Place`: a kernel before the store to `wait_co` is the
one of the current Park, and `can_drop` is held exactly from `delay_drop` to
the guard's drop), how kernels lie beneath each other on a stack (`Stack`), who
holds an `Arc` (`Owned`: who is in `drop` found no other reference, and a freed
Park has no kernel), that a coroutine that runs without a para was unparked, or canceled on a
panicking thread (`Causes`) and that a canceled one was canceled (`Canceling`), and, for the
bound of the type invariant, that every timer entry belongs to a call (`Room`).
There is one lemma per actor and one case per action; a conjunct an action
leaves alone follows from a frame lemma.

`MpscProofs` proves, for any finite set of senders, that `Disconnected` is the
last word of a receiver and that no waiter is registered when the last handle
is dropped (`DisconnectSafe`). The invariant adds that `channels` counts the
live senders, that the second look of `try_recv` comes after the last of them,
and who will take a registration back.

`ScopeProofs` proves, for any set of coroutines, that a scope outlives them
unless its parent is canceled, and that one left normally has the result of
each, or was told of its panic while the thread was panicking (`ScopesSafe`). The invariant adds that every spawned coroutine has its join
ahead of it in `dtors` or behind it, and that a join that is behind has seen
the end.

`UnixIoProofs` proves, for any coroutines, operations, events and number of
suspensions, that no event of a freed EventData is handled (`EventDataSafe`)
and that a suspended coroutine is held in exactly one place (`HeldOnceSafe`).
The first needs that an event is pending for a registered fd only, that
`IoData::drop` takes the fd out of epoll before it gives the EventData away,
and that the selector thread frees only between events. The second needs that
the three holders (a `subscribe` that has not stored yet, the cell, the
selector thread) exclude each other, that each is there only while the
coroutine is suspended, and that the `subscribe` is the newest one (`HInv`).

`WinIoProofs` proves, for any operations and any number of them, that the
system's `OVERLAPPED` is alive and holds its coroutine (`OverlappedSafe`) and
that no frame is left under its `subscribe`, unless a cancel ends the wait of
`DelayDrop` itself (`FrameSafe`). `WInv` says that
only the current operation is in the system, and only while its coroutine is
suspended; that memory goes after its owner, and an operation owns its
EventData until it is dropped; and that `subscribe` before the overlapped call
excludes any completion.

Where a number of suspensions or operations occurs, the only hypothesis is that
it is a natural number. The statements are those the runs check on their
instances (`HeldOnce` as a part of `CoroutineOnce`, `DisconnectedLast` and
`NoWaiterLeft` as parts of `EndIsReal`, `ScopeOutlives` and `PanicPropagates`
as parts of `ScopeSafe`). TLC checked every inductive invariant before it was
proved; that of the mutex is part of the `mutex` run.

Only model-checked:

* Liveness, which depends on fairness and is outside what TLAPS can prove here.
* The queues (`SpmcSafe`, `BlocksSafe` and the refinements of `AbstractQueue`):
  an invariant of them speaks of what a walk over a chain of blocks finds, and
  would need induction over its length.
* `SpscSafe`, `WaitsJustified`, `RwSafe`, `PoolCounted`, `PoisonSafe`,
  `TimersSound` and the scheduler's part of `CoroutineOnce`, which
  have no proof.

## Not modelled

* `Sleep` (`sleep.rs`): a timer entry that holds the coroutine itself; its
  steps are those of `Park::subscribe` without the token.
* `FastBlocker` and `Park::unpark_impl(b_sync)`: the waker runs the coroutine
  at once instead of scheduling it.
* `spawn_local`, the options of `Builder`, names and handles of coroutines.
* `mod_fd` and the error paths of registering a socket.
* `may_queue::mpsc_list`, which nothing uses, and the single `pop` of a thief
  of `spmc`, which the scheduler does not call. `len`, `is_empty` and `peek`
  are reads of words the models have.
* Local storage (`local.rs`), a map owned by one coroutine; the atomic cells,
  single operations that are part of the steps that use them; configuration,
  independent settings read at start; macros; the bindings of system calls
  (`miow.rs`); accessors, formatting and conversions of `net` and `os`, which
  have no shared state.
* The permit count at `isize::MAX`, which the code asserts.
* Memory orderings weaker than sequential consistency, and the data values
  carry.
