# Verification of armd

`armd` (`src/daemon`) is a small Linux daemon made of modules. Each module has a
ring buffer of messages, a mutex and a libuv async handle; any thread may post
to it, and the one libuv loop thread delivers. `main` registers the modules,
starts them level by level, runs the loop until SIGINT or SIGTERM, and stops
them. This directory holds the TLA+ models of that machinery, the TLC runs that
check them and TLAPS proofs about them.

## Inventory

| part | state | operations | what makes it correct |
|---|---|---|---|
| message queue (`core/module.c`) | `head`, `tail`, `msgs`, `q_mutex` of each module | `armd_module_post` (any thread), `async_callback` (loop thread) | a bounded FIFO box: nothing lost, repeated or reordered; full means full; a post returns |
| libuv async (`unix/async.c`) | `pending` and busy flag of each handle, `loop->async_handles`, the eventfd | `uv_async_init`, `uv_async_send` (any thread, signal handlers), `uv__async_io`, `uv__async_close` | no lost wake-up; no sender is left behind a close |
| module lifecycle (`core/module.c`) | handle, mutex and ring of a module | `armd_module_start`, `armd_module_stop` | every handle closed once, and only after its init |
| registry (`core/module_registry.c`, `datastructure.h`) | one intrusive ring per level | `register`, `unregister`, `find`, `startall`, `stopall` | the rings stay rings, also when callbacks change them in the middle of a walk; the walks end and miss nobody; levels nest |
| main (`init/main.c`) | `g_shutdown_async`, exit status | `run_regcalls`, `main`, its `fail:` path, `signal_handler`, `on_shutdown_async` | a signal ends the program, with everything closed |
| monitor (`modules/system/monitor.c`) | timer, tick | `on_start`, timer callback, `on_message`, `on_stop` | timer closed with the module; posts to itself from the loop thread |
| libuv loop (`unix/core.c`, `uv-common.c`) | active and closing handles | `uv_run`, `uv_close`, closing pass, `uv_loop_close` | returns exactly when no handle is left |
| libuv timers (`timer.c`, `unix/core.c`) | expiry, repeat and state of each timer, loop time, the queue of due timers | init, start, stop, again, set_repeat, close; `uv__run_timers`, `uv__next_timeout`, the poll | no timer early, out of order, forgotten or called after its stop; the loop always gets to poll |
| libuv heap (`heap-inl.h`) | `left`, `right`, `parent` of each node, `min`, `nelts` | `heap_insert`, `heap_remove` | a complete, ordered tree; a set and its least node |
| libuv thread pool (`threadpool.c`) | two work queues, idle and slow counters, the loop's completion queue, two mutexes, a condition variable | `worker`, `uv__work_submit`, `uv_cancel`, `uv__work_done`, `uv__threadpool_cleanup` | no request lost or run twice; no lost signal; slow I/O does not starve the rest; cleanup ends |
| the daemon as a whole | all of the above that the modules see | modules that post to one another from their callbacks | no post outside a module's life; mail is handled; a signal ends the program |

The loop thread calls everything except `armd_module_post`, `uv_async_send` and
the signal handler. The shared state is the ring (under the mutex), `pending`
and busy (atomics) and the eventfd. The hard behaviours are the two lock-free
handshakes of `async.c` with senders at any point, `stopall` running *inside*
`uv__async_io`'s walk over the handles it closes, a signal at any moment, and
start-up that fails half way. `PROJECT.json` lists the hazards line by line.

## Modules

* **`Mailbox`** is the abstract specification of posting: one bounded FIFO box
  per module, one message in hand, `Call`, the one answer to each call (`Accept`
  of the very message it was given, or `Refuse`: `-ENOSPC`, only when full),
  `Deliver`, `Close`. It has no mutex, ring or wake-up.
* **`ModuleMailbox`** is the detailed model: `armd_module_post` and
  `uv_async_send` step by step for each thread (`pc[t]`), the loop thread
  through `uv_run`, `uv__async_io`, `async_callback`, `armd_module_stopall` and
  `uv_close` (`phase`). One action is one access to shared state, or several
  under the mutex that no unlocked access can tell apart. `ImplementsMailbox`
  maps it to `Mailbox`: the box is the ring's contents until the module is
  stopped, and a poster's call is its target and its current post (`Called`).
* **`MCModuleMailbox`** gives TLC its level functions and symmetry.
* **`ModuleLifecycle`** is `main` from its first regcall to its return. The
  level lists are sequences; a handle is `zero`, `idle`, `active`, `closing` or
  `closed`; `crash` says which check of libuv ended the program. Regcalls and
  `on_start`s in `MayFailReg` and `MayFailStart` may return an error; modules in
  `HasTimer` treat a timer as `monitor.c` does. A module in `MayLackOps` may come
  without `mops`: `armd_module_start` refuses it before it initialises anything
  (`StartModuleRefused`), `armd_module_stop` skips it (`StopModuleSkips`), and main
  exits with status 1. `Init` leaves the levels and `mops` open, so a run covers every
  choice of them.
* **`LevelLists`** is the abstract registry: a sequence of modules per level,
  appended to by `Register`, shrunk by `Unregister`, with the order in which
  modules may start and stop and what `Find` returns.
* **`ModuleRegistry`** is `module_registry.c` on the links of `datastructure.h`:
  `next` and `prev` of every sentinel and module, `startall` and `stopall` node by
  node (`phase`, `level`, `node`), and between a call of `on_start` or `on_stop`
  and its return whatever the callback does to the registry. The list of a level
  (`Order`) is what a walk along `next` meets between its sentinel and itself
  (`IsRing`).
* **`IntrusiveQueue`** is `uv__queue_remove` (`Unlinked`) on queues that are kept as
  sequences: the due timers, the pool's work queues, the level lists.
* **`ArmdDaemon`** extends `ModuleLifecycle` with the loop between start and stop:
  the mailboxes, `uv_run`'s phases, `uv__async_io`'s walk, the timers that modules
  like the monitor own, and what callbacks post. Its actions are those of
  `ModuleLifecycle` with their mail, and the loop's own. `heard` and `dropped` record
  which heartbeats `on_message` was given and which a full ring refused.
* **`UvTimers`** is `timer.c` with the part of `uv_run` that calls it, a clock, and
  user code that may call any timer function in main, in a timer's callback and in
  another handle's. `uint64_t` ends at `MaxTime` and `int` at `MaxInt`. The heap is
  the set of its timers, with `HeapMin` the least of them under `timer_less_than`;
  one `Collect` is one iteration of the first loop of `uv__run_timers`. `base`,
  `entered` and `tmo` are `uv__io_poll`'s: when a signal ends `epoll_pwait`
  (`PollInterrupted`) the rest of the timeout is computed as the code does, from a
  `base` that stays where it was, so that a second interruption takes off the time before
  the first one again and the poll can only get shorter.
* **`PriorityQueue`** is what a heap promises, **`UvHeap`** is `heap-inl.h`:
  pointers of nodes, one loop iteration of the code per step. A node is its rank.
  `Path(i)` is the path that `heap_insert` and `heap_remove` build bit by bit, `Walk`
  what they reach along it. The properties do not use it: `NodeAt(i)` says which
  node is at place `i` by the numbering of a complete tree, a parent's number half of
  its child's.
* **`UvThreadPool`** is `threadpool.c`. Each stretch of code under one mutex is an
  action; `pc[w]` is a worker's place, `lpc` the loop thread's.
* **`ModuleMailboxProofs`, `ModuleLifecycleProofs`, `ArmdDaemonProofs`,
  `UvThreadPoolProofs`, `UvTimersProofs`, `ModuleRegistryProofs`, `UvHeapProofs`**
  hold the theorems, each about the module of its name. **`SequenceFacts`** has the
  lemmas on queues that they share, and `LeastNat`.

`ModuleMailbox` begins after a start-up without failure and carries the message
path; `ModuleLifecycle` carries failures and handle states and treats a
callback of the loop as one step. They meet in `armd_module_start`, `stop` and
`stopall`, of which each models the effects on its own state. `ArmdDaemon` puts
them together at a coarser grain: a post and the taking of a message are single
steps, as `ImplementsMailbox` says they look. `UvTimers` uses the heap as a set
with a least timer, as `ImplementsPriorityQueue` says it looks.

### Choices of the models

* Atomics are sequentially consistent. The one relaxed access, the cheap read of
  `pending` (`async.c:101`), may see a 1 that the loop has already cleared. The
  mutex makes up for it: after its clearing exchange the loop locks the mutex and looks
  at the ring. If that comes after the poster's unlock, it sees the message; if it
  comes before the poster's lock, the exchange happens before the poster's read,
  which then cannot see the older 1.
* Producers other than the loop thread are what `armd_module_post` is built for
  (it locks, and `uv_async_send` is libuv's only thread-safe call). In the
  present table only the monitor posts, from the loop thread, which is the
  thread `Loop` of the model. A signal handler's activation is a thread of its own in
  `Signallers`.
* `uv__async_io` takes handles from the head of the list and puts them back at the
  tail, so each walk visits the open handles in init order. `ScanHandle`
  takes the least one left, and a close removes a handle from what is left.
* A message is its poster and the number of the post, so that loss, repetition
  and order show. The payload is copied whole under the mutex.
* Locking a destroyed mutex does what glibc does: `EINVAL`, which the code does not
  look at. A thread that waited while the mutex was destroyed may also wait for
  ever; fairness does not promise it progress.
* `PollTimeout` is a due timer of any module: at any time the loop may run module
  code that posts. `UvTimers` says when a timer is due.
* `uv_async_init` has no failing branch, neither in `main` nor in
  `armd_module_start`: it fails only when the loop's eventfd cannot be made, and
  `uv_loop_init` made it for its own `wq_async` (`loop.c:97`). That handle is not
  modelled: nothing sends on it while the thread pool is idle.
* `ModuleRegistry` has the callers the registry needs and does not check. A module
  is registered while it is in no ring; `on_start` registers at its own level or
  above and takes out only modules that do not run; so does `on_stop`. Otherwise:
  after a second registration of a ring's only module the sentinel still points at
  it once it is deleted, and `stopall` stops it again, until `uv_close`'s assertion
  ends the program; an `on_start` that takes out its own
  module makes `startall` start it for ever (the mutant of `WalksEnd`); one that
  registers at a lower level has its module stopped without a start. Today's
  table registers one module, in a regcall, and nobody calls
  `armd_module_unregister`.
* `ArmdDaemon`: on_start and on_stop post to modules of lower levels, `on_message`
  to any module, a timer to its own module; a callback posts one message at most.
  A message carries the number of answers it may still cause (`MaxHops`): two
  modules that answer each other without end keep `async_callback` in its loop and
  starve the timers and the shutdown handle, which the mutant `OnMessageEchoes`
  shows. A post to a module that does not run is recorded (`stray`), and
  `NoStrayPost` says there is none.
* `UvTimers`: another active handle, as the daemon's async handles, keeps
  `uv_run` going; close callbacks do nothing (the daemon passes `NULL`). The clock
  stops at `MaxTime`, where `uint64_t` would. `start_id`, which orders timers of one
  expiry and counts up, is kept as what it decides: `older`, which of two timers was
  started first. `uv__io_poll` may return at any time for an event, and be
  interrupted at any time and any number of times.
* `UvThreadPool`: each request is submitted once, and `uv_cancel` is called only
  before its callback (the links of a request are stale afterwards). Spurious
  wake-ups of the condition variable are left out: a worker that wakes looks at the
  queue again. Requests still queued behind the exit message are never run; the
  process is leaving.
* `UvHeap` leaves out `heap_dequeue`, which has no caller, and what a removed
  node's own pointers hold, which `heap_insert` overwrites.

## Runs

| run | bounds | what it shows |
|---|---|---|
| `mailbox_safety` | 1 module, 2 producers and the loop, 1 signal, ring of 2, 2 posts each; 2.06 M states | `NoLostWakeup`, `CloseQuiesces`, `HandlerOnlyWhileOpen`, `RingExclusive` with every interleaving of posts, loop and shutdown |
| `mailbox_refinement` | 2 modules stopped against start order, 1 producer, 1 signal, ring of 3; 1.10 M states | `ImplementsMailbox` |
| `mailbox_liveness` | 1 module, 1 producer, 1 signal, ring of 3; 79 k states | `EventualDelivery`, `PostReturns`, `SignalEndsLoop` |
| `lifecycle` | 3 modules at all levels, 2 with timers, 2 failing regcalls, 2 failing `on_start`s, 1 module that may lack its operations; 7.8 k states | `LevelsNest`, `RegistryMatchesHandles`, `CleanExit`, `SignalEndsProgram` |
| `registry` | 3 modules, 2 of one name, 3 levels; 7 k states | `RingsWellFormed`, `WalksComplete`, `WalksEnd`, `ImplementsLevelLists` with callbacks that change the rings under the walks |
| `daemon` | 3 modules at all levels, 1 with a timer, rings for 2 messages, 1 answer per message, 2 heartbeats; 124 k states | `NoStrayPost`, `HeartbeatsKeepUp`, `MailHandled`, `SignalEndsDaemon` |
| `timers` | 2 timers, a clock to 3, int to 2, timeouts 0, 1, 3, repeats 0, 1; 241 k states | `OneHome`, `NoOversleep`, `FiresWhenDue`, `TimerFires`, `LoopPolls`, `CloseFinishes` |
| `heap` | 8 nodes; 44 k states | `HeapShape`, `ImplementsPriorityQueue` |
| `thread_pool` | 2 workers, 1 request for the CPU, 2 slow, 1 cancel; 61 k states | `RequestsKept`, `NoForgottenWork`, `CpuWorkRuns`, `EveryRequestDone`, `CleanupReturns` |
| `lifecycle_double_close` | 2 modules, failing `on_start` | violated: finding 1 |
| `lifecycle_never_started` | 2 modules, failing regcall | violated: finding 2 |

Why the bounds suffice: the ring of 2 holds one message, so it is full, wraps and
refuses within two posts, and the ring of 3 holds two, so order counts. Two
producers and the loop are enough for two threads to race for a slot while a third
is inside a send. `MaxPosts` caps each thread's posts (the code has no
cap); two posts let a thread meet its own earlier wake-up. One signal and three
modules cover every pair of levels and a module on either side of a failure.
The proofs below remove these bounds for the safety properties.
Three modules in the registry give a walk a node before, at and behind the one that
a callback touches, in a ring and in the next one; three levels have one below and
one above. In `daemon` a ring for two messages is filled by a heartbeat and an
answer, or by the `on_start`s of two modules above, and then drops the first
heartbeat. A clock of four ticks lets expiries be equal, wrap (1 + 3) and lie beyond
the range of int, and a poll of two ticks be interrupted before, at and behind its
half; two timers can each be due, stopped or restarted in the other's callback. A
heap of eight has four rows and every shape of the last one, and paths whose bits
read differently from either end. Two workers are the least for which slow I/O
leaves one free (with one, it may hold the pool for ever, and `CpuWorkRuns` does not
hold); two slow requests fill the threshold of one and leave one waiting.

Fairness. The kernel runs every runnable thread, so a call that has begun goes on
(`WF` of each thread's steps) and so does the loop thread (`WF` of `LoopStep`,
`MainStep`). Nobody has to post or to send a signal. `uv__async_spin` yields, so a
busy sender gets the processor. No strong fairness is used: a poster that waits for
a mutex relies on its rivals' posts being finite. `EventualDelivery` excepts
shutdown because `armd_module_stopall` throws away what a ring still holds.
In `UvTimers` the loop runs, callbacks return (their steps are `LoopStep`s) and time
passes. In `UvThreadPool` threads run and work on the CPU ends; slow I/O need not, so
`EveryRequestDone` and `CleanupReturns` name its end as their premise and
`CpuWorkRuns` does without. `ArmdDaemon` has one thread, and fairness for it.

## Findings

1. An `on_start` that fails makes `armd_module_start` close the module's async
   handle (`module.c:65`), but the module stays in the registry and main's fail
   path stops it again: `uv_close` on a closing handle, `assert` at `core.c:160`.
2. After a failing regcall or `on_start`, the fail path also stops modules that were
   never started: `uv_close` on a zeroed handle, `assert(0)` at `core.c:234` (or a
   null link in `uv_timer_stop` when `on_stop` stops a timer, as the monitor's does).

Both need a regcall or an `on_start` that fails, which `main.c` and `module.c`
handle explicitly. The only module in today's table is the monitor, whose
regcall and `on_start` cannot fail, so both wait for a second module. Neither
Makefile defines `NDEBUG`.

The models also show two things that no document contradicts: a post that begins
after `armd_module_stop` may return 0 and is never delivered, and neither is a message
that `on_stop` posts to its own module.

## Proofs

`ModuleMailboxProofs`, from the named assumptions of `ModuleMailbox` alone (a ring
of at least 2, finitely many threads, the loop thread no producer):

* `TypeCorrect`: `TypeOK` needs to know who is inside a post (`PostInv`), where the
  loop thread can be (`LoopInv`), and that the busy flag equals the *number* of
  senders between its two updates (`BusyInv`, with cardinalities of sets of threads),
  or the flag could leave `Nat`.
* `HandlersOpen` follows from `LoopInv`.
* `ClosedQuiet`: while `uv_close` spins, `pending` is 1, so any later exchange loses;
  when busy is 0, by `BusyInv`, nobody is before the write; and nothing
  clears `pending` of a handle that left the list (`CloseInv`).
* `WakeupsNotLost`: two halves. `WakeInv`: a pending open handle has a readable
  eventfd, a sender about to write it, a place in the scan under way, or is being
  closed. `OwedInv`: a handle owed a callback is pending, or has a sender before
  its exchange, or is being served. At `poll` the scan is over and nothing is
  being served, and what is left is `NoLostWakeup`.
* `RingMutex`: a thread inside the ring of a live mutex owns it (`MutexInv`).
* `MailboxRefined`: `ModuleMailbox` implements `Mailbox`. `RefinementInv` adds that a
  thread is inside a post exactly while its call has no answer (`RetInv`), that a
  mutex is destroyed by `armd_module_stop` alone (`AliveInv`), that a ring is empty
  before its module starts (`FreshInv`), that a poster who copies or publishes still
  holds the slot at `head` of a ring that is not full (`CopyInv`), and that the loop has a
  message in hand only in a callback (`HandInv`). Lemmas about the ring's indices say
  that publishing appends to its contents and taking removes the first. The begin of
  a post maps to `Call`, its publishing to `Accept`, its finding a full ring to `Refuse`,
  the loop's taking to `Deliver`, the callback's return to `Finish`, the end of a stop
  to `Close`, and the other steps to stutters.

`ModuleLifecycleProofs`, for any number of modules, levels, timers and failures:

* `LifecycleType` and `LevelsAlwaysNest`. The invariant (`IInv`) adds to `LevelsNest`
  that lists hold modules of their own level and every running module
  (`RegisterInv`), how far `startall` has come (`StartInv`) and that `stopall` has
  emptied the levels above (`StopInv`): nesting on the way down needs the last two,
  as a started module above the current level would outlive what it relies on.
* `RegistryAlwaysMatches`, `ExitIsClean` and `NoFailureNoAbort`. `HandleInv` says, for
  each stage of main, which modules are listed and in what state their two handles
  are. A module's timer goes with its async handle (`Paired`) except after an
  `on_start` that failed, and `Stopping` keeps that module listed. `uv_run` has every
  module (`Serving`) or none (`Closing`). A module that left its list must not be
  in it a second time, hence `Distinct`. The three theorems read the
  stage they need off `HandleInv`; `NoFailureNoAbort` has as its premise that no regcall and no
  `on_start` fails and no module lacks its operations. `OpsInv` says that a module
  without operations never gets a handle.

`ArmdDaemonProofs`, for any modules, levels, timers, ring sizes, hops and ticks:

* `DaemonIsLifecycle`: a step of the daemon is a step of `ModuleLifecycle` or leaves its
  variables alone, so the daemon inherits its theorems, `IInv` and `HandleInv`;
  `DaemonInv` adds the rings and the loop.
* `DaemonType`: by `DrainInv`, `async_callback` only works on a module of the running
  daemon.
* `NoPostGoesAstray`: a post's target runs. For `on_start` by `StartInv`, for `on_stop` by
  `LevelsNest`, for a timer or `on_message` because one open handle in `uv_run` means
  `Serving`.
* `HeartbeatsAreServed`: every heartbeat so far was handed over, refused, or waits in
  the ring (`CountInv`). A message in a ring has a wake-up (`WakeInv`), and a heartbeat
  that its timer left is in a ring whose handle the walk has yet to reach (`HeartInv`),
  so the next timers' pass finds none waiting.

`UvThreadPoolProofs`, for any workers, requests and calls of `uv_cancel`:

* `TypeCorrect`: the counters are cardinalities of sets of workers (`CountInv`), so
  that no decrement leaves `Nat`; `PlaceInv` says what each `pc` may hold.
* `RequestsAreKept`: a request is in exactly one of the two queues, a worker's
  hands, the canceller's, the completion queue or the loop's (`HomeInv`, `KeptInv`), and a
  queue never lists it twice (`QueueInv`), so that removing it once removes it.
* `NoSignalLost`: while a worker waits without having been signalled, the entries of
  `wq` that somebody may take are no more than the workers who are awake
  and not in slow work (`SignalInv`). `NoForgottenWork` alone is not inductive: one worker
  about to wake may be counted on by two entries. The marker of slow work, which
  is in the queue but cannot always be taken, is why the invariant counts
  entries that *may* be taken.

`UvTimersProofs`, for any timers, ranges of the clock and of int, timeouts and repeats:

* `TypeCorrect` and `TimersHaveOneHome`, which is inductive with the types.
* `TimersInOrder`: who is called was due when collected (`ReadyInv`), at the expiry
  that was asked for (`AskedInv`); the lemma `Clamped` shows that the clamp of
  `uv_timer_start` repairs the wrapping addition, whatever the timeout. `OlderInv` says that
  the order of starts is strict, so that `HeapMin` is one timer.
* `NeverOversleeps`: `NoOversleep` is inductive with `TimeInv`, by which the loop's time is
  never behind `base`: what an interruption takes off the timeout is at least what has
  passed since the last one.

`ModuleRegistryProofs`, for any modules, names and levels:

* Two lemmas carry it, for *any* links that are linked well (`WellLinked`: `next` and
  `prev` are inverse, and each sentinel's ring is its level's list):
  `InsertAppends` and `DeleteUnlinks`, that `list_add_tail` appends to
  one list and leaves the others, and that `list_del` shortens the one its node is in.
* `RingsStayRings` is their closure (`RingInv`); `WalksMissNobody` needs `WalkInv`, which relates
  the modules before, at and behind the walk's node to those started or
  stopped so far, also after a callback changed the ring.
* `RegistryImplementsLists`: each step is a step of `LevelLists` on `Order`, or a stutter.

`UvHeapProofs`, for any number of nodes:

* `WellBuilt(lf, rt, pa, mn, n, a)`: the links are those of the complete tree that lists
  the `n` nodes of `a` row by row. `GrowTree`, `SwapTree`, `ShrinkTree` and `RenameTree` show
  for any links what the pointer surgery of `heap_insert`, `heap_node_swap` and
  `heap_remove` does to `a`: append, exchange a parent and a child, drop the last,
  put another node in a place. Hence `TreeInv`, and `TypeCorrect`.
* `TreeStaysAHeap`: while a node moves, only pairs that it is part of may be out of
  order, and what is below it is greater than its parent (`Ordered`); this is what
  makes the next swap right. `HeapShape` follows when nothing moves.
* `HeapIsAPriorityQueue`: the nodes of the tree are those before the operation, with
  one more or one less (`BeforeInv`), and the first of an ordered tree is the least
  (`RootIsLeast`).

Induction over data is out of the prover's reach as a schema. Where a proof needs
it, `LeastNat` takes its place: from the library's theorem that `<` on `Nat` is well
founded, a set of numbers has a least member, so the first place that goes wrong leads to a
contradiction (two walks of one ring agree, the root is below every node).

Only model-checked: the liveness properties (`EventualDelivery`, `PostReturns`,
`SignalEndsLoop`, `SignalEndsProgram`, `WalksEnd`, `MailHandled`, `SignalEndsDaemon`,
`TimerFires`, `LoopPolls`, `CloseFinishes`, `CpuWorkRuns`, `EveryRequestDone`, `CleanupReturns`).
They rest on fairness and `ENABLED`, which the prover does not handle. Every
other property of a passing run is a theorem; the two violated ones are findings.

## Not modelled

* libuv's signals, streams, files, processes, DNS and its Windows half: the daemon
  calls none of them. The thread pool is the exception: it is the concurrent core
  that the first use of files or `uv_queue_work` would bring in.
* `uv__async_start`, `uv__async_stop`, fork, and the builds for other systems.
* cJSON, which no file of the daemon calls; logging; `sendcmd`, a main that prints
  a line.
* The clamp of `set_message`: its only caller sends eight bytes.

## Plan

1. Proofs: the bounds on which the liveness arguments rest, such as the steps a walk or
   a sift may still take.
2. `uv__async_start` and `uv__async_stop`, should the daemon come to fork; the
   thread pool's requests in the daemon, should a module come to use it.
