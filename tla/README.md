# Async-ery in TLA+

A verification development of Async-ery, a C++ library of tasks (`Task<T>`)
that run on a work-stealing thread pool and are resolved by functions, timers,
reads or from outside. The modules here are translated from the source; paths
below are relative to the repository, and `PROJECT.json` names the lines each
definition stands for.

## The system

    TaskFactory ── Task: create, map, bind, when_all, when_any, block
                     │ awaits / resolves
                   cells: WriteOnceCell, TrackingOnceCell, WhenAllCell, WhenAnyCell
                     │ queue(context, job)                          ▲ complete / error
                   Scheduler ── WorkerPool ── JobWorker ── JobQueue ── SpinLock
                     │ poll thread (TimingWheel)
                   poll sources: Timing::PollSource (HierarchicalTimingWheel), IO::PollSource (AIO)

| component | state | operations | what is hard | what makes it correct |
|---|---|---|---|---|
| `WriteOnceCell` | result, callbacks, shared mutex, condition variable | `write`, `error`, `await`, `block`, `read` | racing writes; `await` during a write; overlapping `await`s under a shared lock; wake-ups lost or spurious | one write wins; one result for all; each callback queued exactly once; `block` returns |
| `TrackingOnceCell` | the cell it tracks, callbacks until then, shared mutex, condition variable | `track`, `await`, `block`, `read` | callbacks passed on while the tracked cell resolves; `block` holds the mutex while it blocks; chains | it is, to those who await it, the cell it tracks; nobody stays held up |
| `WhenAllCell`, `WhenAnyCell` | an underlying cell, a counter, a vector of values | callbacks on the cells they wait for | callbacks count at the same time | the right result, as soon as it is determined |
| `Task`, `TaskValueSource`, `TaskFactory` | a cell | `create`, `map`, `bind`, `complete`, `error` | values and errors through a graph | results are those of the arguments |
| `SpinLock` | a flag | `lock`, `unlock` | the flag is read outside the exchange | mutual exclusion, progress |
| `JobQueue` | ring buffer, head, tail, size | `enqueue`, `dequeue`, `resize`, `size` | growth around a wrapped queue; size read without the lock | first in, first out; each job once |
| `WorkerPool`, `JobWorker` | a global queue, a queue and a thread per worker | `queue`, `find_new_work`, `steal_job`, destruction | stealing; blocked workers; destruction while others steal | each job runs once, to its end; destruction ends |
| `Scheduler`, `TimingWheel` | the poll thread, the wheel of poll sources | `begin_poll`, `schedule`, `advance` | late rounds, wrap-around, stop | each source is polled again and again |
| `HierarchicalTimingWheel` | wheels of buckets, indices | `schedule`, `advance` | several wheels wrap at once; unsigned arithmetic; late `advance` | a store of timers that loses none; resolved when due |
| `TaskTimerSource` | – | `after` | the timer is set while the poll thread takes others out | its task is resolved, once |
| `IO::PollSource`, `AIOManager` | reads in flight, AIO control blocks | `queue_read`, `poll` | a read over before it is listed | each read resolves its task once, when it is over |

Components call one another directly; what crosses threads is the jobs in the
queues, the cells, the list of reads and the timer wheel. `PROJECT.json` lists
under `hazards` where each can go wrong.

## Modules

Abstract specifications, of what a component promises:

- `OnceCell` – a cell for those who await it; implemented by `WriteOnceCell`, and
  by `TrackingOnceCell` over cells that implement it.
- `Mutex` – a lock; implemented by `SpinLock`, assumed by `JobQueue`,
  `TimingPollSource` and `IOPollSource`, whose calls are single steps.
- `FifoQueue` – a queue of jobs; implemented by `JobQueue`, assumed by `WorkerPool`.
- `Executor` – a scheduler; implemented by `WorkerPool`, assumed by `PollThread`
  and `Tasks`, whose jobs run in any order.
- `TimingPollSource` – a store of timers, each returned once by `poll`; implemented
  by `HierarchicalTimingWheel`, assumed by `PollThread`.

Detailed ones:

- `WriteOnceCell` – every thread is at a `pc` inside `write`/`error`
  (`locked`, `dispatch`, `notify`), `await` (`await`, `push`) or `block`
  (`block`, `waiting`, `relock`, `read`). The shared mutex is `writer` and
  `readers`. `push_back` is two steps, since two `await`s may be in it: reading
  the end, then constructing and moving the end. When they overlap the second
  constructs over the first; the end is then set from a stale read, or moved
  past a slot never constructed (`Unwritten`). Reallocation, which could do
  worse, is left out. `block` may be woken spuriously, and throws if the cell is
  still empty. A result is the name of the thread that wrote it.
- `TrackingOnceCell` – as `WriteOnceCell`, with `track` in the place of `write`:
  `locked`, `passing` (one callback a step), `notify`. Each call begins at `lock`, where
  it waits for the mutex: `track`, `await` and `block`
  call the tracked cell with the mutex held; `block` keeps it, shared, until that
  cell is resolved (`BlockInner`), which may be never. The cells that may be
  tracked are `OnceCell`s that are resolved by anybody at any time. A spurious
  wake-up may happen; `block` then throws if there is no cell yet (`BlockThrow`).
- `SpinLock` – each load, exchange and store of the flag is a step.
- `JobQueue` – slots, `head`, `tail` as in the code; `current_size`, read
  without the lock, is updated in a step of its own, and so is the growth of
  the vector. `capacity` is `queue.size()`.
- `WorkerPool` – each worker's loop (`loop`, `global`, `steal`, `run`), the
  start of the workers and the implicit destructor, worker by worker. A job may
  queue others on its worker (a `Context`) or the global queue, and may block
  on others (`BlocksOn`). Stealing from a destroyed queue that held jobs leads to
  `"undefined"`, after which nothing is known.
- `HierarchicalTimingWheel` – the wheels as in the code, with `size_t`
  arithmetic modulo `2^Width`. `Advance` begins a call of `advance`, and each
  `Tick` is one iteration of its loop: it completes a bucket and loads every wheel
  whose lower wheels wrap around. The spin lock of `Timing::PollSource` keeps other
  calls out (`Idle`). `asked`, `ticks` and `resolved` are history: what was asked
  for and when it came.
- `TimingWheel`, `IOPollSource` – the wheel of poll sources, and the reads;
  `PollThread` composes them and `TimingPollSource` into `begin_poll`, with
  `TaskTimerSource::after` and `TaskIOSource::read` as its users, and adds the
  destruction of the `Scheduler`. The status of a read is what `aio_error` reports,
  which is 0 also for a read that `aio_read` refused. Time is kept relative to `last_advancement_time` and the index
  modulo `num_ticks`, the only way the code uses them, so the model is finite
  without a bound on time. The list of reads is a set: a poll looks at all of them.
- `Tasks` – a graph of tasks. A `WriteOnceCell` is its result and callbacks;
  `tracked` is the `TrackingOnceCell` of a `bind`, and `CellOf` follows it as
  `await` does. `await` on an empty cell is two steps: while its callback is in
  `pushing` it has the mutex shared, so that no write gets in, but another `await`
  does: of the thread that creates tasks, or of a `track` that passes its callbacks
  on. Of two that overlap one may construct its callback over the other's
  (`PushLost`), which is kept in `lost`. `track` is
  a step per callback (`TrackBegin`, `TrackPass`, `TrackEnd`), with the mutex held
  exclusively, for which an `await` that comes through the cell waits (`Locked`). The
  callbacks of `when_all` are cut between the store, the counter and the write. The graph and the order of the calls of `TaskFactory`
  and of the tasks are constants. `Type` gives the values of each task; the
  assumption on the constants says what the signatures in `task.h` make the
  compiler check (the function of a `map` takes values of its argument, the tasks of a
  `when_any` have one type, ...), and that a task is only made from tasks that exist.

`WriteOnceCellProofs`, `TrackingOnceCellProofs`, `JobQueueProofs`,
`WorkerPoolProofs`, `HierarchicalTimingWheelProofs`, `PollThreadProofs` and
`TasksProofs` hold the theorems about the module each is named after, `SpinLock`
its own; `MC*` give the constants of a run their values.

Definitions marked *Faulty* are never used by a specification: each is what a
definition would be with a plausible mistake in the code, and `mutants` in
`PROJECT.json` pairs it with a property that must then fail.

## Runs

| run | checks | bounds, and why they are enough |
|---|---|---|
| `cell` | `TypeOK`, `OneWinner`, `SameResultForAll`, `NoCallbackLost`, `QueuedAtMostOnce`, `ImplementsOnceCell`, `BlockersReturn` | 2 writers race; 1 awaiter, so that calls of `await` do not overlap; 3 callbacks, so that the loop over them has a middle; 2 blockers, so that one notification is not enough; spurious wake-ups allowed |
| `cell_await_race` | violates `NoCallbackLost` | 2 awaiters, 1 writer, 1 blocker |
| `tracking_cell` | `TypeOK`, `ImplementsOnceCell`, `CallsReturn` | 2 calls of `track` with 2 cells and 2 results, so that callbacks could get the wrong one; 1 awaiter with 2 callbacks, so that calls of `await` do not overlap; 1 blocker, which keeps the mutex that a `track` waits for; spurious wake-ups allowed |
| `spin_lock` | `TypeOK`, `MutualExclusion`, `SomeoneEnters`, `ImplementsMutex` | 3 threads; 2 attempts instead of 15, which already lets a round fail or succeed at its first and last load |
| `job_queue` | `TypeOK`, `SizeCountsJobs`, `SlotsHoldJobs`, `ImplementsFifoQueue` | 3 threads; 3 slots and 6 jobs, so that the queue wraps around, is full while wrapped, and grows |
| `worker_pool` | `TypeOK`, `NoJobCutOff`, `ImplementsExecutor`, `EveryJobRuns`, `ShutdownCompletes` | 2 workers, 3 jobs, one of which blocks on the other two; the pool may be destroyed at any time |
| `pool_steal_destroyed` | violates `StealsFromLiveWorkers` | 2 workers |
| `wheel` | `TypeOK`, `WheelsKeepTime`, `EarlyByTicksTurned`, `LateByLessThanCapacity`, `ImplementsPollSource` | wheels of 3, 2 and 2 buckets, which hold 3 + 6 + 12 = 21 ticks; 2 timers that may share buckets, one tick to ten long, so that each wheel is used and the ticks to fit wrap around; `advance` up to 2 ticks late, 24 ticks: all wheels turn twice. 7 bits wrap around as 64 do: they are more than any sum the bounded run reaches |
| `wheel_late` | violates `TimersNeverLate` | 1 timer of 1 tick |
| `wheel_early` | violates `TimersNeverEarly` | 1 timer of 5 ticks, which goes into the second wheel; `advance` is never late |
| `tasks` | `TypeOK`, `CallbacksConserved`, `ResultsJustified`, `ResultsStay`, `DeterminedTasksResolve` | 9 tasks of every kind: a `bind` that tracks a `bind` that tracks a `when_any`, or tracks a source while a `when_all` awaits that source itself, so that calls of `await` overlap and lose a callback; a `when_all` of nothing; 2 values, 2 errors |
| `poll_thread` | `TypeOK`, `SourcesConserved`, `NoSourceSkipped`, `TasksConserved`, `SourcesPolled`, `ReadsResolve`, `TimersResolve` | 2 sources, one polled each tick as in the code and one every other; ticks of 2 units, 2 buckets and a lag of 2 ticks, so that the wheel forgets parts of ticks and turns all the way round; 2 reads and a timer |

Symmetry is used only in runs without liveness properties. Deadlock is checked
in every run: what a specification may do when everything is over is said by
`Finished`, `AtRest` or `Stop`.

## Fairness

Threads run: a thread inside `write`, `await`, `track`, `block`, `lock` or `unlock`
(in `TrackingOnceCell` also one that still waits for the mutex),
a worker's loop, the poll thread and the thread that creates the tasks are each
weakly fair, which the operating system justifies. Nobody has to call
anything: a cell need not be written, a read need not end, a pool need not be
destroyed; but once begun, its destruction goes on, and in `PollThread` time
passes. In `TrackingOnceCell` a resolved cell hands its callbacks over, as `OnceCell`
says. A timer that is polled again and again is returned in the end (strong
fairness of `PollExpired`): `TimingPollSource` does not say when, but
`LateByLessThanCapacity` shows of the wheels that a timer is returned within a
bounded number of ticks, so polling for ever suffices. Locks are only weakly fair: `SomeoneEnters` says that somebody gets the
lock, not who. `EveryJobRuns` and `ShutdownCompletes` say themselves what they
assume of jobs that block.

## What is proved

`SpinLock` proves for any number of threads and attempts `TypeOK`, that the lock
excludes, that the flag is set exactly while it is held, and that each step is
a step of `Mutex` or a stutter. The inductive invariant joins the type, the
flag and the exclusion: a thread about to exchange knows nothing of the flag
any more, so exclusion rests on `FlagIffHeld` and not on what it read.

`WriteOnceCellProofs` proves in two parts, for any threads and callbacks:

- From nothing but the assumptions on the constants: `TypeOK`, `OneWinner`,
  `SameResultForAll`, `WriteOnce`. The inductive invariant `AnyInv` adds who
  holds the mutex at which `pc`, and that the value is the one of the thread
  that is still queueing callbacks. These hold although `await` races.
- Under `SerialAwaits` – at most one thread calls `await` – also
  `NoCallbackLost`, `QueuedAtMostOnce`, `NoCallbackStranded`, and that each
  step implements a step of `OnceCell`. `SerialInv` adds that an awaiter's `end`
  is still the end of the vector, that callbacks in the vector, in flight and
  in the jobs are distinct, and that the vector of a filled cell is only
  touched by its writer. Without `SerialAwaits` these are false, as
  `cell_await_race` shows.

The run `cell` has one awaiter; that `TypeOK`, `OneWinner` and `SameResultForAll`
do not need this is what the first part shows.

`JobQueueProofs` proves for any threads, jobs and initial size: `TypeOK`,
`SizeCountsJobs`, `SlotsHoldJobs`, and that `JobQueue` implements `FifoQueue`. Its
first lemmas say what `%` does to indices below twice the size, so that the rest is
linear. The invariant adds who holds the lock at which `pc`, that a vector that has
just grown is not full, and that a job that was stored and not yet counted is in a
slot. An `enqueue` takes effect when it counts its job, a `dequeue` when it moves
the job out, or at its unlocked check.

`WorkerPoolProofs` proves for any number of workers and any jobs: `TypeOK`,
`NoJobCutOff`, and that `WorkerPool` implements `Executor`. The invariant says that
a job is in one queue, at one place in it, or with one worker, or has finished; and
that a worker is destroyed only after its thread has ended. The proof handles the
workers' queues and the global one alike. After a worker has stolen from
one that is gone (`pool_steal_destroyed`) the theorems say nothing of that worker:
the code is undefined, and the model lets it stop.

`TrackingOnceCellProofs` proves for any threads, callbacks and cells `TypeOK`, and
under `SerialAwaits` that each step implements a step of `OnceCell`. `AnyInv` says who
holds the mutex at which `pc`, and that a thread in `track` or `await` knows whether there is
a cell; `SerialInv` says that a callback is in one place – in the vector from `cursor`
on, with the tracked cell, with its awaiter, or in the jobs – and that no other cell
was given any. That the tracked cell may resolve between any two callbacks that
`track` passes on is why the two places, vector and cell, have to be told apart.

`HierarchicalTimingWheelProofs` proves for any number of wheels of any sizes:
`TypeOK`, `WheelsKeepTime`, `EarlyByTicksTurned`, `LateByLessThanCapacity`, and that
the wheels implement `TimingPollSource`. The index of a wheel is a digit of the number
of ticks, in the mixed base that the sizes make. So an entry of a bucket
determines the tick in which its timer will be resolved: when that bucket is reached, and
then what the entry still has to wait. `WheelInv` says that each timer waits in
exactly one entry and that this tick is the one that the properties
name; the proof shows that a `Tick` moves entries without changing it, through
however many wheels wrap around in it, and that `schedule` enters the right one –
also when `ticks_to_fit` has wrapped around, with only the bound on lateness left.

`PollThreadProofs` proves for any number of buckets, tick size, frequencies, reads and
timers: `TypeOK`, `SourcesConserved`, `NoSourceSkipped`, `TasksConserved`. These count
the places that a source or a task is in; what is inductive says which place it is
(`SourceInv`, `ReadInv`, `TimerInv`).

`TasksProofs` proves for any graph of tasks, `bind` included, and with calls of
`await` that overlap: `TypeOK`, `CallbacksConserved`, `ResultsJustified`,
`ResultsStay`. `CallbacksConserved` counts the callbacks that overlapping calls
lose among the places where one may be; how many these are, two theorems say:
none where no two calls of `await` append to the vector of one cell at the same
time (`NothingLostSerially`, under the `SerialAwaits` of this module), and none in a graph
without `bind`, in which only the one thread that creates the tasks calls `await`
(`NothingLostWithoutBind`). The invariant `TaskInv` says

- where a callback is: not registered yet, in a cell that its argument leads to
  (`Waits`), in an `await`, lost, in a job, or finished, and only one of
  these (`AllPlaced`);
- that a job carries what its argument resolved to (`JobsOK`);
- that a tracking cell tracks an older task, chosen by the value of its argument (`Tracking`);
- that each result comes from finished or last callbacks that give it
  (`AllBacked`), and that the counters of `when_all` and `when_any` count the callbacks
  beyond the counter, whose values are in the vector (`AllCounted`).

It rests on results that are once seen never changing (`SeenKept`), which is proved
step by step along with it: a callback that was handed a result speaks for its
argument for ever. `track` is the hard step, since it changes what `CellOf` gives for
every task that leads through it.

These theorems assume of the constants only the named assumptions of the
modules, besides `SerialAwaits`, and a graph without `bind`, where said. Where a definition is a recursive function
(`CellOf`, the sums of the wheels) its equation is proved first. Induction is done on
sets instead of predicates, which the provers cannot be given: a set of numbers that
is not empty has a least one (`LeastNatural`), so a set that holds a number whenever it
holds the smaller ones holds all (`SetInduction`); `TaskInduction` is the same along the
order of creation.

Every invariant, every action property and every refinement that the passing runs
check is thus also proved. Checked by TLC only is liveness, which is beyond the
prover used: `BlockersReturn`, `CallsReturn`, `SomeoneEnters`, `EveryJobRuns`,
`ShutdownCompletes`, `SourcesPolled`, `ReadsResolve`, `TimersResolve`,
`DeterminedTasksResolve`, and, where the abstract cell promises that callbacks are queued in
the end, that part of `ImplementsOnceCell`.

## What was found

- `await` appends to the callbacks under a shared lock (`write_once_cell.h:117`):
  overlapping calls lose a callback (`cell_await_race`). `TrackingOnceCell`
  does the same. Users of tasks need not share a task between threads for this: `track` calls
  `await` from a worker while another thread may be awaiting the same cell, and
  `tasks` reaches states in which a callback is lost; the task it belongs to may then
  never resolve, and `DeterminedTasksResolve` only speaks of what callbacks are told.
- `block` waits without testing again (`write_once_cell.h:125`,
  `tracking_once_cell.h:107`): after a spurious wake-up it throws, although a
  comment there says that the optional is never empty. `WriteOnceCell` and
  `TrackingOnceCell` have the wake-up and the exception (`"threw"`); `BlockersReturn`
  and `CallsReturn` speak of the calls that have not thrown by the time there is
  something to read.
- While the pool is destroyed, workers steal from workers that are gone
  (`worker_pool.cpp:59`; `pool_steal_destroyed`).
- A timer that is due just after the lowest wheel wraps around is put in the
  highest wheel, since `ticks_to_fit` wraps below zero
  (`timing_wheel_hierarchical.h:173`; `wheel_late`).
- A longer timer is resolved early by the ticks that the skipped wheels had already
  turned, since the same line takes off all that these wheels hold
  (`wheel_early`), while `task_timer_source.h:19` says "after the specified
  duration", and so do lines 54 and 92 of the repository's README.
- `when_all` resolves with the first error it is told of (`when_all_cell.h:84`), before the other
  tasks have resolved, while the comments (`task.h:54`, `when_all_cell.h:14`) say "when
  all" have. `Tasks` does as the code does; `DeterminedTasksResolve` asks for a result
  only when all have resolved, as the comments promise.

`WheelsKeepTime` says how the wheels lag behind the clock: `advance` forgets the part
of a tick beyond those it counts, so that, called at bad times, the wheels count
little more than half of the ticks that pass (one in `2 * TickSize - 1` units), and
never more than pass. `EarlyByTicksTurned` says how early a timer that fits may
be: by the ticks the skipped wheels had already turned, exactly, so that it is in
time if these were at their start. Durations also count from
the last `advance` and in whole ticks, so every timer may be early by up to a
tick and the lag of the poll thread.

## Left out

- `read` of `WriteOnceCell`, which changes nothing. The moves of `JobQueue` and
  `JobWorker` happen before any thread runs: the initial states are those after them.
- Weak memory. The atomics are relaxed in places; interleavings of sequentially
  consistent steps are what x86 makes of this code. `when_all_cell.h:40`
  would be a race elsewhere.
- In `Tasks`, the slot that stays unconstructed when two calls of `await` overlap
  (`Unwritten` in `WriteOnceCell`), and threads besides one that create tasks.
- A `bind` whose function returns the task of the same `bind`, which waits for itself.
- The contents of buffers, messages and formats; functions that throw, which end
  the program.
- A clock that is set while the program runs; jobs that never stop queueing jobs on
  their worker, and so keep it from the global queue. The code has no defence
  against either and promises none.
- The destruction of the poll sources while reads are in flight: nothing in the
  repository says who waits for them, and the model ends with the pool.

## Not modelled

The examples (`examples/`): programs that use the library. Every other component
listed in `PROJECT.json` is modelled; what remains of the source is declarations,
includes, formatting and build files.

## Plan

Done, in this order: cells, lock, queue, pool, timer wheel, poll thread, tasks;
the tracking cell, the timers of the poll thread and the contract of their source;
calls of `await` that overlap in a graph of tasks; proofs of the safety of each. What could follow:

1. A refinement that joins `Tasks` to the cells: that its `await`, `write` and `track` are
   what `WriteOnceCell` and `TrackingOnceCell` do, step for step, for a graph of
   such cells. So far the steps are compared by reading.
2. A lower bound for `WheelsKeepTime` in terms of the lag of the poll thread, as a
   theorem about `PollThread` and the wheels together.
3. Lemmas that several proofs state again (division with remainder, least numbers) in one
   place.
