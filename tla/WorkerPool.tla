----------------------------- MODULE WorkerPool -----------------------------
(***************************************************************************)
(* Scheduler::WorkerPool and Scheduler::JobWorker (src/src/scheduler/src/  *)
(* worker_pool.cpp, worker.cpp): the work-stealing scheduler, from the     *)
(* start of its threads to the destructors that join them.                 *)
(*                                                                         *)
(* Every queue is a FifoQueue, which JobQueue implements: a dequeue() is   *)
(* one step that takes the oldest job, or finds none.  A job may queue     *)
(* others as it runs, and may block until others have finished.            *)
(***************************************************************************)
EXTENDS Naturals, Sequences, FiniteSets

CONSTANTS NumWorkers,   \* n_workers
          Jobs,         \* each queued at most once
          NoJob,
          BlocksOn      \* BlocksOn[j]: the jobs that j calls block() on

Workers == 0 .. NumWorkers - 1

ASSUME WorkerPoolAssumption ==
  /\ NumWorkers \in Nat \ {0}
  /\ NoJob \notin Jobs
  /\ BlocksOn \in [Jobs -> SUBSET Jobs]

VARIABLES global_queue,
          job_queue,    \* the queue of each worker
          pc,           \* where the thread of each worker is
          running,      \* the job each worker runs
          first, tried, \* find_new_work: random_worker and i of each worker
          started,      \* how many workers WorkerPool() has started
          stop,         \* the workers whose thread was asked to stop
          destroyed,    \* the workers whose JobWorker was destroyed
          queued,       \* the jobs given to queue()
          finished      \* the jobs that have run to their end

queues == <<global_queue, job_queue>>
scan == <<first, tried>>
lifetime == <<started, stop, destroyed>>
history == <<queued, finished>>

vars == <<queues, pc, running, scan, lifetime, history>>

Init ==
  /\ global_queue = <<>>
  /\ job_queue = [w \in Workers |-> <<>>]
  /\ pc = [w \in Workers |-> "created"]
  /\ running = [w \in Workers |-> NoJob]
  /\ first = [w \in Workers |-> 0] /\ tried = [w \in Workers |-> 0]
  /\ started = 0
  /\ stop = {} /\ destroyed = {}
  /\ queued = {} /\ finished = {}

Goto(w, there) == pc' = [pc EXCEPT ![w] = there]

Closing == stop # {}

-----------------------------------------------------------------------------
(* The constructor starts the workers in turn, once all are created.       *)

StartWorker ==
  /\ started < NumWorkers
  /\ Goto(started, "loop")
  /\ started' = started + 1
  /\ UNCHANGED <<queues, running, scan, stop, destroyed, history>>

(* queue(): from any other thread with an empty Context, or from a job,    *)
(* with the Context of the worker that runs it or with an empty one.       *)

QueueGlobal(j) ==
  /\ global_queue' = Append(global_queue, j)
  /\ UNCHANGED job_queue

QueueOn(w, j) ==
  /\ job_queue' = [job_queue EXCEPT ![w] = Append(@, j)]
  /\ UNCHANGED global_queue

Submit(j) ==
  /\ started = NumWorkers /\ ~Closing
  /\ j \notin queued
  /\ QueueGlobal(j)
  /\ queued' = queued \cup {j}
  /\ UNCHANGED <<pc, running, scan, lifetime, finished>>

Spawn(w, j) ==
  /\ pc[w] = "run"
  /\ j \notin queued
  /\ QueueOn(w, j) \/ QueueGlobal(j)
  /\ queued' = queued \cup {j}
  /\ UNCHANGED <<pc, running, scan, lifetime, finished>>

-----------------------------------------------------------------------------
(* The loop of a worker's thread                                           *)

Run(w, j) ==
  /\ running' = [running EXCEPT ![w] = j]
  /\ Goto(w, "run")

Exit(w) ==
  /\ pc[w] = "loop" /\ w \in stop
  /\ Goto(w, "exited")
  /\ UNCHANGED <<queues, running, scan, lifetime, history>>

\* The test of the stop token and job_queue.dequeue() are one step: a stop
\* request between the two is seen in the next round, as one after both.
TakeOwn(w) ==
  /\ pc[w] = "loop" /\ w \notin stop
  /\ job_queue[w] # <<>>
  /\ Run(w, Head(job_queue[w]))
  /\ job_queue' = [job_queue EXCEPT ![w] = Tail(@)]
  /\ UNCHANGED <<global_queue, scan, lifetime, history>>

FindOwnEmpty(w) ==
  /\ pc[w] = "loop" /\ w \notin stop
  /\ job_queue[w] = <<>>
  /\ Goto(w, "global")
  /\ UNCHANGED <<queues, running, scan, lifetime, history>>

TakeGlobal(w) ==
  /\ pc[w] = "global" /\ global_queue # <<>>
  /\ Run(w, Head(global_queue))
  /\ global_queue' = Tail(global_queue)
  /\ UNCHANGED <<job_queue, scan, lifetime, history>>

\* Faulty: the scan goes on from where the last one ended.
FindGlobalEmptyAgain(w, random_worker) ==
  /\ pc[w] = "global" /\ global_queue = <<>>
  /\ first' = [first EXCEPT ![w] = random_worker]
  /\ Goto(w, "steal")
  /\ UNCHANGED <<queues, running, tried, lifetime, history>>

FindGlobalEmpty(w, random_worker) ==
  /\ pc[w] = "global" /\ global_queue = <<>>
  /\ first' = [first EXCEPT ![w] = random_worker]
  /\ tried' = [tried EXCEPT ![w] = 0]
  /\ Goto(w, "steal")
  /\ UNCHANGED <<queues, running, lifetime, history>>

\* The worker that w tries to steal a job from; w may be its own victim.
Victim(w) == (first[w] + tried[w]) % NumWorkers

\* Faulty: the job is copied, not moved.
StealCopy(w) ==
  /\ pc[w] = "steal" /\ Victim(w) \notin destroyed
  /\ job_queue[Victim(w)] # <<>>
  /\ Run(w, Head(job_queue[Victim(w)]))
  /\ UNCHANGED <<queues, scan, lifetime, history>>

Steal(w) ==
  /\ pc[w] = "steal" /\ Victim(w) \notin destroyed
  /\ job_queue[Victim(w)] # <<>>
  /\ Run(w, Head(job_queue[Victim(w)]))
  /\ job_queue' = [job_queue EXCEPT ![Victim(w)] = Tail(@)]
  /\ UNCHANGED <<global_queue, scan, lifetime, history>>

\* Faulty: the scan leaves out the last worker; it goes on until it finds a job.
StealNothingShort(w) ==
  /\ pc[w] = "steal"
  /\ job_queue[Victim(w)] = <<>>
  /\ tried' = [tried EXCEPT ![w] = @ + 1]
  /\ Goto(w, IF tried'[w] = NumWorkers - 1 THEN "loop" ELSE "steal")
  /\ UNCHANGED <<queues, running, first, lifetime, history>>

StealNothingForever(w) ==
  /\ pc[w] = "steal"
  /\ job_queue[Victim(w)] = <<>>
  /\ tried' = [tried EXCEPT ![w] = @ + 1]
  /\ Goto(w, IF tried'[w] = NumWorkers THEN "global" ELSE "steal")
  /\ UNCHANGED <<queues, running, first, lifetime, history>>

\* The size of a destroyed queue still reads as it was left.
StealNothing(w) ==
  /\ pc[w] = "steal"
  /\ job_queue[Victim(w)] = <<>>
  /\ tried' = [tried EXCEPT ![w] = @ + 1]
  /\ Goto(w, IF tried'[w] = NumWorkers THEN "loop" ELSE "steal")
  /\ UNCHANGED <<queues, running, first, lifetime, history>>

\* The victim was destroyed with jobs in its queue: what follows is undefined.
StealFreed(w) ==
  /\ pc[w] = "steal" /\ Victim(w) \in destroyed
  /\ job_queue[Victim(w)] # <<>>
  /\ Goto(w, "undefined")
  /\ UNCHANGED <<queues, running, scan, lifetime, history>>

Finish(w) ==
  /\ pc[w] = "run" /\ BlocksOn[running[w]] \subseteq finished
  /\ finished' = finished \cup {running[w]}
  /\ running' = [running EXCEPT ![w] = NoJob]
  /\ Goto(w, "loop")
  /\ UNCHANGED <<queues, scan, lifetime, queued>>

-----------------------------------------------------------------------------
(* ~WorkerPool(): the vector destroys its workers in turn.  Each jthread    *)
(* asks its thread to stop and joins it, then the worker's queue goes.     *)

RequestStop ==
  /\ started = NumWorkers
  /\ stop = destroyed /\ stop # Workers
  /\ stop' = stop \cup {Cardinality(stop)}
  /\ UNCHANGED <<queues, pc, running, scan, started, destroyed, history>>

\* Faulty: the thread is detached, not joined.
Detach(w) ==
  /\ w \in stop \ destroyed
  /\ destroyed' = destroyed \cup {w}
  /\ UNCHANGED <<queues, pc, running, scan, started, stop, history>>

Join(w) ==
  /\ w \in stop \ destroyed /\ pc[w] = "exited"
  /\ destroyed' = destroyed \cup {w}
  /\ UNCHANGED <<queues, pc, running, scan, started, stop, history>>

\* Undefined behaviour: nothing is known of what happens from here on.
Undefined == \E w \in Workers : pc[w] = "undefined"

Blocked(w) == pc[w] = "run" /\ ~(BlocksOn[running[w]] \subseteq finished)

\* The pool is gone, or a job blocks on one that nobody is left to run.
AtRest ==
  /\ destroyed = Workers \/ Undefined \/ (Closing /\ \E w \in Workers : Blocked(w))
  /\ UNCHANGED vars

-----------------------------------------------------------------------------
Loop(w) ==
  \/ Exit(w) \/ TakeOwn(w) \/ FindOwnEmpty(w) \/ TakeGlobal(w)
  \/ \E r \in Workers : FindGlobalEmpty(w, r)
  \/ Steal(w) \/ StealNothing(w) \/ StealFreed(w) \/ Finish(w)

Next ==
  \/ StartWorker \/ RequestStop \/ AtRest
  \/ \E j \in Jobs : Submit(j)
  \/ \E w \in Workers : Loop(w) \/ Join(w) \/ \E j \in Jobs : Spawn(w, j)

\* Threads run.  No job has to queue another, and no one has to destroy the
\* pool; but once begun, its destruction goes on.
Fairness ==
  /\ WF_vars(StartWorker)
  /\ WF_vars(Closing /\ RequestStop)
  /\ \A w \in Workers : WF_vars(Loop(w)) /\ WF_vars(Join(w))

Safety == Init /\ [][Next]_vars

Spec == Safety /\ Fairness

-----------------------------------------------------------------------------
\* The type of the state of WorkerPool.
TypeOK ==
  /\ global_queue \in Seq(Jobs)
  /\ job_queue \in [Workers -> Seq(Jobs)]
  /\ pc \in [Workers -> {"created", "loop", "global", "steal", "run", "exited",
                         "undefined"}]
  /\ running \in [Workers -> Jobs \cup {NoJob}]
  /\ first \in [Workers -> Workers] /\ tried \in [Workers -> 0 .. NumWorkers]
  /\ started \in 0 .. NumWorkers
  /\ stop \subseteq Workers /\ destroyed \subseteq stop
  /\ finished \subseteq queued /\ queued \subseteq Jobs

Elements(s) == {s[i] : i \in DOMAIN s}

Exec == INSTANCE Executor WITH
          waiting <- Elements(global_queue)
                       \cup UNION {Elements(job_queue[w]) : w \in Workers},
          active  <- {running[w] : w \in Workers} \ {NoJob}

\* WorkerPool implements Executor: however workers race for the queues, a job
\* is run by one of them only, once, and finishes before it counts as run.
ImplementsExecutor == Exec!Spec

\* Every job that is queued is run to its end once the jobs it blocks on are
\* queued too, even if they are queued on the very worker that it blocks: the
\* others steal them.  (Unless the pool is destroyed first, and as long as fewer
\* jobs block than there are workers.)
EveryJobRuns ==
  \A j \in Jobs : {j} \cup BlocksOn[j] \subseteq queued ~> j \in finished \/ Closing

\* The destruction of the pool, once begun, comes to its end: nothing but a job
\* that blocks for ever keeps a join waiting.
ShutdownCompletes ==
  \/ <>[](\E w \in Workers : Blocked(w))
  \/ Closing ~> (destroyed = Workers \/ Undefined)

\* No job is cut off: when the pool is gone, every job that was queued has run
\* to its end or was never started, and then it is dropped with its queue.
NoJobCutOff ==
  destroyed = Workers =>
    \A j \in queued \ finished :
      j \in Elements(global_queue) \/ \E w \in Workers : j \in Elements(job_queue[w])

\* A worker steals only from workers that exist: the pool creates all workers
\* before it starts one (comment on JobWorker::start), so that none steals
\* from a worker that is not there yet - or any more.
StealsFromLiveWorkers ==
  \A w \in Workers : pc[w] = "steal" => Victim(w) \notin destroyed
=============================================================================
