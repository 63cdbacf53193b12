------------------------------ MODULE JobQueue ------------------------------
(***************************************************************************)
(* JobQueue (src/src/scheduler/src/job_queue.cpp): the ring buffer of jobs *)
(* that every worker has one of, and the pool one more.  It grows when it  *)
(* is full.  A spin lock guards all of it except current_size, which       *)
(* size() and the first line of dequeue() read without the lock.           *)
(*                                                                         *)
(* Between taking the lock and updating current_size a call does nothing   *)
(* that can be seen without the lock, so that much is one step, or two     *)
(* when the vector grows.  The lock is Mutex, which SpinLock implements.   *)
(***************************************************************************)
EXTENDS Naturals, Sequences

CONSTANTS Threads,
          Jobs,        \* each enqueued at most once
          NoJob,       \* a moved-from Job, and std::nullopt
          Nobody,      \* the lock is free
          BaseSize     \* default_size in the code

ASSUME JobQueueAssumption ==
  /\ NoJob \notin Jobs /\ Nobody \notin Threads
  /\ BaseSize \in Nat \ {0}

VARIABLES queue,         \* the vector, indexed from 0
          capacity,      \* queue.size()
          head, tail,
          current_size,
          holder,        \* who holds the spin lock
          pc,            \* where each thread is in its call
          job,           \* the optional that dequeue() returns, per thread
          enqueued       \* the jobs that were given to enqueue()

vars == <<queue, capacity, head, tail, current_size, holder, pc, job, enqueued>>

\* A new queue.  The moves carry all members over to another, under a new lock,
\* while the pool builds its workers and no thread has called it yet: the queue of
\* this module is the one that its worker ends up with.
Init ==
  /\ queue = [i \in 0 .. BaseSize - 1 |-> NoJob]
  /\ capacity = BaseSize
  /\ head = 0 /\ tail = 0 /\ current_size = 0
  /\ holder = Nobody
  /\ pc = [t \in Threads |-> "idle"]
  /\ job = [t \in Threads |-> NoJob]
  /\ enqueued = {}

Goto(t, there) == pc' = [pc EXCEPT ![t] = there]

\* Faulty variants: a lock that does not exclude, a queue that is never full, a
\* resize that moves nothing.
LockAnyway(t) == holder' = t

NeverFull == FALSE

NoneMoved == {}

Lock(t) == holder = Nobody /\ holder' = t

Full == (tail + 1) % capacity = head

\* The number of slots from head to tail.
Occupancy == (tail + capacity - head) % capacity

-----------------------------------------------------------------------------
(* enqueue()                                                               *)

\* resize(): entry runs from head through the occupied slots.  Those that had
\* wrapped around move up to where the doubled vector puts them.
Moved ==
  {e \in head .. head + Occupancy - 1 : e % capacity # e % (2 * capacity)}

Resize(t) ==
  /\ pc[t] = "idle" /\ enqueued # Jobs
  /\ Lock(t)
  /\ Full
  /\ queue' = [i \in 0 .. 2 * capacity - 1 |->
                 IF i \in Moved THEN queue[i % capacity]
                 ELSE IF i < capacity /\ i + capacity \notin Moved
                      THEN queue[i] ELSE NoJob]
  /\ tail' = (head + Occupancy) % (2 * capacity)
  /\ capacity' = 2 * capacity
  /\ Goto(t, "resized")
  /\ UNCHANGED <<head, current_size, job, enqueued>>

Store(t, x) ==
  /\ \/ pc[t] = "idle" /\ Lock(t) /\ ~Full
     \/ pc[t] = "resized" /\ UNCHANGED holder
  /\ x \notin enqueued
  /\ queue' = [queue EXCEPT ![tail] = x]
  /\ tail' = (tail + 1) % capacity
  /\ enqueued' = enqueued \cup {x}
  /\ Goto(t, "count")
  /\ UNCHANGED <<capacity, head, current_size, job>>

CountUp(t) ==
  /\ pc[t] = "count"
  /\ current_size' = current_size + 1
  /\ holder' = Nobody
  /\ Goto(t, "idle")
  /\ UNCHANGED <<queue, capacity, head, tail, job, enqueued>>

-----------------------------------------------------------------------------
(* dequeue()                                                               *)

\* size() == 0, read without the lock: return nullopt.
CheckEmpty(t) ==
  /\ pc[t] = "idle" /\ current_size = 0
  /\ job' = [job EXCEPT ![t] = NoJob]
  /\ UNCHANGED <<queue, capacity, head, tail, current_size, holder, pc, enqueued>>

CheckNonEmpty(t) ==
  /\ pc[t] = "idle" /\ current_size # 0
  /\ Goto(t, "dequeue")
  /\ UNCHANGED <<queue, capacity, head, tail, current_size, holder, job, enqueued>>

\* Faulty: a dequeue() that finds nothing is counted too.
FindEmptyCounted(t) ==
  /\ pc[t] = "dequeue" /\ holder = Nobody
  /\ head = tail
  /\ job' = [job EXCEPT ![t] = NoJob]
  /\ current_size' = current_size - 1
  /\ Goto(t, "idle")
  /\ UNCHANGED <<queue, capacity, head, tail, holder, enqueued>>

\* Another dequeue() was faster: take the lock, return nullopt, release it.
FindEmpty(t) ==
  /\ pc[t] = "dequeue" /\ holder = Nobody
  /\ head = tail
  /\ job' = [job EXCEPT ![t] = NoJob]
  /\ Goto(t, "idle")
  /\ UNCHANGED <<queue, capacity, head, tail, current_size, holder, enqueued>>

Take(t) ==
  /\ pc[t] = "dequeue"
  /\ Lock(t)
  /\ head # tail
  /\ job' = [job EXCEPT ![t] = queue[head]]
  /\ queue' = [queue EXCEPT ![head] = NoJob]
  /\ head' = (head + 1) % capacity
  /\ Goto(t, "uncount")
  /\ UNCHANGED <<capacity, tail, current_size, enqueued>>

CountDown(t) ==
  /\ pc[t] = "uncount"
  /\ current_size' = current_size - 1
  /\ holder' = Nobody
  /\ Goto(t, "idle")
  /\ UNCHANGED <<queue, capacity, head, tail, job, enqueued>>

-----------------------------------------------------------------------------
Enqueue(t) == Resize(t) \/ (\E x \in Jobs : Store(t, x)) \/ CountUp(t)

Dequeue(t) ==
  CheckEmpty(t) \/ CheckNonEmpty(t) \/ FindEmpty(t) \/ Take(t) \/ CountDown(t)

Next == \E t \in Threads : Enqueue(t) \/ Dequeue(t)

Spec == Init /\ [][Next]_vars

-----------------------------------------------------------------------------
\* The type of the state of JobQueue.
TypeOK ==
  /\ capacity \in Nat \ {0}
  /\ queue \in [0 .. capacity - 1 -> Jobs \cup {NoJob}]
  /\ head \in 0 .. capacity - 1 /\ tail \in 0 .. capacity - 1
  /\ current_size \in Nat
  /\ holder \in Threads \cup {Nobody}
  /\ pc \in [Threads -> {"idle", "resized", "count", "dequeue", "uncount"}]
  /\ job \in [Threads -> Jobs \cup {NoJob}]
  /\ enqueued \subseteq Jobs

\* current_size counts the occupied slots, but for the call that holds the lock
\* and has not updated it yet: it never wraps below zero, and a thread that
\* reads it without the lock is off by one job at most.
SizeCountsJobs ==
  current_size =
    CASE \E t \in Threads : pc[t] = "count"   -> Occupancy - 1
      [] \E t \in Threads : pc[t] = "uncount" -> Occupancy + 1
      [] OTHER                                -> Occupancy

\* A job is in the vector exactly where head and tail say, also right after the
\* vector has grown around a wrapped queue: no slot of the queue was moved
\* from, and no other slot keeps a job.
SlotsHoldJobs ==
  \A i \in 0 .. capacity - 1 :
    queue[i] # NoJob <=> (i + capacity - head) % capacity < Occupancy

\* The jobs in the queue, the oldest first: one whose enqueue() has not counted
\* it yet is not there for anybody.
contents ==
  LET counted == IF \E t \in Threads : pc[t] = "count"
                 THEN Occupancy - 1 ELSE Occupancy
  IN  [i \in 1 .. counted |-> queue[(head + i - 1) % capacity]]

Fifo == INSTANCE FifoQueue

\* JobQueue implements FifoQueue: jobs leave in the order they entered, each
\* once, across wrap-around and growth, and dequeue() returns nullopt on
\* its unlocked check only if no completed enqueue() has left a job there.
ImplementsFifoQueue == Fifo!Spec
=============================================================================
