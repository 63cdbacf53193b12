-------------------------- MODULE WorkerPoolProofs --------------------------
(***************************************************************************)
(* What WorkerPool guarantees for any number of workers and any jobs: no   *)
(* job is in two places, run twice or cut off, and every step is one of    *)
(* Executor.  Once a worker has stolen from one that is gone the code is   *)
(* undefined; of that worker the model says no more, so the theorems are   *)
(* about what the others do up to there.                                   *)
(***************************************************************************)
EXTENDS WorkerPool, FiniteSetTheorems, SequenceTheorems, TLAPS

\* No job is in s twice.
Injective(s) == \A i, k \in DOMAIN s : s[i] = s[k] => i = k

\* enqueue() adds a job to those of the queue.
LEMMA ElementsAppend ==
  ASSUME NEW S, NEW s \in Seq(S), NEW j \in S
  PROVE  /\ Append(s, j) \in Seq(S)
         /\ Elements(Append(s, j)) = Elements(s) \cup {j}
         /\ Injective(s) /\ j \notin Elements(s) => Injective(Append(s, j))
  <1>1. /\ Append(s, j) \in Seq(S)
        /\ Len(s) \in Nat /\ DOMAIN s = 1 .. Len(s)
        /\ DOMAIN Append(s, j) = 1 .. Len(s) + 1
        /\ \A i \in 1 .. Len(s) : Append(s, j)[i] = s[i]
        /\ Append(s, j)[Len(s) + 1] = j
    BY AppendProperties, LenProperties
  <1>2. \A i \in 1 .. Len(s) + 1 : i \in 1 .. Len(s) \/ i = Len(s) + 1
    BY <1>1
  <1>3. 1 .. Len(s) \subseteq 1 .. Len(s) + 1 /\ Len(s) + 1 \in 1 .. Len(s) + 1
    BY <1>1
  <1>4. Elements(Append(s, j)) = Elements(s) \cup {j}
    BY <1>1, <1>2, <1>3 DEF Elements
  <1>5. ASSUME Injective(s), j \notin Elements(s)
        PROVE  Injective(Append(s, j))
    BY <1>1, <1>2, <1>5 DEF Injective, Elements
  <1>6. QED
    BY <1>1, <1>4, <1>5

\* dequeue() takes away the first job, and it alone.
LEMMA ElementsTail ==
  ASSUME NEW S, NEW s \in Seq(S), s # <<>>, Injective(s)
  PROVE  /\ Head(s) \in Elements(s) /\ Head(s) \in S
         /\ Tail(s) \in Seq(S)
         /\ Elements(Tail(s)) = Elements(s) \ {Head(s)}
         /\ Injective(Tail(s))
  <1>1. /\ Len(s) \in Nat \ {0} /\ DOMAIN s = 1 .. Len(s)
        /\ Head(s) = s[1] /\ Head(s) \in S
        /\ Tail(s) \in Seq(S) /\ Len(Tail(s)) = Len(s) - 1
        /\ DOMAIN Tail(s) = 1 .. Len(s) - 1
        /\ \A i \in 1 .. Len(s) - 1 : Tail(s)[i] = s[i + 1]
    BY EmptySeq, HeadTailProperties, LenProperties
  <1>2. \A i \in 1 .. Len(s) - 1 : i + 1 \in 1 .. Len(s) /\ i + 1 # 1
    BY <1>1
  <1>3. \A i \in 1 .. Len(s) : i # 1 => i - 1 \in 1 .. Len(s) - 1 /\ (i - 1) + 1 = i
    BY <1>1
  <1>4. 1 \in 1 .. Len(s)
    BY <1>1
  <1>5. Elements(Tail(s)) \subseteq Elements(s) \ {Head(s)}
    BY <1>1, <1>2, <1>4 DEF Elements, Injective
  <1>6. Elements(s) \ {Head(s)} \subseteq Elements(Tail(s))
    <2> SUFFICES ASSUME NEW i \in 1 .. Len(s), s[i] # s[1]
                 PROVE  s[i] \in Elements(Tail(s))
      BY <1>1 DEF Elements
    <2>1. i - 1 \in 1 .. Len(s) - 1 /\ Tail(s)[i - 1] = s[i]
      BY <1>1, <1>3
    <2>2. QED
      BY <1>1, <2>1 DEF Elements
  <1>7. Injective(Tail(s))
    <2> SUFFICES ASSUME NEW i \in 1 .. Len(s) - 1, NEW k \in 1 .. Len(s) - 1,
                        s[i + 1] = s[k + 1]
                 PROVE  i = k
      BY <1>1 DEF Injective
    <2>1. i + 1 = k + 1
      BY <1>1, <1>2 DEF Injective
    <2>2. QED
      BY <2>1
  <1>8. QED
    BY <1>1, <1>4, <1>5, <1>6, <1>7 DEF Elements

-----------------------------------------------------------------------------
(* The inductive invariant.                                                *)

\* The queue of each worker, and the global one.
Places == 0 .. NumWorkers

Queue(v) == IF v = NumWorkers THEN global_queue ELSE job_queue[v]

Waiting == UNION {Elements(Queue(v)) : v \in Places}

Active == {running[w] : w \in Workers} \ {NoJob}

\* No job is queued twice.
QueueInv ==
  /\ \A v \in Places : Queue(v) \in Seq(Jobs) /\ Injective(Queue(v))
  /\ \A u, v \in Places : u # v => Elements(Queue(u)) \cap Elements(Queue(v)) = {}

\* A worker runs a job exactly at "run", and no two run the same.
RunInv ==
  \A w \in Workers :
    /\ running[w] \in Jobs \cup {NoJob}
    /\ pc[w] = "run" <=> running[w] # NoJob
    /\ \A u \in Workers : u # w /\ running[u] = running[w] => running[w] = NoJob

\* A job that was queued is in one place.
JobsInv ==
  /\ queued = Waiting \cup Active \cup finished
  /\ Waiting \cap Active = {} /\ Waiting \cap finished = {} /\ Active \cap finished = {}

\* Threads are joined before their worker goes, scans end, and a thread is started once.
ThreadInv ==
  /\ \A w \in destroyed : pc[w] = "exited"
  /\ \A w \in Workers : pc[w] = "steal" => tried[w] < NumWorkers
  /\ \A w \in Workers : pc[w] = "created" <=> w >= started

IInv == TypeOK /\ QueueInv /\ RunInv /\ JobsInv /\ ThreadInv

-----------------------------------------------------------------------------
(* What steps do to the queues and to the jobs that run.                   *)

\* enqueue() of a job that was never queued.
LEMMA Put ==
  ASSUME QueueInv, NEW v \in Places, NEW j \in Jobs, j \notin Waiting,
         \A u \in Places : Queue(u)' = IF u = v THEN Append(Queue(v), j) ELSE Queue(u)
  PROVE  QueueInv' /\ Waiting' = Waiting \cup {j}
  <1>1. \A u \in Places : j \notin Elements(Queue(u))
    BY DEF Waiting
  <1>2. /\ Append(Queue(v), j) \in Seq(Jobs) /\ Injective(Append(Queue(v), j))
        /\ Elements(Append(Queue(v), j)) = Elements(Queue(v)) \cup {j}
    BY <1>1, ElementsAppend DEF QueueInv
  <1>3. \A u \in Places :
          /\ Queue(u)' \in Seq(Jobs) /\ Injective(Queue(u))'
          /\ Elements(Queue(u))' = IF u = v THEN Elements(Queue(v)) \cup {j}
                                            ELSE Elements(Queue(u))
    BY <1>2 DEF QueueInv
  <1>4. Places' = Places
    BY DEF Places
  <1>5. QueueInv'
    BY <1>1, <1>3, <1>4 DEF QueueInv
  <1>6. Waiting' = Waiting \cup {j}
    BY <1>3, <1>4 DEF Waiting
  <1>7. QED
    BY <1>5, <1>6

\* dequeue() of a queue that is not empty.
LEMMA TakenFrom ==
  ASSUME QueueInv, NEW v \in Places, Queue(v) # <<>>,
         \A u \in Places : Queue(u)' = IF u = v THEN Tail(Queue(v)) ELSE Queue(u)
  PROVE  /\ QueueInv'
         /\ Head(Queue(v)) \in Waiting /\ Head(Queue(v)) \in Jobs
         /\ Waiting' = Waiting \ {Head(Queue(v))}
  <1>2. /\ Tail(Queue(v)) \in Seq(Jobs) /\ Injective(Tail(Queue(v)))
        /\ Elements(Tail(Queue(v))) = Elements(Queue(v)) \ {Head(Queue(v))}
        /\ Head(Queue(v)) \in Elements(Queue(v)) /\ Head(Queue(v)) \in Jobs
    BY ElementsTail DEF QueueInv
  <1>3. \A u \in Places :
          /\ Queue(u)' \in Seq(Jobs) /\ Injective(Queue(u))'
          /\ Elements(Queue(u))' = IF u = v THEN Elements(Queue(v)) \ {Head(Queue(v))}
                                            ELSE Elements(Queue(u))
    BY <1>2 DEF QueueInv
  <1>4. Places' = Places
    BY DEF Places
  <1>5. QueueInv'
    BY <1>3, <1>4 DEF QueueInv
  <1>6. \A u \in Places : u # v => Head(Queue(v)) \notin Elements(Queue(u))
    BY <1>2 DEF QueueInv
  <1>7. Waiting' = Waiting \ {Head(Queue(v))}
    BY <1>3, <1>4, <1>6 DEF Waiting
  <1>8. QED
    BY <1>2, <1>5, <1>7 DEF Waiting

\* Steps that leave the queues alone.
LEMMA SameQueues ==
  ASSUME UNCHANGED queues
  PROVE  (QueueInv' <=> QueueInv) /\ Waiting' = Waiting
  BY DEF queues, QueueInv, Waiting, Queue, Injective, Elements, Places

\* A worker that runs nothing starts a job that nobody runs.
LEMMA Started ==
  ASSUME TypeOK, RunInv,
         NEW w \in Workers, pc[w] # "run",
         NEW j \in Jobs, j \notin Active, Run(w, j)
  PROVE  RunInv' /\ Active' = Active \cup {j}
  <1>1. /\ running[w] = NoJob /\ j # NoJob
        /\ running' = [running EXCEPT ![w] = j] /\ pc' = [pc EXCEPT ![w] = "run"]
    BY WorkerPoolAssumption DEF RunInv, Run, Goto
  <1>0. /\ running \in [Workers -> Jobs \cup {NoJob}]
        /\ \A u \in Workers : pc'[u] = IF u = w THEN "run" ELSE pc[u]
    BY <1>1 DEF TypeOK
  <1>2. \A u \in Workers : running[u] # j
    BY <1>1 DEF Active
  <1>3. RunInv'
    BY <1>0, <1>1, <1>2 DEF RunInv
  <1>4. Active' = Active \cup {j}
    BY <1>0, <1>1 DEF Active
  <1>5. QED
    BY <1>3, <1>4

\* Steps of workers that run nothing before and after.
LEMMA SameRunning ==
  ASSUME RunInv, running' = running,
         \A w \in Workers : pc'[w] = "run" <=> pc[w] = "run"
  PROVE  RunInv' /\ Active' = Active
  BY DEF RunInv, Active

-----------------------------------------------------------------------------
(* The steps of WorkerPool, as steps of Executor.                          *)

\* The workers' queues and the global one.
LEMMA PlacesAre ==
  /\ Places = Workers \cup {NumWorkers} /\ NumWorkers \notin Workers
  /\ Workers \subseteq Places /\ NumWorkers \in Places
  BY WorkerPoolAssumption DEF Places, Workers

\* The jobs that wait and run are those that Executor has waiting and active.
ExecWaiting ==
  Elements(global_queue) \cup UNION {Elements(job_queue[w]) : w \in Workers}

WaitingMaps == Waiting = ExecWaiting

\* Waiting is what Executor calls waiting.
LEMMA WaitingIs == WaitingMaps
  <1>1. \A v \in Places : Elements(Queue(v)) =
          IF v = NumWorkers THEN Elements(global_queue) ELSE Elements(job_queue[v])
    BY DEF Queue
  <1>2. QED
    BY <1>1, PlacesAre DEF WaitingMaps, Waiting, ExecWaiting

\* The same after a step.
LEMMA WaitingIsNext == WaitingMaps'
  BY WaitingIs, PTL

\* queue() accepts a job, from a job or from any other thread.
LEMMA AcceptStep ==
  ASSUME IInv, NEW j \in Jobs,
         Submit(j) \/ \E w \in Workers : Spawn(w, j)
  PROVE  IInv' /\ Exec!Accept(j)
  <1>1. /\ j \notin queued /\ queued' = queued \cup {j}
        /\ UNCHANGED <<pc, running, scan, lifetime, finished>>
        /\ QueueGlobal(j) \/ \E w \in Workers : QueueOn(w, j)
    BY DEF Submit, Spawn
  <1>2. PICK v \in Places :
          \A u \in Places : Queue(u)' = IF u = v THEN Append(Queue(v), j) ELSE Queue(u)
    <2>1. CASE QueueGlobal(j)
      <3>1. \A u \in Places :
              Queue(u)' = IF u = NumWorkers THEN Append(Queue(NumWorkers), j) ELSE Queue(u)
        BY <2>1 DEF QueueGlobal, Queue
      <3>2. QED
        BY <3>1, PlacesAre
    <2>2. ASSUME NEW w \in Workers, QueueOn(w, j)
          PROVE  \A u \in Places : Queue(u)' = IF u = w THEN Append(Queue(w), j) ELSE Queue(u)
      BY <2>2, PlacesAre DEF QueueOn, Queue, IInv, TypeOK
    <2>3. QED
      BY <1>1, <2>1, <2>2, PlacesAre
  <1>3. j \notin Waiting /\ j \notin Active /\ j \notin finished
    BY <1>1 DEF IInv, JobsInv
  <1>4. QueueInv' /\ Waiting' = Waiting \cup {j}
    BY <1>2, <1>3, Put DEF IInv
  <1>5. RunInv' /\ Active' = Active
    BY <1>1, SameRunning DEF IInv
  <1>6. JobsInv'
    BY <1>1, <1>3, <1>4, <1>5 DEF IInv, JobsInv
  <1>7. ThreadInv'
    BY <1>1 DEF IInv, ThreadInv, scan, lifetime
  <1>8. TypeOK'
    <2>1. \A u \in Places : Queue(u)' \in Seq(Jobs)
      BY <1>4 DEF QueueInv, Places
    <2>2. global_queue' \in Seq(Jobs) /\ \A w \in Workers : job_queue'[w] \in Seq(Jobs)
      BY <2>1, PlacesAre DEF Queue
    <2>3. job_queue' \in [Workers -> Seq(Jobs)]
      BY <1>1, <2>2 DEF QueueGlobal, QueueOn, IInv, TypeOK
    <2>4. QED
      BY <1>1, <2>2, <2>3 DEF IInv, TypeOK, scan, lifetime
  <1>9. Exec!Accept(j)
    BY <1>1, <1>3, <1>4, <1>5, WaitingIs, WaitingIsNext
       DEF Exec!Accept, WaitingMaps, ExecWaiting, Active
  <1>10. QED
    BY <1>4, <1>5, <1>6, <1>7, <1>8, <1>9 DEF IInv

\* Jobs that run have different workers.
LEMMA OwnWorkers ==
  ASSUME RunInv
  PROVE  Exec!HaveWorkers(Active)
  <1> DEFINE at == [j \in Active |-> CHOOSE w \in Workers : running[w] = j]
             worker == [j \in Active |-> at[j] + 1]
  <1>1. \A j \in Active : at[j] \in Workers /\ running[at[j]] = j
    <2>1. TAKE j \in Active
    <2>2. \E w \in Workers : running[w] = j
      BY DEF Active
    <2>3. QED
      BY <2>2
  <1>2. \A j \in Active : worker[j] \in 1 .. NumWorkers
    BY <1>1, WorkerPoolAssumption DEF Workers
  <1>3. \A i, k \in Active : worker[i] = worker[k] => i = k
    <2> SUFFICES ASSUME NEW i \in Active, NEW k \in Active, worker[i] = worker[k]
                 PROVE  i = k
      OBVIOUS
    <2>1. at[i] + 1 = at[k] + 1
      OBVIOUS
    <2> HIDE DEF at
    <2>2. at[i] = at[k]
      BY <1>1, <2>1 DEF Workers
    <2>3. QED
      BY <1>1, <2>2
  <1>4. worker \in [Active -> 1 .. NumWorkers]
    BY <1>2
  <1>5. QED
    BY <1>3, <1>4 DEF Exec!HaveWorkers

\* The same after a step.
OwnWorkersNow == RunInv => Exec!HaveWorkers(Active)

\* Whoever starts a job had no other.
LEMMA OwnWorkersNext == OwnWorkersNow'
  <1>1. OwnWorkersNow
    BY OwnWorkers DEF OwnWorkersNow
  <1>2. QED
    BY <1>1, PTL

\* A worker takes a job from its own queue, from the global one or from another
\* worker's, and starts it: no two workers get the same.
LEMMA StartStep ==
  ASSUME IInv, NEW w \in Workers, TakeOwn(w) \/ TakeGlobal(w) \/ Steal(w)
  PROVE  IInv' /\ \E j \in Jobs : Exec!Start(j)
  <1>1. /\ pc[w] \in {"loop", "global", "steal"}
        /\ UNCHANGED <<scan, lifetime, history>>
    BY DEF TakeOwn, TakeGlobal, Steal
  <1>2. PICK v \in Places :
          /\ Queue(v) # <<>> /\ Run(w, Head(Queue(v)))
          /\ \A u \in Places : Queue(u)' = IF u = v THEN Tail(Queue(v)) ELSE Queue(u)
          /\ job_queue' \in [Workers -> {job_queue'[u] : u \in Workers}]
    <2>1. ASSUME NEW v \in Workers, job_queue[v] # <<>>, Run(w, Head(job_queue[v])),
                 job_queue' = [job_queue EXCEPT ![v] = Tail(@)], global_queue' = global_queue
          PROVE  /\ Queue(v) # <<>> /\ Run(w, Head(Queue(v)))
                 /\ \A u \in Places :
                      Queue(u)' = IF u = v THEN Tail(Queue(v)) ELSE Queue(u)
                 /\ job_queue' \in [Workers -> {job_queue'[u] : u \in Workers}]
      BY <2>1, PlacesAre DEF Queue, IInv, TypeOK
    <2>2. CASE TakeOwn(w)
      BY <2>1, <2>2, PlacesAre DEF TakeOwn
    <2>3. CASE Steal(w)
      <3>1. Victim(w) \in Workers
        <4>1. first[w] \in Nat /\ tried[w] \in Nat
          <5>1. first[w] \in Workers /\ tried[w] \in 0 .. NumWorkers
            BY DEF IInv, TypeOK
          <5>2. QED
            BY <5>1, WorkerPoolAssumption DEF Workers
        <4>2. QED
          BY <4>1, WorkerPoolAssumption DEF Victim, Workers
      <3>2. QED
        BY <2>1, <2>3, <3>1, PlacesAre DEF Steal
    <2>4. CASE TakeGlobal(w)
      <3>1. /\ Queue(NumWorkers) # <<>> /\ Run(w, Head(Queue(NumWorkers)))
            /\ \A u \in Places :
                 Queue(u)' = IF u = NumWorkers THEN Tail(Queue(NumWorkers)) ELSE Queue(u)
            /\ job_queue' \in [Workers -> {job_queue'[u] : u \in Workers}]
        BY <2>4 DEF TakeGlobal, Queue, IInv, TypeOK
      <3>2. QED
        BY <3>1, PlacesAre
    <2>5. QED
      BY <2>2, <2>3, <2>4
  <1> DEFINE j == Head(Queue(v))
  <1>3. /\ QueueInv' /\ j \in Waiting /\ j \in Jobs
        /\ Waiting' = Waiting \ {j}
    BY <1>2, TakenFrom DEF IInv
  <1> HIDE DEF j
  <1>4. /\ j \notin Active /\ j \notin finished /\ Run(w, j)
    BY <1>2, <1>3 DEF IInv, JobsInv, j
  <1>5. RunInv' /\ Active' = Active \cup {j}
    <2>1. pc[w] # "run" /\ TypeOK /\ RunInv
      BY <1>1 DEF IInv
    <2>2. QED
      BY <1>3, <1>4, <2>1, Started
  <1>6. JobsInv'
    BY <1>1, <1>3, <1>4, <1>5 DEF IInv, JobsInv, history
  <1>7. ThreadInv'
    BY <1>1, <1>4 DEF IInv, TypeOK, ThreadInv, scan, lifetime, Run, Goto
  <1>8. TypeOK'
    <2>1. \A u \in Places : Queue(u)' \in Seq(Jobs)
      BY <1>3 DEF QueueInv, Places
    <2>2. global_queue' \in Seq(Jobs) /\ \A u \in Workers : job_queue'[u] \in Seq(Jobs)
      BY <2>1, PlacesAre DEF Queue
    <2>3. job_queue' \in [Workers -> Seq(Jobs)]
      BY <1>2, <2>2
    <2>4. QED
      BY <1>1, <1>3, <1>4, <2>2, <2>3
         DEF IInv, TypeOK, scan, lifetime, history, Run, Goto
  <1>9. Exec!Start(j)
    <2>2. Exec!HaveWorkers(Active \cup {j})
      BY <1>5, OwnWorkersNext DEF OwnWorkersNow, Exec!HaveWorkers
    <2>3. j \in ExecWaiting /\ ExecWaiting' = ExecWaiting \ {j}
      BY <1>3, WaitingIs, WaitingIsNext DEF WaitingMaps
    <2>4. finished' = finished
      BY <1>1 DEF history
    <2>5. QED
      BY <1>5, <2>2, <2>3, <2>4 DEF Exec!Start, ExecWaiting, Active
  <1>10. IInv'
    BY <1>3, <1>5, <1>6, <1>7, <1>8 DEF IInv
  <1>11. QED
    BY <1>3, <1>9, <1>10 DEF Exec!Start

\* A job ends, and only then counts as finished.
LEMMA FinishStep ==
  ASSUME IInv, NEW w \in Workers, Finish(w)
  PROVE  IInv' /\ \E j \in Jobs : Exec!Finish(j)
  <1> DEFINE j == running[w]
  <1>1. /\ pc[w] = "run" /\ BlocksOn[j] \subseteq finished
        /\ finished' = finished \cup {j}
        /\ running' = [running EXCEPT ![w] = NoJob]
        /\ pc' = [pc EXCEPT ![w] = "loop"]
        /\ UNCHANGED <<queues, scan, lifetime, queued>>
    BY DEF Finish, Goto
  <1>2. j \in Jobs /\ j # NoJob /\ j \in Active
    BY <1>1, WorkerPoolAssumption DEF IInv, RunInv, Active
  <1>3. /\ \A u \in Workers : running'[u] = IF u = w THEN NoJob ELSE running[u]
        /\ \A u \in Workers : pc'[u] = IF u = w THEN "loop" ELSE pc[u]
        /\ \A u \in Workers : u # w => running[u] # j
    BY <1>1, <1>2 DEF IInv, TypeOK, RunInv
  <1>4. RunInv' /\ Active' = Active \ {j}
    <2>1. RunInv'
      BY <1>1, <1>3 DEF IInv, RunInv
    <2>2. Active' = Active \ {j}
      BY <1>2, <1>3 DEF Active
    <2>3. QED
      BY <2>1, <2>2
  <1> HIDE DEF j
  <1>5. QueueInv' /\ Waiting' = Waiting
    BY <1>1, SameQueues DEF IInv
  <1>6. JobsInv'
    BY <1>1, <1>2, <1>4, <1>5 DEF IInv, JobsInv
  <1>7. ThreadInv'
    BY <1>1, <1>3 DEF IInv, ThreadInv, scan, lifetime
  <1>8. TypeOK'
    <2>1. queued' = queued /\ j \in queued
      BY <1>1, <1>2 DEF IInv, JobsInv
    <2>2. QED
      BY <1>1, <2>1 DEF IInv, TypeOK, queues, scan, lifetime
  <1>9. Exec!Finish(j)
    <2>1. ExecWaiting' = ExecWaiting
      BY <1>5, WaitingIs, WaitingIsNext DEF WaitingMaps
    <2>2. QED
      BY <1>1, <1>2, <1>4, <2>1 DEF Exec!Finish, ExecWaiting, Active
  <1>10. IInv'
    BY <1>4, <1>5, <1>6, <1>7, <1>8 DEF IInv
  <1>11. QED
    BY <1>2, <1>9, <1>10 DEF Exec!Finish

\* The steps that look for work, start and end threads move no job.
Quiet(w) ==
  \/ Exit(w) \/ FindOwnEmpty(w) \/ StealNothing(w) \/ StealFreed(w) \/ Join(w)
  \/ \E r \in Workers : FindGlobalEmpty(w, r)

\* These steps keep the type, and no worker starts or ends a job in them.
LEMMA QuietTypes ==
  ASSUME IInv,
         \/ \E w \in Workers : Quiet(w)
         \/ StartWorker \/ RequestStop \/ UNCHANGED vars
  PROVE  /\ TypeOK'
         /\ \A w \in Workers : pc'[w] = "run" <=> pc[w] = "run"
         /\ ThreadInv'
  <1> USE DEF IInv
  <1>1. ASSUME NEW w \in Workers, Exit(w)
        PROVE  /\ TypeOK' /\ ThreadInv'
               /\ \A u \in Workers : pc'[u] = "run" <=> pc[u] = "run"
    BY <1>1 DEF Exit, Goto, TypeOK, ThreadInv, queues, scan, lifetime, history
  <1>2. ASSUME NEW w \in Workers, FindOwnEmpty(w)
        PROVE  /\ TypeOK' /\ ThreadInv'
               /\ \A u \in Workers : pc'[u] = "run" <=> pc[u] = "run"
    BY <1>2 DEF FindOwnEmpty, Goto, TypeOK, ThreadInv, queues, scan, lifetime, history
  <1>3. ASSUME NEW w \in Workers, StealNothing(w)
        PROVE  /\ TypeOK' /\ ThreadInv'
               /\ \A u \in Workers : pc'[u] = "run" <=> pc[u] = "run"
    <2>1. /\ tried[w] \in 0 .. NumWorkers /\ tried[w] < NumWorkers
          /\ tried' = [tried EXCEPT ![w] = tried[w] + 1]
          /\ pc' = [pc EXCEPT ![w] = IF tried[w] + 1 = NumWorkers THEN "loop" ELSE "steal"]
          /\ pc[w] = "steal"
          /\ UNCHANGED <<queues, running, first, lifetime, history>>
      BY <1>3 DEF StealNothing, Goto, TypeOK, ThreadInv
    <2>2. tried[w] + 1 \in 0 .. NumWorkers
          /\ (tried[w] + 1 # NumWorkers => tried[w] + 1 < NumWorkers)
      BY <2>1, WorkerPoolAssumption
    <2>3. TypeOK'
      BY <2>1, <2>2 DEF TypeOK, queues, lifetime, history
    <2>4. ThreadInv'
      BY <2>1, <2>2 DEF TypeOK, ThreadInv, lifetime
    <2>5. QED
      BY <2>1, <2>3, <2>4 DEF TypeOK
  <1>4. ASSUME NEW w \in Workers, StealFreed(w)
        PROVE  /\ TypeOK' /\ ThreadInv'
               /\ \A u \in Workers : pc'[u] = "run" <=> pc[u] = "run"
    BY <1>4 DEF StealFreed, Goto, TypeOK, ThreadInv, queues, scan, lifetime, history
  <1>5. ASSUME NEW w \in Workers, Join(w)
        PROVE  /\ TypeOK' /\ ThreadInv'
               /\ \A u \in Workers : pc'[u] = "run" <=> pc[u] = "run"
    BY <1>5 DEF Join, TypeOK, ThreadInv, queues, scan, history
  <1>6. ASSUME NEW w \in Workers, NEW r \in Workers, FindGlobalEmpty(w, r)
        PROVE  /\ TypeOK' /\ ThreadInv'
               /\ \A u \in Workers : pc'[u] = "run" <=> pc[u] = "run"
    <2>1. TypeOK'
      BY <1>6, WorkerPoolAssumption DEF FindGlobalEmpty, Goto, TypeOK, queues, lifetime, history
    <2>2. ThreadInv' /\ \A u \in Workers : pc'[u] = "run" <=> pc[u] = "run"
      BY <1>6, WorkerPoolAssumption DEF FindGlobalEmpty, Goto, TypeOK, ThreadInv, lifetime
    <2>3. QED
      BY <2>1, <2>2
  <1>7. CASE StartWorker
    <2>1. /\ started \in Workers /\ started + 1 \in 0 .. NumWorkers
          /\ pc' = [pc EXCEPT ![started] = "loop"] /\ started' = started + 1
          /\ UNCHANGED <<queues, running, scan, stop, destroyed, history>>
      BY <1>7, WorkerPoolAssumption DEF StartWorker, Goto, TypeOK, Workers
    <2>2. pc[started] = "created"
      <3>1. started \in Int
        BY <2>1, WorkerPoolAssumption DEF Workers
      <3>2. QED
        BY <2>1, <3>1 DEF ThreadInv
    <2>3. TypeOK'
      BY <2>1 DEF TypeOK, queues, scan, history
    <2>4. \A u \in Workers : pc'[u] = IF u = started THEN "loop" ELSE pc[u]
      BY <2>1 DEF TypeOK
    <2>5. ThreadInv'
      <3>1. \A u \in Workers : u \in Int /\ (u >= started + 1 <=> u >= started /\ u # started)
        BY <2>1, WorkerPoolAssumption DEF Workers
      <3>2. \A u \in Workers : pc'[u] = "created" <=> u >= started'
        BY <2>1, <2>4, <3>1 DEF ThreadInv
      <3>3. \A u \in destroyed' : pc'[u] = "exited"
        BY <2>1, <2>2, <2>4 DEF ThreadInv, TypeOK
      <3>4. \A u \in Workers : pc'[u] = "steal" => tried'[u] < NumWorkers
        BY <2>1, <2>4 DEF ThreadInv, scan
      <3>5. QED
        BY <3>2, <3>3, <3>4 DEF ThreadInv
    <2>6. QED
      BY <2>2, <2>3, <2>4, <2>5
  <1>8. CASE RequestStop
    <2>1. Cardinality(stop) \in Workers
      <3>1. IsFiniteSet(Workers) /\ Cardinality(Workers) = NumWorkers
        BY WorkerPoolAssumption, FS_Interval DEF Workers
      <3>2. stop \in SUBSET Workers /\ stop # Workers
        BY <1>8 DEF RequestStop, TypeOK
      <3>3. IsFiniteSet(stop) /\ Cardinality(stop) \in Nat /\ Cardinality(stop) < NumWorkers
        BY <3>1, <3>2, FS_Subset, FS_CardinalityType
      <3>4. QED
        BY <3>3, WorkerPoolAssumption DEF Workers
    <2>2. QED
      BY <1>8, <2>1 DEF RequestStop, TypeOK, ThreadInv, queues, scan, history
  <1>9. CASE UNCHANGED vars
    BY <1>9 DEF vars, TypeOK, ThreadInv, queues, scan, lifetime, history
  <1>10. QED
    BY <1>1, <1>2, <1>3, <1>4, <1>5, <1>6, <1>7, <1>8, <1>9 DEF Quiet

\* For those who queued the jobs, nothing happens in them.
LEMMA QuietStep ==
  ASSUME IInv,
         \/ \E w \in Workers : Quiet(w)
         \/ StartWorker \/ RequestStop \/ UNCHANGED vars
  PROVE  IInv' /\ UNCHANGED <<ExecWaiting, Active, finished>>
  <1>1. TypeOK' /\ ThreadInv' /\ \A w \in Workers : pc'[w] = "run" <=> pc[w] = "run"
    BY QuietTypes
  <1>2. UNCHANGED <<queues, running, history>>
    BY DEF Quiet, Exit, FindOwnEmpty, StealNothing, StealFreed, Join, FindGlobalEmpty,
           StartWorker, RequestStop, vars
  <1>3. QueueInv' /\ Waiting' = Waiting
    BY <1>2, SameQueues DEF IInv
  <1>4. RunInv' /\ Active' = Active
    BY <1>1, <1>2, SameRunning DEF IInv
  <1>5. JobsInv'
    BY <1>2, <1>3, <1>4 DEF IInv, JobsInv, history
  <1>6. ExecWaiting' = ExecWaiting /\ finished' = finished
    BY <1>2, <1>3, WaitingIs, WaitingIsNext DEF WaitingMaps, history
  <1>7. QED
    BY <1>1, <1>3, <1>4, <1>5, <1>6 DEF IInv

\* Every step is of one of the four kinds.
LEMMA Steps ==
  ASSUME [Next]_vars
  PROVE  \/ \E j \in Jobs : Submit(j) \/ \E w \in Workers : Spawn(w, j)
         \/ \E w \in Workers : TakeOwn(w) \/ TakeGlobal(w) \/ Steal(w)
         \/ \E w \in Workers : Finish(w)
         \/ \/ \E w \in Workers : Quiet(w)
            \/ StartWorker \/ RequestStop \/ UNCHANGED vars
  BY DEF Next, Loop, Quiet, AtRest

-----------------------------------------------------------------------------
(* The theorems.                                                           *)

\* The invariant holds of a new WorkerPool.
LEMMA InitIInv == Init => IInv
  <1> SUFFICES ASSUME Init PROVE IInv
    OBVIOUS
  <1>1. TypeOK
    BY WorkerPoolAssumption DEF Init, TypeOK, Workers
  <1>2. \A v \in Places : Queue(v) = <<>>
    BY PlacesAre DEF Queue, Init
  <1>3. <<>> \in Seq(Jobs) /\ Elements(<<>>) = {} /\ Injective(<<>>)
    BY EmptySeq DEF Elements, Injective
  <1>4. QueueInv /\ Waiting = {}
    BY <1>2, <1>3 DEF QueueInv, Waiting
  <1>5. RunInv /\ Active = {}
    BY DEF RunInv, Active, Init
  <1>6. JobsInv
    BY <1>4, <1>5 DEF JobsInv, Init
  <1>7. ThreadInv
    BY DEF ThreadInv, Init, Workers
  <1>8. QED
    BY <1>1, <1>4, <1>5, <1>6, <1>7 DEF IInv

\* Every step preserves the invariant.
LEMMA StepIInv == IInv /\ [Next]_vars => IInv'
  BY Steps, AcceptStep, StartStep, FinishStep, QuietStep

\* The invariant holds in every state.
LEMMA IInvariant == Safety => []IInv
  BY InitIInv, StepIInv, PTL DEF Safety

\* The state of WorkerPool keeps its type for any number of workers.
THEOREM TypeCorrect == Safety => []TypeOK
  <1>1. IInv => TypeOK
    BY DEF IInv
  <1>2. QED
    BY <1>1, IInvariant, PTL

\* When the pool is gone, every job that was queued has run to its end or is
\* still in a queue: the destructor cuts none off.
THEOREM NoJobCutOffHolds == Safety => []NoJobCutOff
  <1>1. IInv => NoJobCutOff
    <2> SUFFICES ASSUME IInv, destroyed = Workers, NEW j \in queued \ finished
                 PROVE  \/ j \in Elements(global_queue)
                        \/ \E w \in Workers : j \in Elements(job_queue[w])
      BY DEF NoJobCutOff
    <2>1. \A w \in Workers : running[w] = NoJob
      BY DEF IInv, ThreadInv, RunInv
    <2>2. Active = {}
      BY <2>1 DEF Active
    <2>3. j \in ExecWaiting
      BY <2>2, WaitingIs DEF IInv, JobsInv, WaitingMaps
    <2>4. QED
      BY <2>3 DEF ExecWaiting
  <1>2. QED
    BY <1>1, IInvariant, PTL

\* WorkerPool runs every job at most once and on one worker, for any number of
\* workers and any jobs: each step is one that Executor allows, or moves no job.
THEOREM RefinesExecutor == Safety => ImplementsExecutor
  <1>1. Init => Exec!Init
    <2> SUFFICES ASSUME Init PROVE Exec!Init
      OBVIOUS
    <2>1. ExecWaiting = {} /\ Active = {}
      BY EmptySeq DEF Init, ExecWaiting, Active, Elements
    <2>2. QED
      BY <2>1 DEF Exec!Init, ExecWaiting, Active, Init
  <1>2. IInv /\ [Next]_vars => [Exec!Next]_(Exec!vars)
    <2> SUFFICES ASSUME IInv, [Next]_vars PROVE [Exec!Next]_(Exec!vars)
      OBVIOUS
    <2>1. \/ \E j \in Jobs : Exec!Accept(j) \/ Exec!Start(j) \/ Exec!Finish(j)
          \/ UNCHANGED <<ExecWaiting, Active, finished>>
      BY Steps, AcceptStep, StartStep, FinishStep, QuietStep
    <2>2. QED
      BY <2>1 DEF Exec!Next, Exec!vars, ExecWaiting, Active
  <1>3. QED
    BY <1>1, <1>2, IInvariant, PTL DEF Safety, ImplementsExecutor, Exec!Spec
=============================================================================
