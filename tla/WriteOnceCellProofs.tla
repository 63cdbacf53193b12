------------------------- MODULE WriteOnceCellProofs -------------------------
(***************************************************************************)
(* Proofs about WriteOnceCell, for any sets of threads and callbacks.      *)
(*                                                                         *)
(* AnyInv is inductive for every use of the cell, overlapping calls of     *)
(* await() included.  SerialInv extends it for the uses in which calls of  *)
(* await() do not overlap (SerialAwaits), the only ones for which no       *)
(* callback is lost.                                                       *)
(***************************************************************************)
EXTENDS WriteOnceCell, SequenceTheorems, TLAPS

WritePc == {"idle", "locked", "dispatch", "notify", "true", "false"}
AwaitPc == {"idle", "await", "push"}
BlockPc == {"idle", "block", "waiting", "relock", "read", "returned", "threw"}

\* Each kind of thread is inside its own kind of call.
PcInv ==
  /\ \A t \in Writers : pc[t] \in WritePc
  /\ \A t \in Awaiters : pc[t] \in AwaitPc
  /\ \A t \in Blockers : pc[t] \in BlockPc

\* The mutex is held by the threads inside its critical sections, and by one
\* writer or by readers, never both.
LockInv ==
  /\ \A t \in Writers : pc[t] \in {"locked", "dispatch"} <=> writer = t
  /\ \A t \in Awaiters : pc[t] \in {"await", "push"} <=> t \in readers
  /\ \A t \in Blockers : pc[t] = "block" <=> t \in readers
  /\ writer # NoValue => readers = {}

\* What the threads in a call know of the value.
ValueInv ==
  /\ \A t \in Writers : pc[t] \in {"dispatch", "notify", "true"} => value = t
  /\ \A t \in Writers : pc[t] \in {"idle", "locked", "false"} => value # t
  /\ \A t \in Writers : pc[t] = "false" => value # NoValue
  /\ \A t \in Awaiters : pc[t] = "push" => value = NoValue /\ end[t] <= Len(callbacks)
  /\ \A t \in Awaiters : pc[t] \in {"await", "push"} => cb[t] \in Callbacks
  /\ SameResultForAll

AnyInv == TypeOK /\ PcInv /\ LockInv /\ ValueInv

\* AnyInv holds of a new WriteOnceCell.
LEMMA InitAny == Init => AnyInv
BY ThreadsAssumption, ValuesAssumption
   DEF Init, AnyInv, TypeOK, PcInv, LockInv, ValueInv, SameResultForAll,
       Threads, WritePc, AwaitPc, BlockPc

\* Appending a job for callback c to the queue when the cell is filled.
LEMMA QueueJob ==
  ASSUME TypeOK, SameResultForAll, value \in Writers,
         NEW c \in Callbacks \cup {Unwritten},
         jobs' = Append(jobs, Job(c)), value' = value
  PROVE  /\ jobs' \in Seq(Job_)
         /\ \A i \in DOMAIN jobs' : jobs'[i].result = value'
<1>1. Job(c) \in Job_
  BY DEF Job, Job_
<1>2. jobs \in Seq(Job_)
  BY DEF TypeOK
<1>3. /\ jobs' \in Seq(Job_)
      /\ Len(jobs') = Len(jobs) + 1
      /\ \A i \in 1 .. Len(jobs) : jobs'[i] = jobs[i]
      /\ jobs'[Len(jobs) + 1] = Job(c)
  BY <1>1, <1>2, AppendProperties
<1>4. DOMAIN jobs = 1 .. Len(jobs) /\ DOMAIN jobs' = 1 .. Len(jobs')
  BY <1>2, <1>3
<1>5. ASSUME NEW i \in DOMAIN jobs'
      PROVE  jobs'[i].result = value'
  <2>1. CASE i = Len(jobs) + 1
    BY <2>1, <1>3 DEF Job
  <2>2. CASE i \in 1 .. Len(jobs)
    BY <2>2, <1>3, <1>4 DEF SameResultForAll
  <2>3. QED
    BY <2>1, <2>2, <1>2, <1>3, <1>4
<1>6. QED
  BY <1>3, <1>5

\* Every step of write(), error(), await() and block() preserves AnyInv.
LEMMA StepAny == AnyInv /\ [Next]_vars => AnyInv'
<1> SUFFICES ASSUME AnyInv, [Next]_vars
             PROVE  AnyInv'
  OBVIOUS
<1> USE ThreadsAssumption, ValuesAssumption
    DEF AnyInv, Threads, WritePc, AwaitPc, BlockPc, Goto, LockShared, UnlockShared
<1>1. ASSUME NEW t \in Writers, WriteLock(t)
      PROVE  AnyInv'
  <2> USE <1>1 DEF WriteLock
  <2>1. TypeOK'
    BY DEF TypeOK, PcInv, LockInv, ValueInv
  <2>2. PcInv'
    BY DEF PcInv, TypeOK
  <2>3. LockInv'
    BY DEF PcInv, LockInv, TypeOK
  <2>4. ValueInv'
    BY DEF PcInv, LockInv, ValueInv, TypeOK, SameResultForAll
  <2>5. QED
    BY <2>1, <2>2, <2>3, <2>4
<1>2. ASSUME NEW t \in Writers, WriteRejected(t)
      PROVE  AnyInv'
  <2> USE <1>2 DEF WriteRejected
  <2>1. TypeOK'
    BY DEF TypeOK, PcInv, LockInv, ValueInv
  <2>2. PcInv'
    BY DEF PcInv, TypeOK
  <2>3. LockInv'
    BY DEF PcInv, LockInv, TypeOK
  <2>4. ValueInv'
    BY DEF PcInv, LockInv, ValueInv, TypeOK, SameResultForAll
  <2>5. QED
    BY <2>1, <2>2, <2>3, <2>4
<1>3. ASSUME NEW t \in Writers, WriteFill(t)
      PROVE  AnyInv'
  <2> USE <1>3 DEF WriteFill
  <2>1. TypeOK'
    BY DEF TypeOK, PcInv, LockInv, ValueInv
  <2>2. PcInv'
    BY DEF PcInv, TypeOK
  <2>3. LockInv'
    BY DEF PcInv, LockInv, TypeOK
  <2>4. ValueInv'
    <3>1. jobs = <<>>
      <4> SUFFICES ASSUME jobs # <<>> PROVE FALSE
        OBVIOUS
      <4>1. jobs[1] \in Job_ /\ 1 \in DOMAIN jobs
        BY EmptySeq, ElementOfSeq, LenProperties DEF TypeOK
      <4>2. QED
        BY <4>1 DEF SameResultForAll, ValueInv, Job_
    <3>2. \A b \in Blockers : got[b] = NoValue
      BY DEF TypeOK, ValueInv, SameResultForAll
    <3>3. SameResultForAll'
      BY <3>1, <3>2 DEF SameResultForAll
    <3>4. QED
      BY <3>3 DEF PcInv, LockInv, ValueInv, TypeOK
  <2>5. QED
    BY <2>1, <2>2, <2>3, <2>4
<1>4. ASSUME NEW t \in Writers, WriteQueue(t)
      PROVE  AnyInv'
  <2> USE <1>4 DEF WriteQueue
  <2> DEFINE c == callbacks[cursor]
  <2>0. /\ c \in Callbacks \cup {Unwritten} /\ value \in Writers /\ value' = value
        /\ jobs' = Append(jobs, Job(c))
    BY ElementOfSeq DEF TypeOK, ValueInv
  <2>q. /\ jobs' \in Seq(Job_)
        /\ \A i \in DOMAIN jobs' : jobs'[i].result = value'
    <3> HIDE DEF c
    <3> QED
      BY <2>0, QueueJob DEF ValueInv
  <2>1. TypeOK'
    BY <2>q DEF TypeOK, PcInv, LockInv, ValueInv
  <2>2. PcInv'
    BY DEF PcInv, TypeOK
  <2>3. LockInv'
    BY DEF PcInv, LockInv, TypeOK
  <2>4. ValueInv'
    BY <2>q DEF PcInv, LockInv, ValueInv, TypeOK, SameResultForAll
  <2>5. QED
    BY <2>1, <2>2, <2>3, <2>4
<1>5. ASSUME NEW t \in Writers, WriteUnlock(t)
      PROVE  AnyInv'
  <2> USE <1>5 DEF WriteUnlock
  <2>1. TypeOK'
    BY DEF TypeOK, PcInv, LockInv, ValueInv
  <2>2. PcInv'
    BY DEF PcInv, TypeOK
  <2>3. LockInv'
    BY DEF PcInv, LockInv, TypeOK
  <2>4. ValueInv'
    BY DEF PcInv, LockInv, ValueInv, TypeOK, SameResultForAll
  <2>5. QED
    BY <2>1, <2>2, <2>3, <2>4
<1>6. ASSUME NEW t \in Writers, WriteNotify(t)
      PROVE  AnyInv'
  <2> USE <1>6 DEF WriteNotify
  <2>1. TypeOK'
    BY DEF TypeOK, PcInv, LockInv, ValueInv
  <2>2. PcInv'
    BY DEF PcInv, TypeOK
  <2>3. LockInv'
    BY DEF PcInv, LockInv, TypeOK
  <2>4. ValueInv'
    BY DEF PcInv, LockInv, ValueInv, TypeOK, SameResultForAll
  <2>5. QED
    BY <2>1, <2>2, <2>3, <2>4
<1>7. ASSUME NEW t \in Awaiters, NEW c \in Callbacks, AwaitLock(t, c)
      PROVE  AnyInv'
  <2> USE <1>7 DEF AwaitLock
  <2>1. TypeOK'
    BY DEF TypeOK, PcInv, LockInv, ValueInv
  <2>2. PcInv'
    BY DEF PcInv, TypeOK
  <2>3. LockInv'
    BY DEF PcInv, LockInv, TypeOK
  <2>4. ValueInv'
    BY DEF PcInv, LockInv, ValueInv, TypeOK, SameResultForAll
  <2>5. QED
    BY <2>1, <2>2, <2>3, <2>4
<1>8. ASSUME NEW t \in Awaiters, AwaitQueueNow(t)
      PROVE  AnyInv'
  <2> USE <1>8 DEF AwaitQueueNow
  <2> DEFINE c == cb[t]
  <2>0. /\ c \in Callbacks \cup {Unwritten} /\ value \in Writers /\ value' = value
        /\ jobs' = Append(jobs, Job(c))
    BY DEF TypeOK, ValueInv
  <2>q. /\ jobs' \in Seq(Job_)
        /\ \A i \in DOMAIN jobs' : jobs'[i].result = value'
    <3> HIDE DEF c
    <3> QED
      BY <2>0, QueueJob DEF ValueInv
  <2>1. TypeOK'
    BY <2>q DEF TypeOK, PcInv, LockInv, ValueInv
  <2>2. PcInv'
    BY DEF PcInv, TypeOK
  <2>3. LockInv'
    BY DEF PcInv, LockInv, TypeOK
  <2>4. ValueInv'
    BY <2>q DEF PcInv, LockInv, ValueInv, TypeOK, SameResultForAll
  <2>5. QED
    BY <2>1, <2>2, <2>3, <2>4
<1>9. ASSUME NEW t \in Awaiters, AwaitPushBegin(t)
      PROVE  AnyInv'
  <2> USE <1>9 DEF AwaitPushBegin
  <2>1. TypeOK'
    BY DEF TypeOK, PcInv, LockInv, ValueInv
  <2>2. PcInv'
    BY DEF PcInv, TypeOK
  <2>3. LockInv'
    BY DEF PcInv, LockInv, TypeOK
  <2>4. ValueInv'
    BY DEF PcInv, LockInv, ValueInv, TypeOK, SameResultForAll
  <2>5. QED
    BY <2>1, <2>2, <2>3, <2>4
<1>10. ASSUME NEW t \in Awaiters, AwaitPushEnd(t)
      PROVE  AnyInv'
  <2> USE <1>10 DEF AwaitPushEnd
  <2>0. /\ callbacks' \in Seq(Callbacks \cup {Unwritten})
        /\ Len(callbacks') \in Nat /\ Len(callbacks') >= Len(callbacks)
    <3> DEFINE over == [callbacks EXCEPT ![end[t] + 1] = cb[t]]
    <3>1. /\ callbacks \in Seq(Callbacks \cup {Unwritten})
          /\ cb[t] \in Callbacks /\ end[t] \in Nat /\ end[t] <= Len(callbacks)
      BY DEF TypeOK, ValueInv
    <3>2. CASE callbacks' = Append(callbacks, cb[t])
      BY <3>1, <3>2, AppendProperties
    <3>3. CASE end[t] # Len(callbacks)
      <4>1. /\ over \in Seq(Callbacks \cup {Unwritten})
            /\ Len(over) = Len(callbacks)
        BY <3>1, <3>3, ExceptSeq
      <4>2. /\ Append(over, Unwritten) \in Seq(Callbacks \cup {Unwritten})
            /\ Len(Append(over, Unwritten)) = Len(over) + 1
        BY <4>1, AppendProperties
      <4>3. callbacks' = over \/ callbacks' = Append(over, Unwritten)
        BY <3>1, <3>3 DEF Pushed
      <4> HIDE DEF over, AwaitPushEnd
      <4>4. QED
        BY <4>1, <4>2, <4>3
    <3>4. QED
      BY <3>2, <3>3 DEF Pushed
  <2>1. TypeOK'
    BY <2>0 DEF TypeOK, PcInv, LockInv, ValueInv
  <2>2. PcInv'
    BY DEF PcInv, TypeOK
  <2>3. LockInv'
    BY DEF PcInv, LockInv, TypeOK
  <2>4. ValueInv'
    BY <2>0 DEF PcInv, LockInv, ValueInv, TypeOK, SameResultForAll
  <2>5. QED
    BY <2>1, <2>2, <2>3, <2>4
<1>11. ASSUME NEW t \in Blockers, BlockLock(t)
      PROVE  AnyInv'
  <2> USE <1>11 DEF BlockLock
  <2>1. TypeOK'
    BY DEF TypeOK, PcInv, LockInv, ValueInv
  <2>2. PcInv'
    BY DEF PcInv, TypeOK
  <2>3. LockInv'
    BY DEF PcInv, LockInv, TypeOK
  <2>4. ValueInv'
    BY DEF PcInv, LockInv, ValueInv, TypeOK, SameResultForAll
  <2>5. QED
    BY <2>1, <2>2, <2>3, <2>4
<1>12. ASSUME NEW t \in Blockers, BlockTest(t)
      PROVE  AnyInv'
  <2> USE <1>12 DEF BlockTest
  <2>1. TypeOK'
    BY DEF TypeOK, PcInv, LockInv, ValueInv
  <2>2. PcInv'
    BY DEF PcInv, TypeOK
  <2>3. LockInv'
    BY DEF PcInv, LockInv, TypeOK
  <2>4. ValueInv'
    BY DEF PcInv, LockInv, ValueInv, TypeOK, SameResultForAll
  <2>5. QED
    BY <2>1, <2>2, <2>3, <2>4
<1>13. ASSUME NEW t \in Blockers, BlockSpuriousWakeup(t)
      PROVE  AnyInv'
  <2> USE <1>13 DEF BlockSpuriousWakeup
  <2>1. TypeOK'
    BY DEF TypeOK, PcInv, LockInv, ValueInv
  <2>2. PcInv'
    BY DEF PcInv, TypeOK
  <2>3. LockInv'
    BY DEF PcInv, LockInv, TypeOK
  <2>4. ValueInv'
    BY DEF PcInv, LockInv, ValueInv, TypeOK, SameResultForAll
  <2>5. QED
    BY <2>1, <2>2, <2>3, <2>4
<1>14. ASSUME NEW t \in Blockers, BlockRelock(t)
      PROVE  AnyInv'
  <2> USE <1>14 DEF BlockRelock
  <2>1. TypeOK'
    BY DEF TypeOK, PcInv, LockInv, ValueInv
  <2>2. PcInv'
    BY DEF PcInv, TypeOK
  <2>3. LockInv'
    BY DEF PcInv, LockInv, TypeOK
  <2>4. ValueInv'
    BY DEF PcInv, LockInv, ValueInv, TypeOK, SameResultForAll
  <2>5. QED
    BY <2>1, <2>2, <2>3, <2>4
<1>15. ASSUME NEW t \in Blockers, BlockRead(t)
      PROVE  AnyInv'
  <2> USE <1>15 DEF BlockRead
  <2>1. TypeOK'
    BY DEF TypeOK, PcInv, LockInv, ValueInv
  <2>2. PcInv'
    BY DEF PcInv, TypeOK
  <2>3. LockInv'
    BY DEF PcInv, LockInv, TypeOK
  <2>4. ValueInv'
    BY DEF PcInv, LockInv, ValueInv, TypeOK, SameResultForAll
  <2>5. QED
    BY <2>1, <2>2, <2>3, <2>4
<1>16. CASE UNCHANGED vars
  BY <1>16 DEF vars, TypeOK, PcInv, LockInv, ValueInv, SameResultForAll
<1>17. QED
  BY <1>1, <1>2, <1>3, <1>4, <1>5, <1>6, <1>7, <1>8, <1>9, <1>10, <1>11, <1>12, <1>13, <1>14, <1>15, <1>16
     DEF Next, Write, Await, Block, Finished

\* AnyInv holds in every reachable state.
LEMMA AnyInvariant == Safety => []AnyInv
BY InitAny, StepAny, PTL DEF Safety

\* The state of the cell keeps its type, whatever calls overlap.
THEOREM TypeCorrect == Safety => []TypeOK
BY AnyInvariant, PTL DEF AnyInv

\* At most one of the concurrent writes returns true, and it is the one whose
\* result the cell holds.
THEOREM OneWinnerHolds == Safety => []OneWinner
<1>1. AnyInv => OneWinner
  BY DEF AnyInv, ValueInv, OneWinner
<1>2. QED
  BY <1>1, AnyInvariant, PTL

\* Callbacks and blocked threads all get the result the cell holds.
THEOREM SameResultHolds == Safety => []SameResultForAll
BY AnyInvariant, PTL DEF AnyInv, ValueInv

\* A filled cell keeps its result.
THEOREM WriteOnceHolds == Safety => WriteOnce
<1>1. [Next]_vars => [value # NoValue => value' = value]_vars
  BY DEF Next, vars, Write, Await, Block, Finished, WriteLock, WriteRejected,
     WriteFill, WriteQueue, WriteUnlock, WriteNotify, AwaitLock, AwaitQueueNow,
     AwaitPushBegin, AwaitPushEnd, BlockLock, BlockTest, BlockSpuriousWakeup,
     BlockRelock, BlockRead
<1>2. QED
  BY <1>1, PTL DEF Safety, WriteOnce

-----------------------------------------------------------------------------
(* Uses of the cell in which calls of await() do not overlap.              *)

SerialAwaits == \A s, t \in Awaiters : s = t

\* The callbacks in the vector are distinct, registered, and those the loop of
\* write_result_to_value has still to reach are not queued.
VectorInv ==
  /\ \A i \in DOMAIN callbacks : callbacks[i] \in registered
  /\ \A i, j \in DOMAIN callbacks : callbacks[i] = callbacks[j] => i = j
  /\ \A i \in cursor .. Len(callbacks) : ~Queued(callbacks[i])

\* The cursor leaves 1 and callbacks stay in a filled cell only while the write
\* that filled it is in its loop.
CursorInv ==
  (\A t \in Writers : pc[t] # "dispatch")
     => cursor = 1 /\ (value # NoValue => callbacks = <<>>)

\* A callback in the hands of await() is nowhere else, and the end that await()
\* read is still the end of the vector.
InFlightInv ==
  \A t \in Awaiters :
    /\ pc[t] = "idle" <=> cb[t] = NoCallback
    /\ pc[t] # "idle" => /\ cb[t] \in registered
                         /\ ~Queued(cb[t])
                         /\ \A i \in DOMAIN callbacks : callbacks[i] # cb[t]
    /\ pc[t] = "push" => end[t] = Len(callbacks)

\* The jobs carry distinct registered callbacks.
JobsInv ==
  /\ \A i \in DOMAIN jobs : jobs[i].callback \in registered
  /\ \A i, j \in DOMAIN jobs : jobs[i].callback = jobs[j].callback => i = j

SerialInv == VectorInv /\ CursorInv /\ InFlightInv /\ JobsInv /\ NoCallbackLost

\* SerialInv holds of a new WriteOnceCell.
LEMMA InitSerial == Init => SerialInv
BY DEF Init, SerialInv, VectorInv, CursorInv, InFlightInv, JobsInv, NoCallbackLost,
       Queued, Threads

\* What appending a job does to the callbacks that are queued.
LEMMA AppendJob ==
  ASSUME TypeOK, NEW c \in Callbacks \cup {Unwritten}, value \in Writers,
         jobs' = Append(jobs, Job(c))
  PROVE  /\ \A d : Queued(d)' <=> Queued(d) \/ d = c
         /\ JobsInv /\ registered' = registered /\ c \in registered /\ ~Queued(c)
              => JobsInv'
<1>1. Job(c) \in Job_
  BY DEF Job, Job_
<1>2. jobs \in Seq(Job_)
  BY DEF TypeOK
<1>3. /\ DOMAIN jobs = 1 .. Len(jobs) /\ DOMAIN jobs' = 1 .. Len(jobs) + 1
      /\ Len(jobs) \in Nat
      /\ \A i \in 1 .. Len(jobs) : jobs'[i] = jobs[i]
      /\ jobs'[Len(jobs) + 1].callback = c
  BY <1>1, <1>2, AppendProperties, LenProperties DEF Job
<1>4. QED
  BY <1>3 DEF Queued, JobsInv

\* What await() does to the vector when no other await() moved its end.
LEMMA PushCallback ==
  ASSUME TypeOK, VectorInv, cursor = 1, NEW c \in registered, ~Queued(c),
         \A i \in DOMAIN callbacks : callbacks[i] # c,
         callbacks' = Append(callbacks, c),
         UNCHANGED <<cursor, registered, jobs>>
  PROVE  /\ VectorInv'
         /\ \A d : Waiting(d) \/ d = c => Waiting(d)'
<1>1. /\ Len(callbacks) \in Nat /\ Len(callbacks') = Len(callbacks) + 1
      /\ DOMAIN callbacks = 1 .. Len(callbacks)
      /\ DOMAIN callbacks' = 1 .. Len(callbacks) + 1
      /\ \A i \in 1 .. Len(callbacks) : callbacks'[i] = callbacks[i]
      /\ callbacks'[Len(callbacks) + 1] = c
  BY AppendProperties, LenProperties DEF TypeOK
<1>2. \A d : Queued(d)' <=> Queued(d)
  BY DEF Queued
<1>3. \A i \in 1 .. Len(callbacks) :
        /\ callbacks[i] \in registered /\ callbacks[i] # c
        /\ ~Queued(callbacks[i])
  BY <1>1 DEF VectorInv
<1>4. \A i \in DOMAIN callbacks' : callbacks'[i] \in registered'
  BY <1>1, <1>3
<1>5. \A i, j \in DOMAIN callbacks' : callbacks'[i] = callbacks'[j] => i = j
  BY <1>1, <1>3 DEF VectorInv
<1>6. ASSUME NEW i \in 1 .. Len(callbacks')
      PROVE  ~Queued(callbacks[i])'
  <2>1. CASE i = Len(callbacks) + 1
    BY <2>1, <1>1 DEF Queued
  <2>2. CASE i \in 1 .. Len(callbacks)
    BY <2>2, <1>1, <1>3 DEF Queued
  <2>3. QED
    BY <2>1, <2>2, <1>1
<1>7. VectorInv'
  BY <1>4, <1>5, <1>6 DEF VectorInv
<1>8. \A d : Waiting(d) \/ d = c => Waiting(d)'
  BY <1>1 DEF Waiting
<1>9. QED
  BY <1>7, <1>8

\* Steps that touch neither the vector, nor the jobs, nor what is in flight.
LEMMA SerialFrame ==
  ASSUME AnyInv, SerialInv,
         UNCHANGED <<callbacks, cursor, cb, end, registered, jobs>>,
         \A t \in Awaiters : pc'[t] = pc[t],
         CursorInv'
  PROVE  SerialInv'
BY DEF SerialInv, VectorInv, InFlightInv, JobsInv, NoCallbackLost, Queued, Waiting,
       InFlight

\* Every step preserves SerialInv, if calls of await() do not overlap.
LEMMA StepSerial ==
  ASSUME SerialAwaits
  PROVE  AnyInv /\ AnyInv' /\ SerialInv /\ [Next]_vars => SerialInv'
<1> SUFFICES ASSUME AnyInv, AnyInv', SerialInv, [Next]_vars
             PROVE  SerialInv'
  OBVIOUS
<1> USE ThreadsAssumption, ValuesAssumption DEF AnyInv, Threads, Goto
<1>1. ASSUME NEW t \in Writers, WriteLock(t)
      PROVE  SerialInv'
  <2>1. CursorInv'
    BY <1>1 DEF WriteLock, SerialInv, CursorInv, TypeOK, PcInv, LockInv, ValueInv
  <2>2. QED
    BY <1>1, <2>1, SerialFrame DEF WriteLock, TypeOK
<1>2. ASSUME NEW t \in Writers, WriteRejected(t)
      PROVE  SerialInv'
  <2>1. CursorInv'
    BY <1>2 DEF WriteRejected, SerialInv, CursorInv, TypeOK, PcInv, LockInv, ValueInv
  <2>2. QED
    BY <1>2, <2>1, SerialFrame DEF WriteRejected, TypeOK
<1>3. ASSUME NEW t \in Writers, WriteFill(t)
      PROVE  SerialInv'
  <2>1. CursorInv'
    BY <1>3 DEF WriteFill, SerialInv, CursorInv, TypeOK, PcInv, LockInv, ValueInv
  <2>2. QED
    BY <1>3, <2>1, SerialFrame DEF WriteFill, TypeOK
<1>4. ASSUME NEW t \in Writers, WriteNotify(t)
      PROVE  SerialInv'
  <2>1. CursorInv'
    BY <1>4 DEF WriteNotify, SerialInv, CursorInv, TypeOK, PcInv, LockInv, ValueInv
  <2>2. ASSUME NEW a \in Awaiters PROVE pc'[a] = pc[a]
    BY <1>4 DEF WriteNotify, PcInv, AwaitPc
  <2>3. QED
    BY <1>4, <2>1, <2>2, SerialFrame DEF WriteNotify
<1>5. ASSUME NEW t \in Blockers, BlockLock(t)
      PROVE  SerialInv'
  <2>1. CursorInv'
    BY <1>5 DEF BlockLock, SerialInv, CursorInv, TypeOK, PcInv, LockInv, ValueInv
  <2>2. QED
    BY <1>5, <2>1, SerialFrame DEF BlockLock, TypeOK
<1>6. ASSUME NEW t \in Blockers, BlockTest(t)
      PROVE  SerialInv'
  <2>1. CursorInv'
    BY <1>6 DEF BlockTest, SerialInv, CursorInv, TypeOK, PcInv, LockInv, ValueInv
  <2>2. QED
    BY <1>6, <2>1, SerialFrame DEF BlockTest, TypeOK
<1>7. ASSUME NEW t \in Blockers, BlockSpuriousWakeup(t)
      PROVE  SerialInv'
  <2>1. CursorInv'
    BY <1>7 DEF BlockSpuriousWakeup, SerialInv, CursorInv, TypeOK, PcInv, LockInv, ValueInv
  <2>2. QED
    BY <1>7, <2>1, SerialFrame DEF BlockSpuriousWakeup, TypeOK
<1>8. ASSUME NEW t \in Blockers, BlockRelock(t)
      PROVE  SerialInv'
  <2>1. CursorInv'
    BY <1>8 DEF BlockRelock, SerialInv, CursorInv, TypeOK, PcInv, LockInv, ValueInv
  <2>2. QED
    BY <1>8, <2>1, SerialFrame DEF BlockRelock, TypeOK
<1>9. ASSUME NEW t \in Blockers, BlockRead(t)
      PROVE  SerialInv'
  <2>1. CursorInv'
    BY <1>9 DEF BlockRead, SerialInv, CursorInv, TypeOK, PcInv, LockInv, ValueInv
  <2>2. QED
    BY <1>9, <2>1, SerialFrame DEF BlockRead, TypeOK
<1>10. ASSUME NEW t \in Writers, WriteQueue(t)
      PROVE  SerialInv'
  <2> USE <1>10 DEF WriteQueue
  <2> DEFINE c == callbacks[cursor]
  <2>0. /\ c \in Callbacks \cup {Unwritten} /\ value \in Writers
        /\ cursor \in DOMAIN callbacks /\ DOMAIN callbacks = 1 .. Len(callbacks)
        /\ cursor \in Nat \ {0} /\ Len(callbacks) \in Nat /\ cursor <= Len(callbacks)
        /\ jobs' = Append(jobs, Job(c))
    BY ElementOfSeq, LenProperties DEF TypeOK, ValueInv
  <2>00. c \in registered /\ ~Queued(c)
    BY <2>0 DEF SerialInv, VectorInv
  <2>a. /\ \A d : Queued(d)' <=> Queued(d) \/ d = c
        /\ JobsInv'
    <3> HIDE DEF c
    <3> QED
      BY <2>0, <2>00, AppendJob DEF SerialInv
  <2>b. \A i \in DOMAIN callbacks : callbacks[i] = c => i = cursor
    BY <2>0 DEF SerialInv, VectorInv
  <2>c. \A a \in Awaiters : pc[a] # "idle" => cb[a] # c
    BY <2>0 DEF SerialInv, InFlightInv
  <2>1. VectorInv'
    <3> SUFFICES ASSUME NEW i \in cursor + 1 .. Len(callbacks)
                 PROVE  ~Queued(callbacks[i])'
      BY <2>0 DEF SerialInv, VectorInv
    <3>1. i \in DOMAIN callbacks /\ i \in cursor .. Len(callbacks) /\ i # cursor
      BY <2>0
    <3>2. callbacks[i] # c /\ ~Queued(callbacks[i])
      BY <3>1, <2>b DEF SerialInv, VectorInv
    <3> HIDE DEF c
    <3>3. QED
      BY <3>2, <2>a DEF Queued
  <2>2. CursorInv'
    BY DEF SerialInv, CursorInv, TypeOK, PcInv, LockInv, ValueInv
  <2>3. InFlightInv'
    <3> HIDE DEF c
    <3>1. \A a \in Awaiters : pc[a] # "idle" => ~Queued(cb[a])'
      <4>1. TAKE a \in Awaiters
      <4>2. HAVE pc[a] # "idle"
      <4>3. ~Queued(cb[a]) /\ cb[a] # c
        BY <4>2, <2>c DEF SerialInv, InFlightInv
      <4>4. ~Queued(cb[a])'
        BY <4>3, <2>a DEF Queued
      <4>5. QED
        BY <4>4
    <3>2. QED
      BY <3>1 DEF SerialInv, InFlightInv, Queued
  <2>5. NoCallbackLost'
    <3>1. ASSUME NEW d \in registered, Waiting(d), d # c
          PROVE  Waiting(d)'
      BY <3>1, <2>0 DEF Waiting
    <3> HIDE DEF c
    <3>2. QED
      BY <3>1, <2>a DEF SerialInv, NoCallbackLost, InFlight
  <2>6. QED
    BY <2>1, <2>2, <2>3, <2>a, <2>5 DEF SerialInv
<1>11. ASSUME NEW t \in Writers, WriteUnlock(t)
      PROVE  SerialInv'
  <2> USE <1>11 DEF WriteUnlock
  <2>0. \A a \in Awaiters : pc[a] = "idle" /\ pc'[a] = "idle"
    BY DEF TypeOK, PcInv, AwaitPc, LockInv
  <2>1. VectorInv'
    BY DEF SerialInv, VectorInv
  <2>2. CursorInv'
    BY DEF SerialInv, CursorInv, TypeOK, PcInv, LockInv, ValueInv
  <2>3. InFlightInv'
    BY <2>0 DEF SerialInv, InFlightInv
  <2>4. JobsInv'
    BY DEF SerialInv, JobsInv
  <2>5. NoCallbackLost'
    <3>1. \A d : ~Waiting(d)
      BY LenProperties DEF TypeOK, Waiting
    <3>2. QED
      BY <3>1 DEF SerialInv, NoCallbackLost, Queued, InFlight
  <2>6. QED
    BY <2>1, <2>2, <2>3, <2>4, <2>5 DEF SerialInv
<1>12. ASSUME NEW t \in Awaiters, NEW c \in Callbacks, AwaitLock(t, c)
      PROVE  SerialInv'
  <2> USE <1>12 DEF AwaitLock
  <2>0. /\ \A a \in Awaiters : a = t
        /\ cb[t] = NoCallback /\ cb'[t] = c /\ pc'[t] = "await"
    BY DEF SerialAwaits, SerialInv, InFlightInv, TypeOK
  <2>1. VectorInv'
    BY DEF SerialInv, VectorInv, Queued
  <2>2. CursorInv'
    BY DEF SerialInv, CursorInv, TypeOK, PcInv, LockInv, ValueInv
  <2>3. InFlightInv'
    <3>1. ~Queued(c) /\ \A i \in DOMAIN callbacks : callbacks[i] # c
      BY DEF SerialInv, VectorInv, JobsInv, Queued
    <3>2. QED
      BY <3>1, <2>0 DEF InFlightInv, Queued
  <2>4. JobsInv'
    BY DEF SerialInv, JobsInv
  <2>5. NoCallbackLost'
    <3>1. \A d \in Callbacks : InFlight(d) => d = NoCallback
      BY <2>0 DEF InFlight
    <3>2. InFlight(c)'
      BY <2>0 DEF InFlight
    <3>3. \A d \in registered : Waiting(d) \/ Queued(d)
      BY <3>1 DEF SerialInv, NoCallbackLost, TypeOK
    <3>4. \A d \in registered : (Waiting(d) \/ Queued(d))'
      BY <3>3 DEF Waiting, Queued
    <3>5. QED
      BY <3>2, <3>4 DEF NoCallbackLost
  <2>6. QED
    BY <2>1, <2>2, <2>3, <2>4, <2>5 DEF SerialInv
<1>13. ASSUME NEW t \in Awaiters, AwaitQueueNow(t)
      PROVE  SerialInv'
  <2> USE <1>13 DEF AwaitQueueNow, UnlockShared
  <2> DEFINE c == cb[t]
  <2>0. /\ \A a \in Awaiters : a = t
        /\ c \in Callbacks \cup {Unwritten} /\ value \in Writers
        /\ jobs' = Append(jobs, Job(c))
        /\ c \in registered /\ ~Queued(c)
        /\ cb'[t] = NoCallback /\ pc'[t] = "idle"
    BY DEF SerialAwaits, SerialInv, InFlightInv, TypeOK, ValueInv
  <2>00. callbacks = <<>>
    BY DEF TypeOK, LockInv, SerialInv, CursorInv
  <2>a. /\ \A d : Queued(d)' <=> Queued(d) \/ d = c
        /\ JobsInv'
    <3> HIDE DEF c
    <3> QED
      BY <2>0, AppendJob DEF SerialInv
  <2>1. VectorInv'
    <3>1. DOMAIN callbacks = {} /\ cursor .. Len(callbacks) = {}
      BY <2>00, LenProperties DEF TypeOK
    <3>2. QED
      BY <3>1 DEF VectorInv
  <2>2. CursorInv'
    BY DEF SerialInv, CursorInv, TypeOK, PcInv, LockInv, ValueInv
  <2>3. InFlightInv'
    BY <2>0 DEF InFlightInv
  <2>5. NoCallbackLost'
    <3>1. \A d \in registered : d = c \/ Waiting(d) \/ Queued(d)
      BY <2>0 DEF SerialInv, NoCallbackLost, InFlight
    <3>2. \A d : Waiting(d) => Waiting(d)'
      BY DEF Waiting
    <3> HIDE DEF c
    <3>3. QED
      BY <3>1, <3>2, <2>a DEF NoCallbackLost
  <2>6. QED
    BY <2>1, <2>2, <2>3, <2>a, <2>5 DEF SerialInv
<1>14. ASSUME NEW t \in Awaiters, AwaitPushBegin(t)
      PROVE  SerialInv'
  <2> USE <1>14 DEF AwaitPushBegin
  <2>1. VectorInv'
    BY DEF SerialInv, VectorInv, CursorInv, TypeOK, Queued
  <2>2. CursorInv'
    BY DEF SerialInv, CursorInv, TypeOK, PcInv, LockInv, ValueInv
  <2>3. InFlightInv'
    BY DEF SerialInv, InFlightInv, TypeOK, PcInv, Queued
  <2>4. JobsInv'
    BY DEF SerialInv, JobsInv, TypeOK
  <2>5. NoCallbackLost'
    BY DEF SerialInv, NoCallbackLost, CursorInv, TypeOK, Queued, Waiting, InFlight
  <2>6. QED
    BY <2>1, <2>2, <2>3, <2>4, <2>5 DEF SerialInv
<1>15. ASSUME NEW t \in Awaiters, AwaitPushEnd(t)
      PROVE  SerialInv'
  <2> USE <1>15 DEF AwaitPushEnd, Pushed, UnlockShared
  <2> DEFINE c == cb[t]
  <2>0. /\ \A a \in Awaiters : a = t
        /\ c \in Callbacks /\ c \in registered /\ ~Queued(c)
        /\ \A i \in DOMAIN callbacks : callbacks[i] # c
        /\ cb'[t] = NoCallback /\ pc'[t] = "idle"
        /\ callbacks' = Append(callbacks, c)
    BY DEF SerialAwaits, SerialInv, InFlightInv, TypeOK, ValueInv
  <2>00. cursor = 1 /\ value = NoValue
    BY DEF TypeOK, LockInv, ValueInv, SerialInv, CursorInv
  <2>1. VectorInv' /\ \A d : Waiting(d) \/ d = c => Waiting(d)'
    <3> HIDE DEF c
    <3> QED
      BY <2>0, <2>00, PushCallback DEF SerialInv
  <2>2. CursorInv'
    BY DEF SerialInv, CursorInv, TypeOK, PcInv, LockInv, ValueInv
  <2>3. InFlightInv'
    BY <2>0 DEF InFlightInv
  <2>4. JobsInv'
    BY DEF SerialInv, JobsInv
  <2>5. NoCallbackLost'
    <3>1. \A d \in registered : d = c \/ Waiting(d) \/ Queued(d)
      BY <2>0 DEF SerialInv, NoCallbackLost, InFlight
    <3> HIDE DEF c
    <3>2. QED
      BY <3>1, <2>1 DEF NoCallbackLost, Queued
  <2>6. QED
    BY <2>1, <2>2, <2>3, <2>4, <2>5 DEF SerialInv
<1>16. CASE UNCHANGED vars
  <2>1. CursorInv'
    BY <1>16 DEF vars, SerialInv, CursorInv
  <2>2. QED
    BY <1>16, <2>1, SerialFrame DEF vars
<1>17. QED
  BY <1>1, <1>2, <1>3, <1>4, <1>5, <1>6, <1>7, <1>8, <1>9, <1>10, <1>11, <1>12, <1>13, <1>14, <1>15, <1>16
     DEF Next, Write, Await, Block, Finished

\* SerialInv holds in every reachable state of a cell with one awaiting thread.
LEMMA SerialInvariant == SerialAwaits /\ Safety => []SerialInv
<1>1. SerialAwaits /\ AnyInv /\ AnyInv' /\ SerialInv /\ [Next]_vars => SerialInv'
  BY StepSerial
<1>2. ASSUME SerialAwaits PROVE Safety => []SerialInv
  <2>1. AnyInv /\ AnyInv' /\ SerialInv /\ [Next]_vars => SerialInv'
    BY <1>1, <1>2
  <2>2. QED
    BY <2>1, InitSerial, AnyInvariant, PTL DEF Safety
<1>3. QED
  BY <1>2

\* As long as calls of await() do not overlap, no callback is lost ...
THEOREM NoCallbackLostHolds == SerialAwaits /\ Safety => []NoCallbackLost
BY SerialInvariant, PTL DEF SerialInv

\* ... none is queued twice, and nothing else is queued ...
THEOREM QueuedAtMostOnceHolds == SerialAwaits /\ Safety => []QueuedAtMostOnce
<1>1. AnyInv /\ SerialInv => QueuedAtMostOnce
  BY DEF SerialInv, JobsInv, VectorInv, QueuedAtMostOnce, Waiting
<1>2. QED
  BY <1>1, AnyInvariant, SerialInvariant, PTL

\* ... and none is left behind in the vector of a filled cell.
THEOREM NoCallbackStrandedHolds == SerialAwaits /\ Safety => []NoCallbackStranded
<1>1. SerialInv => NoCallbackStranded
  BY DEF SerialInv, CursorInv, NoCallbackStranded
<1>2. QED
  BY <1>1, SerialInvariant, PTL

-----------------------------------------------------------------------------
(* With one awaiting thread, WriteOnceCell implements OnceCell.            *)

\* The callbacks that OnceCell calls pending.
Pending == {callbacks[i] : i \in cursor .. Len(callbacks)}

\* A new WriteOnceCell is a OnceCell without a result.
LEMMA InitRefines == Init => Cell!Init
BY DEF Init, Cell!Init

\* Every step of the cell is a step of OnceCell or changes nothing it sees.
LEMMA StepRefines ==
  ASSUME SerialAwaits
  PROVE  AnyInv /\ SerialInv /\ [Next]_vars => [Cell!Next]_(Cell!vars)
<1> SUFFICES ASSUME AnyInv, SerialInv, [Next]_vars
             PROVE  [Cell!Next]_(Cell!vars)
  OBVIOUS
<1> USE ThreadsAssumption, ValuesAssumption DEF AnyInv, Threads
<1>1. ASSUME UNCHANGED <<value, callbacks, cursor, jobs>>
      PROVE  UNCHANGED Cell!vars
  BY <1>1 DEF Cell!vars
<1>2. ASSUME NEW t \in Writers, WriteFill(t)
      PROVE  Cell!Resolve(t)
  BY <1>2 DEF WriteFill, Cell!Resolve
<1>3. ASSUME NEW t \in Writers, WriteQueue(t)
      PROVE  \E c \in Callbacks : Cell!HandOver(c)
  <2>1. /\ cursor \in Nat \ {0} /\ Len(callbacks) \in Nat
        /\ cursor <= Len(callbacks) /\ DOMAIN callbacks = 1 .. Len(callbacks)
    BY <1>3, LenProperties DEF WriteQueue, TypeOK
  <2>a. callbacks[cursor] \in Callbacks
    BY <2>1 DEF SerialInv, VectorInv, TypeOK
  <2>b. value # NoValue
    BY <1>3 DEF WriteQueue, ValueInv
  <2>2. PICK c \in Callbacks : c = callbacks[cursor] /\ value # NoValue
    BY <2>a, <2>b
  <2>3. \A i \in cursor .. Len(callbacks) : callbacks[i] = c => i = cursor
    BY <2>1, <2>2 DEF SerialInv, VectorInv
  <2>4. Pending' = Pending \ {c} /\ c \in Pending
    BY <1>3, <2>1, <2>2, <2>3 DEF WriteQueue, Pending
  <2>5. jobs' = Append(jobs, Cell!Job(c)) /\ value' = value
    BY <1>3, <2>2 DEF WriteQueue, Job, Cell!Job
  <2>6. Cell!HandOver(c)
    BY <2>2, <2>4, <2>5 DEF Cell!HandOver, Pending
  <2>7. QED
    BY <2>2, <2>6
<1>4. ASSUME NEW t \in Writers, WriteUnlock(t)
      PROVE  UNCHANGED Cell!vars
  <2>1. Pending = {} /\ Pending' = {}
    BY <1>4, LenProperties DEF WriteUnlock, TypeOK, Pending
  <2>2. QED
    BY <1>4, <2>1 DEF WriteUnlock, Cell!vars, Pending
<1>5. ASSUME NEW t \in Awaiters, AwaitQueueNow(t)
      PROVE  \E c \in Callbacks : Cell!HandOverNow(c)
  <2>0. PICK c \in Callbacks : c = cb[t]
    BY <1>5 DEF AwaitQueueNow, ValueInv
  <2>1. c \in Callbacks /\ ~Queued(c) /\ c \notin Pending
    <3>1. /\ c \in Callbacks /\ ~Queued(c)
          /\ \A i \in DOMAIN callbacks : callbacks[i] # c
      BY <1>5, <2>0 DEF AwaitQueueNow, SerialInv, InFlightInv, ValueInv
    <3>2. cursor .. Len(callbacks) \subseteq DOMAIN callbacks
      BY LenProperties DEF TypeOK
    <3>3. QED
      BY <3>1, <3>2 DEF Pending
  <2>2. /\ value # NoValue /\ jobs' = Append(jobs, Cell!Job(c))
        /\ UNCHANGED <<value, callbacks, cursor>>
    BY <1>5, <2>0 DEF AwaitQueueNow, Job, Cell!Job
  <2>3. Cell!HandOverNow(c)
    BY <2>1, <2>2 DEF Cell!HandOverNow, Cell!Fresh, Cell!HandedOver, Queued, Pending
  <2>4. QED
    BY <2>1, <2>3
<1>6. ASSUME NEW t \in Awaiters, AwaitPushEnd(t)
      PROVE  \E c \in Callbacks : Cell!Register(c)
  <2>0. PICK c \in Callbacks : c = cb[t]
    BY <1>6 DEF AwaitPushEnd, ValueInv
  <2>1. /\ c \in Callbacks /\ ~Queued(c)
        /\ \A i \in DOMAIN callbacks : callbacks[i] # c
        /\ end[t] = Len(callbacks)
    BY <1>6, <2>0 DEF AwaitPushEnd, SerialInv, InFlightInv, ValueInv
  <2>2. cursor = 1 /\ value = NoValue
    BY <1>6 DEF AwaitPushEnd, TypeOK, LockInv, ValueInv, SerialInv, CursorInv
  <2>3. /\ callbacks' = Append(callbacks, c)
        /\ UNCHANGED <<value, cursor, jobs>>
    BY <1>6, <2>0, <2>1 DEF AwaitPushEnd, Pushed
  <2>4. /\ Len(callbacks) \in Nat /\ Len(callbacks') = Len(callbacks) + 1
        /\ DOMAIN callbacks = 1 .. Len(callbacks)
        /\ \A i \in 1 .. Len(callbacks) : callbacks'[i] = callbacks[i]
        /\ callbacks'[Len(callbacks) + 1] = c
    <3> QED
      BY <2>1, <2>3, AppendProperties, LenProperties DEF TypeOK
  <2>5. c \notin Pending /\ Pending' = Pending \cup {c}
    <3> QED
      BY <2>1, <2>2, <2>3, <2>4 DEF Pending
  <2>6. Cell!Register(c)
    BY <2>1, <2>3, <2>5
       DEF Cell!Register, Cell!Fresh, Cell!HandedOver, Queued, Pending
  <2>7. QED
    BY <2>1, <2>6
<1>7. QED
  BY <1>1, <1>2, <1>3, <1>4, <1>5, <1>6
     DEF Next, Write, Await, Block, Finished, vars, Cell!Next, WriteLock,
         WriteRejected, WriteNotify, AwaitLock, AwaitPushBegin, BlockLock,
         BlockTest, BlockSpuriousWakeup, BlockRelock, BlockRead

\* What clients of a cell rely on: it resolves once, and hands each callback to
\* the scheduler at most once and never before the result is there.
THEOREM RefinesOnceCell == SerialAwaits /\ Safety => Cell!Safety
<1>1. ASSUME SerialAwaits PROVE Safety => Cell!Safety
  <2>1. AnyInv /\ SerialInv /\ [Next]_vars => [Cell!Next]_(Cell!vars)
    BY <1>1, StepRefines
  <2>2. SerialAwaits
    BY <1>1
  <2>3. QED
    BY <2>1, <2>2, InitRefines, AnyInvariant, SerialInvariant, PTL DEF Safety, Cell!Safety
<1>2. QED
  BY <1>1
=============================================================================
