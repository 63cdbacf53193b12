----------------------- MODULE TrackingOnceCellProofs -----------------------
(***************************************************************************)
(* Proofs about TrackingOnceCell, for any sets of threads, callbacks and   *)
(* cells to track.                                                         *)
(*                                                                         *)
(* AnyInv is inductive for every use of the cell, overlapping calls of     *)
(* await() included.  SerialInv extends it for the uses in which calls of  *)
(* await() do not overlap (SerialAwaits), for which the cell is a OnceCell *)
(* to those who await it.                                                  *)
(***************************************************************************)
EXTENDS TrackingOnceCell, SequenceTheorems, TLAPS

TrackPc == {"idle", "lock", "locked", "passing", "notify", "true", "false"}
AwaitPc == {"idle", "lock", "await", "push"}
BlockPc == {"idle", "lock", "block", "waiting", "relock", "woken", "returned", "threw"}

\* Each kind of thread is inside its own kind of call.
PcInv ==
  /\ \A t \in Trackers : pc[t] \in TrackPc
  /\ \A t \in Awaiters : pc[t] \in AwaitPc
  /\ \A t \in Blockers : pc[t] \in BlockPc

\* The mutex is held by the threads inside its critical sections, and by one
\* tracker or by readers, never both.
LockInv ==
  /\ \A t \in Trackers : pc[t] \in {"locked", "passing"} <=> writer = t
  /\ \A t \in Awaiters : pc[t] \in {"await", "push"} <=> t \in readers
  /\ \A t \in Blockers : pc[t] \in {"block", "woken"} <=> t \in readers
  /\ writer # Nothing => readers = {}

\* What the threads in a call know of the cell, and were called with.
CallInv ==
  /\ \A t \in Trackers : pc[t] \in {"lock", "locked"} => arg[t] \in Cells
  /\ \A t \in Trackers : pc[t] = "passing" => cell # Nothing
  /\ \A t \in Awaiters : pc[t] # "idle" => arg[t] \in Callbacks
  /\ \A t \in Awaiters : pc[t] = "push" => cell = Nothing /\ end[t] <= Len(callbacks)
  /\ got \in [Blockers -> Results \cup {Nothing}]

AnyInv == TypeOK /\ PcInv /\ LockInv /\ CallInv

\* AnyInv holds of a new TrackingOnceCell.
LEMMA InitAny == Init => AnyInv
BY TrackingAssumption
   DEF Init, AnyInv, TypeOK, PcInv, LockInv, CallInv, Threads, TrackPc, AwaitPc, BlockPc

Job_ == [callback : Callbacks \cup {Unwritten}, result : Results]

\* await() on a tracked cell keeps the types of its callbacks and of the jobs.
LEMMA InnerAwaitType ==
  ASSUME TypeOK, NEW k \in Cells, NEW c \in Callbacks \cup {Unwritten}, InnerAwait(k, c)
  PROVE  /\ pending' \in [Cells -> SUBSET (Callbacks \cup {Unwritten})]
         /\ jobs' \in Seq(Job_)
         /\ result' = result
<1>1. result[k] # Nothing => Job(c, result[k]) \in Job_
  BY DEF TypeOK, Job, Job_
<1>2. jobs \in Seq(Job_)
  BY DEF TypeOK, Job_
<1>3. result[k] # Nothing => Append(jobs, Job(c, result[k])) \in Seq(Job_)
  BY <1>1, <1>2, AppendProperties
<1>4. CASE result[k] = Nothing
  <2>1. pending \in [Cells -> SUBSET (Callbacks \cup {Unwritten})]
    BY DEF TypeOK
  <2>2. pending[k] \cup {c} \in SUBSET (Callbacks \cup {Unwritten})
    BY <2>1
  <2>3. QED
    BY <1>2, <1>4, <2>1, <2>2 DEF InnerAwait
<1>5. CASE result[k] # Nothing
  BY <1>3, <1>5 DEF InnerAwait, TypeOK
<1>6. QED
  BY <1>4, <1>5

\* Every step of track(), await(), block() and the tracked cells preserves AnyInv.
LEMMA StepAny == AnyInv /\ [Next]_vars => AnyInv'
<1> SUFFICES ASSUME AnyInv, [Next]_vars
             PROVE  AnyInv'
  OBVIOUS
<1> USE TrackingAssumption
    DEF AnyInv, Threads, TrackPc, AwaitPc, BlockPc, Move, LockShared, UnlockShared,
        LockExclusive, outer, mutex, local, inner
<1>a. ASSUME NEW t \in Trackers, NEW k \in Cells, TrackCall(t, k)
      PROVE  AnyInv'
  <2> USE <1>a DEF TrackCall
  <2>1. TypeOK'
    BY DEF TypeOK, PcInv, LockInv, CallInv
  <2>2. PcInv'
    BY DEF PcInv, TypeOK
  <2>3. LockInv'
    BY DEF PcInv, LockInv, TypeOK
  <2>4. CallInv'
    BY DEF PcInv, LockInv, CallInv, TypeOK
  <2>5. QED
    BY <2>1, <2>2, <2>3, <2>4
<1>b. ASSUME NEW t \in Awaiters, NEW c \in Callbacks, AwaitCall(t, c)
      PROVE  AnyInv'
  <2> USE <1>b DEF AwaitCall
  <2>1. TypeOK'
    BY DEF TypeOK, PcInv, LockInv, CallInv
  <2>2. PcInv'
    BY DEF PcInv, TypeOK
  <2>3. LockInv'
    BY DEF PcInv, LockInv, TypeOK
  <2>4. CallInv'
    BY DEF PcInv, LockInv, CallInv, TypeOK
  <2>5. QED
    BY <2>1, <2>2, <2>3, <2>4
<1>c. ASSUME NEW t \in Blockers, BlockCall(t)
      PROVE  AnyInv'
  <2> USE <1>c DEF BlockCall
  <2>1. TypeOK'
    BY DEF TypeOK, PcInv, LockInv, CallInv
  <2>2. PcInv'
    BY DEF PcInv, TypeOK
  <2>3. LockInv'
    BY DEF PcInv, LockInv, TypeOK
  <2>4. CallInv'
    BY DEF PcInv, LockInv, CallInv, TypeOK
  <2>5. QED
    BY <2>1, <2>2, <2>3, <2>4
<1>1. ASSUME NEW t \in Trackers, TrackLock(t)
      PROVE  AnyInv'
  <2> USE <1>1 DEF TrackLock
  <2>1. TypeOK'
    BY DEF TypeOK, PcInv, LockInv, CallInv
  <2>2. PcInv'
    BY DEF PcInv, TypeOK
  <2>3. LockInv'
    BY DEF PcInv, LockInv, TypeOK
  <2>4. CallInv'
    BY DEF PcInv, LockInv, CallInv, TypeOK
  <2>5. QED
    BY <2>1, <2>2, <2>3, <2>4
<1>2. ASSUME NEW t \in Trackers, TrackRejected(t)
      PROVE  AnyInv'
  <2> USE <1>2 DEF TrackRejected
  <2>1. TypeOK'
    BY DEF TypeOK, PcInv, LockInv, CallInv
  <2>2. PcInv'
    BY DEF PcInv, TypeOK
  <2>3. LockInv'
    BY DEF PcInv, LockInv, TypeOK
  <2>4. CallInv'
    BY DEF PcInv, LockInv, CallInv, TypeOK
  <2>5. QED
    BY <2>1, <2>2, <2>3, <2>4
<1>3. ASSUME NEW t \in Trackers, TrackFill(t)
      PROVE  AnyInv'
  <2> USE <1>3 DEF TrackFill
  <2>1. TypeOK'
    BY DEF TypeOK, PcInv, LockInv, CallInv
  <2>2. PcInv'
    BY DEF PcInv, TypeOK
  <2>3. LockInv'
    BY DEF PcInv, LockInv, TypeOK
  <2>4. CallInv'
    BY DEF PcInv, LockInv, CallInv, TypeOK
  <2>5. QED
    BY <2>1, <2>2, <2>3, <2>4
<1>4. ASSUME NEW t \in Trackers, TrackPass(t)
      PROVE  AnyInv'
  <2> USE <1>4 DEF TrackPass
  <2>0. callbacks[cursor] \in Callbacks \cup {Unwritten} /\ cell \in Cells
    BY ElementOfSeq DEF TypeOK, CallInv
  <2>q. /\ pending' \in [Cells -> SUBSET (Callbacks \cup {Unwritten})]
        /\ jobs' \in Seq(Job_)
        /\ result' = result
    BY <2>0, InnerAwaitType
  <2>1. TypeOK'
    BY <2>q DEF TypeOK, PcInv, LockInv, CallInv, Job_
  <2>2. PcInv'
    BY DEF PcInv, TypeOK
  <2>3. LockInv'
    BY DEF PcInv, LockInv, TypeOK
  <2>4. CallInv'
    BY DEF PcInv, LockInv, CallInv, TypeOK
  <2>5. QED
    BY <2>1, <2>2, <2>3, <2>4
<1>5. ASSUME NEW t \in Trackers, TrackUnlock(t)
      PROVE  AnyInv'
  <2> USE <1>5 DEF TrackUnlock, AllPassed
  <2>1. TypeOK'
    BY DEF TypeOK, PcInv, LockInv, CallInv
  <2>2. PcInv'
    BY DEF PcInv, TypeOK
  <2>3. LockInv'
    BY DEF PcInv, LockInv, TypeOK
  <2>4. CallInv'
    BY DEF PcInv, LockInv, CallInv, TypeOK
  <2>5. QED
    BY <2>1, <2>2, <2>3, <2>4
<1>6. ASSUME NEW t \in Trackers, TrackNotify(t)
      PROVE  AnyInv'
  <2> USE <1>6 DEF TrackNotify, Woken
  <2>1. TypeOK'
    BY DEF TypeOK, PcInv, LockInv, CallInv
  <2>2. PcInv'
    BY DEF PcInv, TypeOK
  <2>3. LockInv'
    BY DEF PcInv, LockInv, TypeOK
  <2>4. CallInv'
    BY DEF PcInv, LockInv, CallInv, TypeOK
  <2>5. QED
    BY <2>1, <2>2, <2>3, <2>4
<1>7. ASSUME NEW t \in Awaiters, AwaitLock(t)
      PROVE  AnyInv'
  <2> USE <1>7 DEF AwaitLock
  <2>1. TypeOK'
    BY DEF TypeOK, PcInv, LockInv, CallInv
  <2>2. PcInv'
    BY DEF PcInv, TypeOK
  <2>3. LockInv'
    BY DEF PcInv, LockInv, TypeOK
  <2>4. CallInv'
    BY DEF PcInv, LockInv, CallInv, TypeOK
  <2>5. QED
    BY <2>1, <2>2, <2>3, <2>4
<1>8. ASSUME NEW t \in Awaiters, AwaitInner(t)
      PROVE  AnyInv'
  <2> USE <1>8 DEF AwaitInner
  <2>0. arg[t] \in Callbacks \cup {Unwritten} /\ cell \in Cells
    BY DEF TypeOK, CallInv
  <2>q. /\ pending' \in [Cells -> SUBSET (Callbacks \cup {Unwritten})]
        /\ jobs' \in Seq(Job_)
        /\ result' = result
    BY <2>0, InnerAwaitType
  <2>1. TypeOK'
    BY <2>q DEF TypeOK, PcInv, LockInv, CallInv, Job_
  <2>2. PcInv'
    BY DEF PcInv, TypeOK
  <2>3. LockInv'
    BY DEF PcInv, LockInv, TypeOK
  <2>4. CallInv'
    BY DEF PcInv, LockInv, CallInv, TypeOK
  <2>5. QED
    BY <2>1, <2>2, <2>3, <2>4
<1>9. ASSUME NEW t \in Awaiters, AwaitPushBegin(t)
      PROVE  AnyInv'
  <2> USE <1>9 DEF AwaitPushBegin
  <2>1. TypeOK'
    BY DEF TypeOK, PcInv, LockInv, CallInv
  <2>2. PcInv'
    BY DEF PcInv, TypeOK
  <2>3. LockInv'
    BY DEF PcInv, LockInv, TypeOK
  <2>4. CallInv'
    BY DEF PcInv, LockInv, CallInv, TypeOK
  <2>5. QED
    BY <2>1, <2>2, <2>3, <2>4
<1>10. ASSUME NEW t \in Awaiters, AwaitPushEnd(t)
      PROVE  AnyInv'
  <2> USE <1>10 DEF AwaitPushEnd
  <2>0. /\ callbacks' \in Seq(Callbacks \cup {Unwritten})
        /\ Len(callbacks') \in Nat /\ Len(callbacks') >= Len(callbacks)
    <3> DEFINE over == [callbacks EXCEPT ![end[t] + 1] = arg[t]]
    <3>1. /\ callbacks \in Seq(Callbacks \cup {Unwritten})
          /\ arg[t] \in Callbacks /\ end[t] \in Nat /\ end[t] <= Len(callbacks)
      BY DEF TypeOK, CallInv
    <3>2. CASE callbacks' = Append(callbacks, arg[t])
      BY <3>1, <3>2, AppendProperties
    <3>3. CASE end[t] # Len(callbacks)
      <4>1. /\ over \in Seq(Callbacks \cup {Unwritten})
            /\ Len(over) = Len(callbacks)
        BY <3>1, <3>3, ExceptSeq
      <4>2. /\ Append(over, Unwritten) \in Seq(Callbacks \cup {Unwritten})
            /\ Len(Append(over, Unwritten)) = Len(over) + 1
        BY <4>1, AppendProperties
      <4>3. callbacks' = over \/ callbacks' = Append(over, Unwritten)
        BY <3>1, <3>3 DEF Pushed
      <4> HIDE DEF over, AwaitPushEnd
      <4>4. QED
        BY <3>1, <4>1, <4>2, <4>3, LenProperties
    <3>4. QED
      BY <3>2, <3>3 DEF Pushed
  <2>1. TypeOK'
    BY <2>0 DEF TypeOK, PcInv, LockInv, CallInv
  <2>2. PcInv'
    BY DEF PcInv, TypeOK
  <2>3. LockInv'
    BY DEF PcInv, LockInv, TypeOK
  <2>4. CallInv'
    BY <2>0 DEF PcInv, LockInv, CallInv, TypeOK
  <2>5. QED
    BY <2>1, <2>2, <2>3, <2>4
<1>11. ASSUME NEW t \in Blockers, BlockLock(t)
      PROVE  AnyInv'
  <2> USE <1>11 DEF BlockLock
  <2>1. TypeOK'
    BY DEF TypeOK, PcInv, LockInv, CallInv
  <2>2. PcInv'
    BY DEF PcInv, TypeOK
  <2>3. LockInv'
    BY DEF PcInv, LockInv, TypeOK
  <2>4. CallInv'
    BY DEF PcInv, LockInv, CallInv, TypeOK
  <2>5. QED
    BY <2>1, <2>2, <2>3, <2>4
<1>12. ASSUME NEW t \in Blockers, BlockWait(t)
      PROVE  AnyInv'
  <2> USE <1>12 DEF BlockWait
  <2>1. TypeOK'
    BY DEF TypeOK, PcInv, LockInv, CallInv
  <2>2. PcInv'
    BY DEF PcInv, TypeOK
  <2>3. LockInv'
    BY DEF PcInv, LockInv, TypeOK
  <2>4. CallInv'
    BY DEF PcInv, LockInv, CallInv, TypeOK
  <2>5. QED
    BY <2>1, <2>2, <2>3, <2>4
<1>13. ASSUME NEW t \in Blockers, BlockSpuriousWakeup(t)
      PROVE  AnyInv'
  <2> USE <1>13 DEF BlockSpuriousWakeup
  <2>1. TypeOK'
    BY DEF TypeOK, PcInv, LockInv, CallInv
  <2>2. PcInv'
    BY DEF PcInv, TypeOK
  <2>3. LockInv'
    BY DEF PcInv, LockInv, TypeOK
  <2>4. CallInv'
    BY DEF PcInv, LockInv, CallInv, TypeOK
  <2>5. QED
    BY <2>1, <2>2, <2>3, <2>4
<1>14. ASSUME NEW t \in Blockers, BlockRelock(t)
      PROVE  AnyInv'
  <2> USE <1>14 DEF BlockRelock
  <2>1. TypeOK'
    BY DEF TypeOK, PcInv, LockInv, CallInv
  <2>2. PcInv'
    BY DEF PcInv, TypeOK
  <2>3. LockInv'
    BY DEF PcInv, LockInv, TypeOK
  <2>4. CallInv'
    BY DEF PcInv, LockInv, CallInv, TypeOK
  <2>5. QED
    BY <2>1, <2>2, <2>3, <2>4
<1>15. ASSUME NEW t \in Blockers, BlockThrow(t)
      PROVE  AnyInv'
  <2> USE <1>15 DEF BlockThrow
  <2>1. TypeOK'
    BY DEF TypeOK, PcInv, LockInv, CallInv
  <2>2. PcInv'
    BY DEF PcInv, TypeOK
  <2>3. LockInv'
    BY DEF PcInv, LockInv, TypeOK
  <2>4. CallInv'
    BY DEF PcInv, LockInv, CallInv, TypeOK
  <2>5. QED
    BY <2>1, <2>2, <2>3, <2>4
<1>16. ASSUME NEW t \in Blockers, BlockInner(t)
      PROVE  AnyInv'
  <2> USE <1>16 DEF BlockInner, InnerBlock
  <2>0. /\ pc' = [pc EXCEPT ![t] = "returned"] /\ t \in Threads
        /\ pc \in [Threads -> TrackPc \cup AwaitPc \cup BlockPc]
        /\ got'[t] \in Results /\ \A u \in Blockers \ {t} : got'[u] = got[u]
    BY DEF TypeOK, CallInv
  <2>1. TypeOK'
    BY <2>0 DEF TypeOK
  <2>2. PcInv'
    BY <2>0 DEF PcInv
  <2>3. LockInv'
    BY DEF PcInv, LockInv, TypeOK
  <2>4. CallInv'
    BY DEF PcInv, LockInv, CallInv, TypeOK
  <2>5. QED
    BY <2>1, <2>2, <2>3, <2>4
<1>17. ASSUME NEW k \in Cells, NEW r \in Results, ResolveCell(k, r)
      PROVE  AnyInv'
  <2> USE <1>17 DEF ResolveCell
  <2>1. TypeOK'
    BY DEF TypeOK, PcInv, LockInv, CallInv
  <2>2. PcInv'
    BY DEF PcInv, TypeOK
  <2>3. LockInv'
    BY DEF PcInv, LockInv, TypeOK
  <2>4. CallInv'
    BY DEF PcInv, LockInv, CallInv, TypeOK
  <2>5. QED
    BY <2>1, <2>2, <2>3, <2>4
<1>18. ASSUME NEW k \in Cells, NEW c \in Callbacks, HandOver(k, c)
      PROVE  AnyInv'
  <2> USE <1>18 DEF HandOver
  <2>0. jobs' \in Seq(Job_)
    <3>1. Job(c, result[k]) \in Job_ /\ jobs \in Seq(Job_)
      BY DEF TypeOK, Job, Job_
    <3>2. QED
      BY <3>1, AppendProperties
  <2>1. TypeOK'
    BY <2>0 DEF TypeOK, PcInv, LockInv, CallInv, Job_
  <2>2. PcInv'
    BY DEF PcInv, TypeOK
  <2>3. LockInv'
    BY DEF PcInv, LockInv, TypeOK
  <2>4. CallInv'
    BY DEF PcInv, LockInv, CallInv, TypeOK
  <2>5. QED
    BY <2>1, <2>2, <2>3, <2>4
<1>19. CASE UNCHANGED vars
  BY <1>19 DEF vars, TypeOK, PcInv, LockInv, CallInv
<1>20. QED
  BY <1>a, <1>b, <1>c, <1>1, <1>2, <1>3, <1>4, <1>5, <1>6, <1>7, <1>8, <1>9, <1>10,
     <1>11, <1>12, <1>13, <1>14, <1>15, <1>16, <1>17, <1>18, <1>19
     DEF Next, Track, Await, Block, AtRest

\* AnyInv holds in every reachable state.
LEMMA AnyInvariant == Safety => []AnyInv
BY InitAny, StepAny, PTL DEF Safety

\* The state of the cell keeps its type, whatever calls of track(), await() and
\* block() overlap and whenever the tracked cell is resolved.
THEOREM TypeCorrect == Safety => []TypeOK
BY AnyInvariant, PTL DEF AnyInv

-----------------------------------------------------------------------------
(* Uses of the cell in which calls of await() do not overlap.              *)

SerialAwaits == \A s, t \in Awaiters : s = t

Queued(c) == \E i \in DOMAIN jobs : jobs[i].callback = c

\* The callback is with a cell that is or may be tracked.
Inside(c) == \E k \in Cells : c \in pending[k]

\* The callbacks in the vector are distinct and registered, and those that the
\* loop of track() has still to reach are nowhere else.
VectorInv ==
  /\ \A i \in DOMAIN callbacks : callbacks[i] \in registered
  /\ \A i, j \in DOMAIN callbacks : callbacks[i] = callbacks[j] => i = j
  /\ \A i \in cursor .. Len(callbacks) : ~Queued(callbacks[i]) /\ ~Inside(callbacks[i])

\* Only the tracked cell has callbacks, none of which is queued.
PendingInv ==
  \A k \in Cells : \A c \in pending[k] : k = cell /\ c \in registered /\ ~Queued(c)

\* A callback in the hands of await() is nowhere else, and the end that await()
\* read is still the end of the vector.
InFlightInv ==
  \A t \in Awaiters : pc[t] # "idle" =>
    /\ arg[t] \in registered /\ ~Queued(arg[t]) /\ ~Inside(arg[t])
    /\ \A i \in DOMAIN callbacks : callbacks[i] # arg[t]
    /\ pc[t] = "push" => end[t] = Len(callbacks)

\* Only registered callbacks are queued.
JobsInv == \A i \in DOMAIN jobs : jobs[i].callback \in registered

SerialInv == VectorInv /\ PendingInv /\ InFlightInv /\ JobsInv

\* SerialInv holds of a new TrackingOnceCell.
LEMMA InitSerial == Init => SerialInv
BY DEF Init, SerialInv, VectorInv, PendingInv, InFlightInv, JobsInv, Queued, Inside,
       Threads

\* What appending a job does to the callbacks that are queued.
LEMMA AppendJob ==
  ASSUME TypeOK, NEW c \in Callbacks \cup {Unwritten}, NEW r \in Results,
         jobs' = Append(jobs, Job(c, r))
  PROVE  /\ \A d : Queued(d)' <=> Queued(d) \/ d = c
         /\ JobsInv /\ c \in registered /\ registered' = registered => JobsInv'
<1>1. Job(c, r) \in Job_
  BY DEF Job, Job_
<1>2. jobs \in Seq(Job_)
  BY DEF TypeOK, Job_
<1>3. /\ DOMAIN jobs = 1 .. Len(jobs) /\ DOMAIN jobs' = 1 .. Len(jobs) + 1
      /\ Len(jobs) \in Nat
      /\ \A i \in 1 .. Len(jobs) : jobs'[i] = jobs[i]
      /\ jobs'[Len(jobs) + 1].callback = c
  BY <1>1, <1>2, AppendProperties, LenProperties DEF Job
<1>4. \A d : Queued(d)' <=> Queued(d) \/ d = c
  BY <1>3 DEF Queued
<1>5. QED
  BY <1>3, <1>4 DEF JobsInv

\* await() on a cell puts the callback into it, or into the jobs if the cell is
\* resolved, and moves no other.
LEMMA InnerAwaitMoves ==
  ASSUME TypeOK, NEW k \in Cells, NEW c \in Callbacks \cup {Unwritten}, InnerAwait(k, c)
  PROVE  /\ \/ /\ result[k] = Nothing
               /\ \A d : Queued(d)' <=> Queued(d)
               /\ \A i \in Cells : pending'[i] = IF i = k THEN pending[i] \cup {c} ELSE pending[i]
               /\ jobs' = jobs
            \/ /\ result[k] # Nothing
               /\ \A d : Queued(d)' <=> Queued(d) \/ d = c
               /\ pending' = pending
               /\ jobs' = Append(jobs, Job(c, result[k]))
         /\ JobsInv /\ c \in registered /\ registered' = registered => JobsInv'
<1>1. CASE result[k] = Nothing
  BY <1>1 DEF InnerAwait, TypeOK, Queued, JobsInv
<1>2. CASE result[k] # Nothing
  <2>1. PICK r \in Results : r = result[k]
    BY <1>2 DEF TypeOK
  <2>2. jobs' = Append(jobs, Job(c, r)) /\ pending' = pending
    BY <1>2, <2>1 DEF InnerAwait
  <2>3. /\ \A d : Queued(d)' <=> Queued(d) \/ d = c
        /\ JobsInv /\ c \in registered /\ registered' = registered => JobsInv'
    BY <2>2, AppendJob
  <2>4. QED
    BY <1>2, <2>1, <2>2, <2>3
<1>3. QED
  BY <1>1, <1>2

\* await() on the tracked cell keeps a callback that was nowhere else in one place.
LEMMA InnerAwaitSerial ==
  ASSUME TypeOK, PendingInv, JobsInv, cell \in Cells, NEW c \in Callbacks \cup {Unwritten},
         c \in registered, ~Queued(c), ~Inside(c), InnerAwait(cell, c),
         cell' = cell, registered' = registered
  PROVE  /\ \A d : Queued(d)' => Queued(d) \/ d = c
         /\ \A d : Inside(d)' => Inside(d) \/ d = c
         /\ PendingInv' /\ JobsInv'
<1>0. JobsInv'
  BY InnerAwaitMoves
<1>1. CASE result[cell] = Nothing
  <2>1. /\ \A d : Queued(d)' <=> Queued(d)
        /\ \A i \in Cells : pending'[i] = IF i = cell THEN pending[i] \cup {c} ELSE pending[i]
    BY <1>1, InnerAwaitMoves
  <2>2. PendingInv'
    <3>1. ASSUME NEW i \in Cells, NEW d \in pending'[i]
          PROVE  i = cell' /\ d \in registered' /\ ~Queued(d)'
      <4>1. CASE d \in pending[i]
        BY <2>1, <4>1 DEF PendingInv
      <4>2. CASE i = cell /\ d = c
        BY <2>1, <4>2
      <4>3. QED
        BY <2>1, <4>1, <4>2
    <3>2. QED
      BY <3>1 DEF PendingInv, Queued
  <2>3. \A d : Inside(d)' => Inside(d) \/ d = c
    BY <2>1 DEF Inside
  <2>4. QED
    BY <1>0, <2>1, <2>2, <2>3
<1>2. CASE result[cell] # Nothing
  <2>1. /\ \A d : Queued(d)' <=> Queued(d) \/ d = c
        /\ pending' = pending
    BY <1>2, InnerAwaitMoves
  <2>2. PendingInv'
    BY <2>1 DEF PendingInv, Inside
  <2>3. QED
    BY <1>0, <2>1, <2>2 DEF Inside
<1>3. QED
  BY <1>1, <1>2

\* A step that moves no callback preserves SerialInv.
LEMMA SerialFrame ==
  ASSUME SerialInv, UNCHANGED <<cell, callbacks, cursor, registered, pending, jobs>>,
         \A t \in Awaiters : pc'[t] = pc[t] /\ arg'[t] = arg[t] /\ end'[t] = end[t]
  PROVE  SerialInv'
<1>1. VectorInv'
  BY DEF SerialInv, VectorInv, Queued, Inside
<1>2. PendingInv'
  BY DEF SerialInv, PendingInv, Queued
<1>3. InFlightInv'
  BY DEF SerialInv, InFlightInv, Queued, Inside
<1>4. JobsInv'
  BY DEF SerialInv, JobsInv
<1>5. QED
  BY <1>1, <1>2, <1>3, <1>4 DEF SerialInv

\* With one awaiting thread, every step preserves SerialInv.
LEMMA StepSerial ==
  ASSUME SerialAwaits, AnyInv, SerialInv, [Next]_vars
  PROVE  SerialInv'
<1> USE TrackingAssumption DEF AnyInv, Threads, Move, outer, mutex, local, inner
<1>1. ASSUME NEW t \in Trackers, \/ \E k \in Cells : TrackCall(t, k)
                                \/ TrackLock(t) \/ TrackRejected(t) \/ TrackNotify(t)
      PROVE  SerialInv'
  <2>1. \A a \in Awaiters : pc'[a] = pc[a] /\ arg'[a] = arg[a] /\ end'[a] = end[a]
    BY <1>1 DEF TrackCall, TrackLock, TrackRejected, TrackNotify, Woken, TypeOK, PcInv,
                AwaitPc
  <2>2. QED
    BY <1>1, <2>1, SerialFrame DEF TrackCall, TrackLock, TrackRejected, TrackNotify
<1>2. ASSUME NEW t \in Blockers, BlockCall(t) \/ Block(t) \/ BlockSpuriousWakeup(t)
      PROVE  SerialInv'
  <2> USE <1>2 DEF BlockCall, Block, BlockLock, BlockWait, BlockRelock, BlockThrow, BlockInner,
                   BlockSpuriousWakeup
  <2>1. \A a \in Awaiters : pc'[a] = pc[a] /\ arg'[a] = arg[a] /\ end'[a] = end[a]
    BY DEF TypeOK
  <2>2. QED
    BY <2>1, SerialFrame
<1>3. ASSUME NEW k \in Cells, NEW r \in Results, ResolveCell(k, r)
      PROVE  SerialInv'
  BY <1>3, SerialFrame DEF ResolveCell
<1>4. ASSUME NEW t \in Trackers, TrackFill(t)
      PROVE  SerialInv'
  <2> USE <1>4 DEF TrackFill
  <2>1. \A k \in Cells : pending[k] = {}
    BY DEF SerialInv, PendingInv
  <2>2. \A a \in Awaiters : pc'[a] = pc[a]
    BY DEF TypeOK
  <2>3. VectorInv'
    BY DEF SerialInv, VectorInv, Queued, Inside
  <2>4. PendingInv'
    BY <2>1 DEF PendingInv
  <2>5. InFlightInv'
    BY <2>2 DEF SerialInv, InFlightInv, Queued, Inside
  <2>6. JobsInv'
    BY DEF SerialInv, JobsInv
  <2>7. QED
    BY <2>3, <2>4, <2>5, <2>6 DEF SerialInv
<1>5. ASSUME NEW t \in Trackers, TrackPass(t)
      PROVE  SerialInv'
  <2> DEFINE c == callbacks[cursor]
  <2>1. /\ c \in Callbacks \cup {Unwritten} /\ cell \in Cells
        /\ cursor \in Nat \ {0} /\ Len(callbacks) \in Nat /\ cursor <= Len(callbacks)
        /\ DOMAIN callbacks = 1 .. Len(callbacks)
    BY <1>5, ElementOfSeq, LenProperties DEF TrackPass, TypeOK, CallInv
  <2>2. c \in registered /\ ~Queued(c) /\ ~Inside(c)
    BY <2>1 DEF SerialInv, VectorInv
  <2>3. \A i \in cursor + 1 .. Len(callbacks) : callbacks[i] # c
    BY <2>1 DEF SerialInv, VectorInv
  <2>4. \A a \in Awaiters :
          pc'[a] = pc[a] /\ arg'[a] = arg[a] /\ pc[a] \in {"idle", "lock"}
    BY <1>5 DEF TrackPass, TypeOK, PcInv, AwaitPc, LockInv
  <2>5. /\ InnerAwait(cell, c) /\ cursor' = cursor + 1
        /\ cell' = cell /\ callbacks' = callbacks /\ registered' = registered
    BY <1>5 DEF TrackPass
  <2> HIDE DEF c
  <2>6. /\ \A d : Queued(d)' => Queued(d) \/ d = c
        /\ \A d : Inside(d)' => Inside(d) \/ d = c
        /\ PendingInv' /\ JobsInv'
    BY <2>1, <2>2, <2>5, InnerAwaitSerial DEF SerialInv
  <2>7. VectorInv'
    <3>1. ASSUME NEW i \in cursor + 1 .. Len(callbacks)
          PROVE  ~Queued(callbacks[i])' /\ ~Inside(callbacks[i])'
      <4>1. callbacks[i] # c /\ ~Queued(callbacks[i]) /\ ~Inside(callbacks[i])
        BY <2>1, <2>3 DEF SerialInv, VectorInv
      <4>2. QED
        BY <4>1, <2>5, <2>6 DEF Queued, Inside
    <3>2. QED
      BY <3>1, <2>1, <2>5 DEF SerialInv, VectorInv
  <2>8. InFlightInv'
    <3>1. ASSUME NEW a \in Awaiters, pc[a] # "idle"
          PROVE  ~Queued(arg[a])' /\ ~Inside(arg[a])'
      <4>1. arg[a] # c /\ ~Queued(arg[a]) /\ ~Inside(arg[a])
        BY <2>1, <3>1 DEF SerialInv, InFlightInv, c
      <4>2. QED
        BY <4>1, <2>4, <2>6 DEF Queued, Inside
    <3>2. QED
      BY <3>1, <2>4, <2>5 DEF SerialInv, InFlightInv
  <2>9. QED
    BY <2>6, <2>7, <2>8 DEF SerialInv
<1>6. ASSUME NEW t \in Trackers, TrackUnlock(t)
      PROVE  SerialInv'
  <2> USE <1>6 DEF TrackUnlock
  <2>1. \A a \in Awaiters : pc'[a] = pc[a] /\ pc[a] \in {"idle", "lock"}
    BY DEF TypeOK, PcInv, AwaitPc, LockInv
  <2>2. VectorInv'
    BY DEF VectorInv
  <2>3. PendingInv'
    BY DEF SerialInv, PendingInv, Queued
  <2>4. InFlightInv'
    BY <2>1 DEF SerialInv, InFlightInv, Queued, Inside
  <2>5. JobsInv'
    BY DEF SerialInv, JobsInv
  <2>6. QED
    BY <2>2, <2>3, <2>4, <2>5 DEF SerialInv
<1>7. ASSUME NEW t \in Awaiters, NEW c \in Callbacks, AwaitCall(t, c)
      PROVE  SerialInv'
  <2> USE <1>7 DEF AwaitCall
  <2>1. /\ \A a \in Awaiters : a = t
        /\ arg'[t] = c /\ pc'[t] = "lock"
    BY DEF SerialAwaits, TypeOK
  <2>2. /\ ~Queued(c) /\ ~Inside(c)
        /\ \A i \in DOMAIN callbacks : callbacks[i] # c
    BY DEF SerialInv, VectorInv, PendingInv, JobsInv, Queued, Inside
  <2>3. VectorInv'
    BY DEF SerialInv, VectorInv, Queued, Inside
  <2>4. PendingInv'
    BY DEF SerialInv, PendingInv, Queued
  <2>5. InFlightInv'
    BY <2>1, <2>2 DEF InFlightInv, Queued, Inside
  <2>6. JobsInv'
    BY DEF SerialInv, JobsInv
  <2>7. QED
    BY <2>3, <2>4, <2>5, <2>6 DEF SerialInv
<1>a. ASSUME NEW t \in Awaiters, AwaitLock(t)
      PROVE  SerialInv'
  <2> USE <1>a DEF AwaitLock
  <2>1. VectorInv'
    BY DEF SerialInv, VectorInv, Queued, Inside
  <2>2. PendingInv'
    BY DEF SerialInv, PendingInv, Queued
  <2>3. InFlightInv'
    BY DEF SerialInv, InFlightInv, TypeOK, Queued, Inside
  <2>4. JobsInv'
    BY DEF SerialInv, JobsInv
  <2>5. QED
    BY <2>1, <2>2, <2>3, <2>4 DEF SerialInv
<1>8. ASSUME NEW t \in Awaiters, AwaitInner(t)
      PROVE  SerialInv'
  <2> DEFINE c == arg[t]
  <2>1. /\ \A a \in Awaiters : a = t
        /\ c \in Callbacks \cup {Unwritten} /\ cell \in Cells
        /\ c \in registered /\ ~Queued(c) /\ ~Inside(c)
        /\ \A i \in DOMAIN callbacks : callbacks[i] # c
        /\ pc'[t] = "idle"
    BY <1>8 DEF AwaitInner, SerialAwaits, SerialInv, InFlightInv, TypeOK, CallInv
  <2>2. /\ InnerAwait(cell, c)
        /\ UNCHANGED <<cell, callbacks, cursor, registered>>
    BY <1>8 DEF AwaitInner
  <2>3. cursor .. Len(callbacks) \subseteq DOMAIN callbacks
    BY LenProperties DEF TypeOK
  <2> HIDE DEF c
  <2>4. /\ \A d : Queued(d)' => Queued(d) \/ d = c
        /\ \A d : Inside(d)' => Inside(d) \/ d = c
        /\ PendingInv' /\ JobsInv'
    BY <2>1, <2>2, InnerAwaitSerial DEF SerialInv
  <2>5. VectorInv'
    <3>1. ASSUME NEW i \in cursor .. Len(callbacks)
          PROVE  ~Queued(callbacks[i])' /\ ~Inside(callbacks[i])'
      <4>1. callbacks[i] # c /\ ~Queued(callbacks[i]) /\ ~Inside(callbacks[i])
        BY <2>1, <2>3 DEF SerialInv, VectorInv
      <4>2. QED
        BY <4>1, <2>2, <2>4 DEF Queued, Inside
    <3>2. QED
      BY <3>1, <2>2 DEF SerialInv, VectorInv
  <2>6. InFlightInv'
    BY <2>1 DEF InFlightInv
  <2>7. QED
    BY <2>4, <2>5, <2>6 DEF SerialInv
<1>9. ASSUME NEW t \in Awaiters, AwaitPushBegin(t)
      PROVE  SerialInv'
  <2> USE <1>9 DEF AwaitPushBegin
  <2>1. VectorInv'
    BY DEF SerialInv, VectorInv, Queued, Inside
  <2>2. PendingInv'
    BY DEF SerialInv, PendingInv, Queued
  <2>3. InFlightInv'
    BY DEF SerialInv, InFlightInv, TypeOK, Queued, Inside
  <2>4. JobsInv'
    BY DEF SerialInv, JobsInv
  <2>5. QED
    BY <2>1, <2>2, <2>3, <2>4 DEF SerialInv
<1>10. ASSUME NEW t \in Awaiters, AwaitPushEnd(t)
      PROVE  SerialInv'
  <2> DEFINE c == arg[t]
  <2>1. /\ \A a \in Awaiters : a = t
        /\ c \in Callbacks /\ c \in registered /\ ~Queued(c) /\ ~Inside(c)
        /\ \A i \in DOMAIN callbacks : callbacks[i] # c
        /\ end[t] = Len(callbacks) /\ pc'[t] = "idle"
    BY <1>10 DEF AwaitPushEnd, SerialAwaits, SerialInv, InFlightInv, TypeOK, CallInv
  <2>2. /\ callbacks' = Append(callbacks, c)
        /\ UNCHANGED <<cell, cursor, registered, pending, jobs>>
    BY <1>10, <2>1 DEF AwaitPushEnd, Pushed
  <2> HIDE DEF c
  <2>3. /\ Len(callbacks) \in Nat
        /\ DOMAIN callbacks = 1 .. Len(callbacks)
        /\ DOMAIN callbacks' = 1 .. Len(callbacks) + 1 /\ Len(callbacks') = Len(callbacks) + 1
        /\ \A i \in 1 .. Len(callbacks) : callbacks'[i] = callbacks[i]
        /\ callbacks'[Len(callbacks) + 1] = c
        /\ cursor \in Nat \ {0}
    BY <2>1, <2>2, AppendProperties, LenProperties DEF TypeOK
  <2>4. VectorInv'
    <3>1. \A i \in DOMAIN callbacks' : callbacks'[i] \in registered'
      BY <2>1, <2>2, <2>3 DEF SerialInv, VectorInv
    <3>2. \A i, j \in DOMAIN callbacks' : callbacks'[i] = callbacks'[j] => i = j
      BY <2>1, <2>3 DEF SerialInv, VectorInv
    <3>3. \A i \in cursor' .. Len(callbacks') :
            ~Queued(callbacks'[i]) /\ ~Inside(callbacks'[i])
      BY <2>1, <2>2, <2>3 DEF SerialInv, VectorInv
    <3>4. QED
      BY <2>2, <3>1, <3>2, <3>3 DEF VectorInv, Queued, Inside
  <2>5. PendingInv'
    BY <2>2 DEF SerialInv, PendingInv, Queued
  <2>6. InFlightInv'
    BY <2>1 DEF InFlightInv
  <2>7. JobsInv'
    BY <2>2 DEF SerialInv, JobsInv
  <2>8. QED
    BY <2>4, <2>5, <2>6, <2>7 DEF SerialInv
<1>11. ASSUME NEW k \in Cells, NEW c \in Callbacks, HandOver(k, c)
      PROVE  SerialInv'
  <2>1. PICK r \in Results : r = result[k]
    BY <1>11 DEF HandOver, TypeOK
  <2>2. /\ jobs' = Append(jobs, Job(c, r)) /\ c \in pending[k]
        /\ UNCHANGED <<cell, callbacks, cursor, registered, pc, arg, end>>
        /\ pending' = [pending EXCEPT ![k] = @ \ {c}]
    BY <1>11, <2>1 DEF HandOver
  <2>3. k = cell /\ c \in registered /\ Inside(c)
    BY <2>2 DEF SerialInv, PendingInv, Inside
  <2>4. /\ \A d : Queued(d)' <=> Queued(d) \/ d = c
        /\ JobsInv'
    BY <2>2, <2>3, AppendJob DEF SerialInv
  <2>5. /\ \A i \in Cells : pending'[i] \subseteq pending[i]
        /\ c \notin pending'[k] /\ \A i \in Cells \ {k} : pending'[i] = pending[i]
    BY <2>2 DEF TypeOK
  <2>6. \A d : Inside(d)' => Inside(d)
    BY <2>5 DEF Inside
  <2>7. VectorInv'
    <3>1. ASSUME NEW i \in cursor .. Len(callbacks)
          PROVE  ~Queued(callbacks[i])' /\ ~Inside(callbacks[i])'
      <4>1. callbacks[i] # c /\ ~Queued(callbacks[i]) /\ ~Inside(callbacks[i])
        BY <2>3 DEF SerialInv, VectorInv
      <4>2. QED
        BY <4>1, <2>2, <2>4, <2>6 DEF Queued, Inside
    <3>2. QED
      BY <3>1, <2>2 DEF SerialInv, VectorInv
  <2>8. PendingInv'
    <3>1. \A i \in Cells : \A d \in pending'[i] : d # c
      BY <2>3, <2>5 DEF SerialInv, PendingInv
    <3>2. QED
      BY <3>1, <2>2, <2>4, <2>5 DEF SerialInv, PendingInv
  <2>9. InFlightInv'
    <3>1. ASSUME NEW a \in Awaiters, pc[a] # "idle"
          PROVE  ~Queued(arg[a])' /\ ~Inside(arg[a])'
      <4>1. arg[a] # c /\ ~Queued(arg[a]) /\ ~Inside(arg[a])
        BY <3>1, <2>3 DEF SerialInv, InFlightInv
      <4>2. QED
        BY <4>1, <2>2, <2>4, <2>6 DEF Queued, Inside
    <3>2. QED
      BY <3>1, <2>2 DEF SerialInv, InFlightInv
  <2>10. QED
    BY <2>4, <2>7, <2>8, <2>9 DEF SerialInv
<1>12. CASE UNCHANGED vars
  BY <1>12, SerialFrame DEF vars
<1>13. QED
  BY <1>1, <1>2, <1>3, <1>4, <1>5, <1>6, <1>7, <1>a, <1>8, <1>9, <1>10, <1>11, <1>12
     DEF Next, Track, Await, AtRest

\* SerialInv holds in every reachable state of a cell with one awaiting thread.
LEMMA SerialInvariant == SerialAwaits /\ Safety => []SerialInv
<1>1. SerialAwaits /\ AnyInv /\ SerialInv /\ [Next]_vars => SerialInv'
  BY StepSerial
<1>2. ASSUME SerialAwaits PROVE Safety => []SerialInv
  <2>1. AnyInv /\ SerialInv /\ [Next]_vars => SerialInv'
    BY <1>1, <1>2
  <2>2. QED
    BY <2>1, InitSerial, AnyInvariant, PTL DEF Safety
<1>3. QED
  BY <1>2

-----------------------------------------------------------------------------
(* With one awaiting thread, TrackingOnceCell implements OnceCell.         *)

\* The callbacks that track() has still to pass on, and those that OnceCell calls
\* pending.
Held == {callbacks[i] : i \in cursor .. Len(callbacks)}

Pending == Held \cup (IF cell = Nothing THEN {} ELSE pending[cell])

\* A new TrackingOnceCell is a OnceCell without a result.
LEMMA InitRefines == Init => Cell!Init
BY DEF Init, Cell!Init, read

\* Every step of the cell, and of the cells it may track, is a step of OnceCell or
\* changes nothing it sees.
LEMMA StepRefines ==
  ASSUME SerialAwaits
  PROVE  AnyInv /\ SerialInv /\ [Next]_vars => [Cell!Next]_(Cell!vars)
<1> SUFFICES ASSUME AnyInv, SerialInv, [Next]_vars
             PROVE  [Cell!Next]_(Cell!vars)
  OBVIOUS
<1> USE TrackingAssumption DEF AnyInv, outer, mutex, local, inner
<1>a. ASSUME UNCHANGED <<read, Pending, jobs>>
      PROVE  UNCHANGED Cell!vars
  BY <1>a DEF Cell!vars, Pending, Held
<1>b. ASSUME NEW c \in Callbacks, c \notin Pending, ~Queued(c),
             Pending' = Pending \cup {c}, UNCHANGED <<read, jobs>>
      PROVE  Cell!Next
  <2>1. Cell!Register(c)
    BY <1>b DEF Cell!Register, Cell!Fresh, Cell!HandedOver, Queued, Pending, Held
  <2>2. QED
    BY <2>1 DEF Cell!Next
<1>c. ASSUME NEW c \in Callbacks, c \in Pending, read # Nothing, read' = read,
             Pending' = Pending \ {c}, jobs' = Append(jobs, Job(c, read))
      PROVE  Cell!Next
  <2>1. Cell!HandOver(c)
    BY <1>c DEF Cell!HandOver, Cell!Job, Job, Pending, Held
  <2>2. QED
    BY <2>1 DEF Cell!Next
<1>d. ASSUME NEW c \in Callbacks, c \notin Pending, ~Queued(c), read # Nothing,
             UNCHANGED <<read, Pending>>, jobs' = Append(jobs, Job(c, read))
      PROVE  Cell!Next
  <2>1. Cell!HandOverNow(c)
    BY <1>d DEF Cell!HandOverNow, Cell!Fresh, Cell!HandedOver, Cell!Job, Job, Queued,
                Pending, Held
  <2>2. QED
    BY <2>1 DEF Cell!Next
<1>e. ASSUME NEW r \in Results, read = Nothing, read' = r, UNCHANGED <<Pending, jobs>>
      PROVE  Cell!Next
  <2>1. Cell!Resolve(r)
    BY <1>e DEF Cell!Resolve, Pending, Held
  <2>2. QED
    BY <2>1 DEF Cell!Next
<1>1. ASSUME UNCHANGED <<cell, callbacks, cursor, inner>>
      PROVE  UNCHANGED Cell!vars
  BY <1>1, <1>a DEF read, Pending, Held
<1>2. ASSUME NEW t \in Trackers, TrackFill(t)
      PROVE  [Cell!Next]_(Cell!vars)
  <2>1. /\ cell = Nothing /\ cell' = arg[t] /\ arg[t] \in Cells
        /\ UNCHANGED <<callbacks, cursor, inner>>
    BY <1>2 DEF TrackFill, Move, CallInv
  <2>2. \A k \in Cells : pending[k] = {}
    BY <2>1 DEF SerialInv, PendingInv
  <2>3. Pending' = Pending /\ jobs' = jobs
    BY <2>1, <2>2 DEF Pending, Held
  <2>4. read = Nothing /\ read' = result[arg[t]]
    BY <2>1 DEF read
  <2>5. CASE result[arg[t]] = Nothing
    BY <2>3, <2>4, <2>5, <1>a
  <2>6. CASE result[arg[t]] # Nothing
    <3>1. PICK r \in Results : r = result[arg[t]]
      BY <2>1, <2>6 DEF TypeOK
    <3>2. QED
      BY <2>3, <2>4, <3>1, <1>e
  <2>7. QED
    BY <2>5, <2>6
<1>3. ASSUME NEW t \in Trackers, TrackPass(t)
      PROVE  [Cell!Next]_(Cell!vars)
  <2>1. /\ cursor \in Nat \ {0} /\ Len(callbacks) \in Nat
        /\ cursor <= Len(callbacks) /\ DOMAIN callbacks = 1 .. Len(callbacks)
        /\ cell \in Cells /\ cell # Nothing
    BY <1>3, LenProperties DEF TrackPass, TypeOK, CallInv, Move
  <2>2. PICK c \in Callbacks : c = callbacks[cursor]
    <3>1. cursor \in DOMAIN callbacks
      BY <2>1
    <3>2. QED
      BY <3>1 DEF SerialInv, VectorInv, TypeOK
  <2>3. /\ InnerAwait(cell, c) /\ cursor' = cursor + 1
        /\ UNCHANGED <<cell, callbacks, result>>
    BY <1>3, <2>2 DEF TrackPass, InnerAwait
  <2>4. ~Inside(c) /\ \A i \in cursor + 1 .. Len(callbacks) : callbacks[i] # c
    BY <2>1, <2>2 DEF SerialInv, VectorInv
  <2>5. Held' = Held \ {c} /\ c \in Held
    BY <2>1, <2>2, <2>3, <2>4 DEF Held
  <2>6. read = result[cell] /\ read' = read
    BY <2>1, <2>3 DEF read
  <2>7. CASE result[cell] = Nothing
    <3>1. pending'[cell] = pending[cell] \cup {c} /\ jobs' = jobs
      BY <2>1, <2>3, <2>7 DEF InnerAwait, TypeOK
    <3>2. Pending' = Pending
      BY <2>1, <2>3, <2>5, <3>1 DEF Pending
    <3>3. QED
      BY <2>6, <3>1, <3>2, <1>a
  <2>8. CASE result[cell] # Nothing
    <3>1. pending' = pending /\ jobs' = Append(jobs, Job(c, read))
      BY <2>3, <2>6, <2>8 DEF InnerAwait
    <3>2. Pending' = Pending \ {c} /\ c \in Pending
      BY <2>1, <2>3, <2>4, <2>5, <3>1 DEF Pending, Inside
    <3>3. QED
      BY <2>6, <2>8, <3>1, <3>2, <1>c
  <2>9. QED
    BY <2>7, <2>8
<1>4. ASSUME NEW t \in Trackers, TrackUnlock(t)
      PROVE  [Cell!Next]_(Cell!vars)
  <2>1. Held = {} /\ Held' = {}
    BY <1>4, LenProperties DEF TrackUnlock, AllPassed, TypeOK, Held
  <2>2. UNCHANGED <<cell, inner>>
    BY <1>4 DEF TrackUnlock
  <2>3. UNCHANGED <<read, Pending, jobs>>
    BY <2>1, <2>2 DEF read, Pending
  <2>4. QED
    BY <2>3, <1>a
<1>5. ASSUME NEW t \in Awaiters, AwaitInner(t)
      PROVE  [Cell!Next]_(Cell!vars)
  <2>1. PICK c \in Callbacks : c = arg[t]
    BY <1>5 DEF AwaitInner, Move, CallInv
  <2>2. /\ ~Queued(c) /\ ~Inside(c)
        /\ \A i \in DOMAIN callbacks : callbacks[i] # c
    BY <1>5, <2>1 DEF AwaitInner, Move, SerialInv, InFlightInv
  <2>3. /\ InnerAwait(cell, c) /\ cell \in Cells /\ cell # Nothing
        /\ UNCHANGED <<cell, callbacks, cursor, result>>
    BY <1>5, <2>1 DEF AwaitInner, InnerAwait, TypeOK
  <2>4. cursor .. Len(callbacks) \subseteq DOMAIN callbacks
    BY LenProperties DEF TypeOK
  <2>5. c \notin Pending /\ Held' = Held
    BY <2>2, <2>3, <2>4 DEF Pending, Held, Inside
  <2>6. read = result[cell] /\ read' = read
    BY <2>3 DEF read
  <2>7. CASE result[cell] = Nothing
    <3>1. pending'[cell] = pending[cell] \cup {c} /\ jobs' = jobs
      BY <2>3, <2>7 DEF InnerAwait, TypeOK
    <3>2. Pending' = Pending \cup {c}
      BY <2>3, <2>5, <3>1 DEF Pending
    <3>3. QED
      BY <2>2, <2>5, <2>6, <3>1, <3>2, <1>b
  <2>8. CASE result[cell] # Nothing
    <3>1. pending' = pending /\ jobs' = Append(jobs, Job(c, read))
      BY <2>3, <2>6, <2>8 DEF InnerAwait
    <3>2. Pending' = Pending
      BY <2>3, <2>5, <3>1 DEF Pending
    <3>3. QED
      BY <2>2, <2>5, <2>6, <2>8, <3>1, <3>2, <1>d
  <2>9. QED
    BY <2>7, <2>8
<1>6. ASSUME NEW t \in Awaiters, AwaitPushEnd(t)
      PROVE  [Cell!Next]_(Cell!vars)
  <2>1. PICK c \in Callbacks : c = arg[t]
    BY <1>6 DEF AwaitPushEnd, Move, CallInv
  <2>2. /\ ~Queued(c) /\ ~Inside(c)
        /\ \A i \in DOMAIN callbacks : callbacks[i] # c
        /\ end[t] = Len(callbacks) /\ cell = Nothing
    BY <1>6, <2>1 DEF AwaitPushEnd, Move, SerialInv, InFlightInv, CallInv
  <2>3. /\ callbacks' = Append(callbacks, c)
        /\ UNCHANGED <<cell, cursor, inner>>
    BY <1>6, <2>1, <2>2 DEF AwaitPushEnd, Pushed
  <2>4. /\ Len(callbacks) \in Nat /\ Len(callbacks') = Len(callbacks) + 1
        /\ DOMAIN callbacks = 1 .. Len(callbacks)
        /\ \A i \in 1 .. Len(callbacks) : callbacks'[i] = callbacks[i]
        /\ callbacks'[Len(callbacks) + 1] = c
        /\ cursor \in 1 .. Len(callbacks) + 1
    BY <2>1, <2>3, AppendProperties, LenProperties DEF TypeOK
  <2>5. c \notin Held /\ Held' = Held \cup {c}
    BY <2>2, <2>3, <2>4 DEF Held
  <2>6. c \notin Pending /\ Pending' = Pending \cup {c} /\ read' = read /\ jobs' = jobs
    BY <2>2, <2>3, <2>5 DEF Pending, read
  <2>7. QED
    BY <2>2, <2>6, <1>b
<1>7. ASSUME NEW k \in Cells, NEW r \in Results, ResolveCell(k, r)
      PROVE  [Cell!Next]_(Cell!vars)
  <2>1. Pending' = Pending /\ jobs' = jobs
    BY <1>7 DEF ResolveCell, Pending, Held
  <2>2. CASE k = cell
    <3>1. read = Nothing /\ read' = r
      BY <1>7, <2>2 DEF ResolveCell, read, TypeOK
    <3>2. QED
      BY <2>1, <3>1, <1>e
  <2>3. CASE k # cell
    <3>1. read' = read
      BY <1>7, <2>3 DEF ResolveCell, read, TypeOK
    <3>2. QED
      BY <2>1, <3>1, <1>a
  <2>4. QED
    BY <2>2, <2>3
<1>8. ASSUME NEW k \in Cells, NEW c \in Callbacks, HandOver(k, c)
      PROVE  [Cell!Next]_(Cell!vars)
  <2>1. k = cell /\ cell # Nothing /\ c \in pending[cell]
    BY <1>8 DEF HandOver, SerialInv, PendingInv
  <2>2. /\ read = result[cell] /\ read # Nothing /\ read' = read
        /\ jobs' = Append(jobs, Job(c, read))
        /\ pending'[cell] = pending[cell] \ {c} /\ Held' = Held /\ cell' = cell
    BY <1>8, <2>1 DEF HandOver, read, TypeOK, Held
  <2>3. c \notin Held
    BY <2>1 DEF SerialInv, VectorInv, Held, Inside
  <2>4. Pending' = Pending \ {c} /\ c \in Pending
    BY <2>1, <2>2, <2>3 DEF Pending
  <2>5. QED
    BY <2>2, <2>4, <1>c
<1>9. QED
  BY <1>1, <1>2, <1>3, <1>4, <1>5, <1>6, <1>7, <1>8
     DEF Next, Track, Await, Block, AtRest, vars, TrackCall, TrackLock, TrackRejected,
         TrackNotify, AwaitCall, AwaitLock, AwaitPushBegin, BlockCall, BlockLock,
         BlockWait, BlockSpuriousWakeup,
         BlockRelock, BlockThrow, BlockInner

\* What those who await a bind() rely on: however track() races with await() and
\* with the resolution of the cell it is given, the cell resolves once, and hands
\* each callback to the scheduler at most once and with the result of that cell.
THEOREM RefinesOnceCell == SerialAwaits /\ Safety => Cell!Safety
<1>1. ASSUME SerialAwaits PROVE Safety => Cell!Safety
  <2>1. AnyInv /\ SerialInv /\ [Next]_vars => [Cell!Next]_(Cell!vars)
    BY <1>1, StepRefines
  <2>2. SerialAwaits
    BY <1>1
  <2>3. QED
    BY <2>1, <2>2, InitRefines, AnyInvariant, SerialInvariant, PTL DEF Safety, Cell!Safety
<1>2. QED
  BY <1>1
=============================================================================
