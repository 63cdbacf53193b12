--------------------------- MODULE JobQueueProofs ---------------------------
(***************************************************************************)
(* What JobQueue guarantees for any threads, any jobs and any initial size: *)
(* its invariants, and that it implements FifoQueue.  The arithmetic of the *)
(* ring is in the first lemmas; after them every index is linear.          *)
(***************************************************************************)
EXTENDS JobQueue, SequenceTheorems, TLAPS

\* e % c for the indices the code computes, which are less than twice c.
Wrap(e, c) == IF e < c THEN e ELSE e - c

\* What head and tail say of the number of occupied slots.
Distance(h, t, c) == IF h <= t THEN t - h ELSE t + c - h

\* Indices wrap around at most once: what % does to them.
LEMMA WrapsOnce ==
  ASSUME NEW c \in Nat \ {0}, NEW e \in 0 .. 2 * c - 1
  PROVE  e % c = Wrap(e, c)
  <1>1. CASE e < c
    BY <1>1 DEF Wrap
  <1>2. CASE e >= c
    BY <1>2 DEF Wrap
  <1>3. QED
    BY <1>1, <1>2

\* The distance from one index to another, around the ring.
LEMMA DistanceAround ==
  ASSUME NEW c \in Nat \ {0}, NEW h \in 0 .. c - 1, NEW t \in 0 .. c - 1
  PROVE  /\ (t + c - h) % c = Distance(h, t, c)
         /\ Distance(h, t, c) \in 0 .. c - 1
  <1>1. t + c - h \in 0 .. 2 * c - 1
    OBVIOUS
  <1>2. (t + c - h) % c = Wrap(t + c - h, c)
    BY <1>1, WrapsOnce
  <1>3. QED
    BY <1>2 DEF Wrap, Distance

\* The queue is full when a single slot is left, which is tail.
LEMMA FullSlots ==
  ASSUME NEW c \in Nat \ {0}, NEW h \in 0 .. c - 1, NEW t \in 0 .. c - 1
  PROVE  /\ (t + 1) % c = h <=> Distance(h, t, c) = c - 1
         /\ (t + 1) % c = Wrap(t + 1, c)
  <1>1. t + 1 \in 0 .. 2 * c - 1
    OBVIOUS
  <1>2. QED
    BY <1>1, WrapsOnce DEF Wrap, Distance

\* Whoever is inside enqueue() or dequeue() holds the lock, nobody else does; a
\* vector that has just grown is not full, and a job stored is in a slot.
LockInv ==
  \A t \in Threads :
    /\ pc[t] \in {"resized", "count", "uncount"} <=> holder = t
    /\ pc[t] = "resized" => ~Full
    /\ pc[t] = "count" => Occupancy >= 1

IInv == TypeOK /\ LockInv /\ SizeCountsJobs /\ SlotsHoldJobs

\* The slot of the k-th job in the queue, from 0.
Slot(k) == (head + k) % capacity

\* Occupancy, Full and the indices without %.
RingFacts ==
  /\ Occupancy = Distance(head, tail, capacity)
  /\ Occupancy \in 0 .. capacity - 1
  /\ Full <=> Occupancy = capacity - 1
  /\ (tail + 1) % capacity = Wrap(tail + 1, capacity)
  /\ \A k \in 0 .. capacity : Slot(k) = Wrap(head + k, capacity)

\* The arithmetic of head, tail and is_full() wraps around at most once.
LEMMA Ring == TypeOK => RingFacts
  <1> SUFFICES ASSUME TypeOK PROVE RingFacts
    OBVIOUS
  <1> USE DEF TypeOK
  <1>1. /\ Occupancy = Distance(head, tail, capacity)
        /\ Occupancy \in 0 .. capacity - 1
    BY DistanceAround DEF Occupancy
  <1>2. /\ Full <=> Occupancy = capacity - 1
        /\ (tail + 1) % capacity = Wrap(tail + 1, capacity)
    BY <1>1, FullSlots DEF Full
  <1>3. \A k \in 0 .. capacity : Slot(k) = Wrap(head + k, capacity)
    <2>1. TAKE k \in 0 .. capacity
    <2>2. head + k \in 0 .. 2 * capacity - 1
      OBVIOUS
    <2>3. QED
      BY <2>2, WrapsOnce DEF Slot
  <1>4. QED
    BY <1>1, <1>2, <1>3 DEF RingFacts

\* The same after a step.
LEMMA RingNext == TypeOK' => RingFacts'
  BY Ring, PTL

\* SlotsHoldJobs without %.
SlotFacts ==
  \A i \in 0 .. capacity - 1 :
    queue[i] # NoJob <=> Distance(head, i, capacity) < Distance(head, tail, capacity)

\* SlotsHoldJobs may be read without %.
LEMMA Slots == TypeOK => (SlotsHoldJobs <=> SlotFacts)
  <1> SUFFICES ASSUME TypeOK PROVE SlotsHoldJobs <=> SlotFacts
    OBVIOUS
  <1>1. \A i \in 0 .. capacity - 1 :
          (i + capacity - head) % capacity = Distance(head, i, capacity)
    BY DistanceAround DEF TypeOK
  <1>2. QED
    BY <1>1, Ring DEF SlotsHoldJobs, SlotFacts, RingFacts

\* The same after a step.
LEMMA SlotsNext == TypeOK' => (SlotsHoldJobs' <=> SlotFacts')
  BY Slots, PTL

\* SizeCountsJobs, a conjunct for each case.
SizeFacts ==
  /\ \A t \in Threads : pc[t] = "count" => current_size = Occupancy - 1
  /\ \A t \in Threads : pc[t] = "uncount" => current_size = Occupancy + 1
  /\ (\A t \in Threads : pc[t] \notin {"count", "uncount"}) => current_size = Occupancy

\* SizeCountsJobs may be read case by case: one thread at most holds the lock.
LEMMA Size == LockInv => (SizeCountsJobs <=> SizeFacts)
  <1> SUFFICES ASSUME LockInv PROVE SizeCountsJobs <=> SizeFacts
    OBVIOUS
  <1>1. CASE \E t \in Threads : pc[t] = "count"
    <2>1. \A t \in Threads : pc[t] # "uncount"
      BY <1>1 DEF LockInv
    <2>2. QED
      BY <1>1, <2>1 DEF SizeCountsJobs, SizeFacts
  <1>2. CASE \E t \in Threads : pc[t] = "uncount"
    <2>1. \A t \in Threads : pc[t] # "count"
      BY <1>2 DEF LockInv
    <2>2. QED
      BY <1>2, <2>1 DEF SizeCountsJobs, SizeFacts
  <1>3. CASE \A t \in Threads : pc[t] \notin {"count", "uncount"}
    BY <1>3 DEF SizeCountsJobs, SizeFacts
  <1>4. QED
    BY <1>1, <1>2, <1>3

\* The same after a step.
LEMMA SizeNext == LockInv' => (SizeCountsJobs' <=> SizeFacts')
  BY Size, PTL

-----------------------------------------------------------------------------
(* The steps that move jobs.                                               *)

\* resize() keeps the jobs in their order, and the queue is not full any more.
LEMMA ResizeStep ==
  ASSUME IInv, NEW t \in Threads, Resize(t)
  PROVE  /\ IInv'
         /\ Occupancy' = Occupancy
         /\ \A k \in 0 .. Occupancy - 1 :
              queue'[Slot(k)'] = queue[Slot(k)]
  <1> USE DEF IInv
  <1>0. /\ capacity \in Nat \ {0} /\ head \in 0 .. capacity - 1 /\ tail \in 0 .. capacity - 1
        /\ Full /\ Occupancy = capacity - 1
        /\ Distance(head, tail, capacity) = capacity - 1
        /\ queue \in [0 .. capacity - 1 -> Jobs \cup {NoJob}]
    BY Ring DEF Resize, TypeOK, RingFacts
  <1>1. \A e \in head .. head + Occupancy - 1 :
          e % capacity = Wrap(e, capacity) /\ e % (2 * capacity) = e
    <2>1. TAKE e \in head .. head + Occupancy - 1
    <2>2. e \in 0 .. 2 * capacity - 1 /\ e \in 0 .. 2 * (2 * capacity) - 1
          /\ 2 * capacity \in Nat \ {0} /\ e < 2 * capacity
      BY <1>0
    <2>3. e % capacity = Wrap(e, capacity)
      BY <1>0, <2>2, WrapsOnce
    <2>4. e % (2 * capacity) = Wrap(e, 2 * capacity)
      BY <2>2, WrapsOnce
    <2>5. QED
      BY <2>2, <2>3, <2>4 DEF Wrap
  <1>2. Moved = capacity .. head + Occupancy - 1
    <2>1. \A e \in head .. head + Occupancy - 1 :
            e % capacity # e % (2 * capacity) <=> e >= capacity
      <3>1. TAKE e \in head .. head + Occupancy - 1
      <3>0. e \in Nat
        BY <1>0
      <3>2. e % capacity = Wrap(e, capacity) /\ e % (2 * capacity) = e
        BY <1>1
      <3>3. Wrap(e, capacity) # e <=> e >= capacity
        BY <1>0, <3>0 DEF Wrap
      <3>4. QED
        BY <3>2, <3>3
    <2>2. Moved = {e \in head .. head + Occupancy - 1 : e >= capacity}
      BY <2>1 DEF Moved
    <2>3. QED
      BY <1>0, <2>2
  <1>3. /\ capacity' = 2 * capacity /\ head' = head
        /\ tail' = head + capacity - 1
    <2>1. /\ head + Occupancy = head + capacity - 1
          /\ head + capacity - 1 \in 0 .. 2 * (2 * capacity) - 1
          /\ head + capacity - 1 < 2 * capacity
          /\ 2 * capacity \in Nat \ {0}
      BY <1>0
    <2>2. (head + Occupancy) % (2 * capacity) = head + capacity - 1
      BY <2>1, WrapsOnce DEF Wrap
    <2>3. QED
      BY <2>2 DEF Resize
  <1>4. queue' = [i \in 0 .. 2 * capacity - 1 |->
                    IF i \in capacity .. head + capacity - 2 THEN queue[i - capacity]
                    ELSE IF i < capacity /\ i + capacity > head + capacity - 2
                         THEN queue[i] ELSE NoJob]
    <2>1. \A i \in Moved : i % capacity = i - capacity
      <3>1. TAKE i \in Moved
      <3>2. i \in head .. head + Occupancy - 1 /\ i >= capacity /\ i \in Nat
        BY <1>0, <1>2
      <3>3. i % capacity = Wrap(i, capacity)
        BY <1>1, <3>2
      <3>4. QED
        BY <1>0, <3>2, <3>3 DEF Wrap
    <2>2. \A i \in 0 .. 2 * capacity - 1 :
            /\ i \in Moved <=> i \in capacity .. head + capacity - 2
            /\ i < capacity =>
                 (i + capacity \notin Moved <=> i + capacity > head + capacity - 2)
      BY <1>0, <1>2
    <2>3. QED
      BY <2>1, <2>2 DEF Resize
  <1>5. TypeOK'
    <2>1. queue' \in [0 .. 2 * capacity - 1 -> Jobs \cup {NoJob}]
      BY <1>0, <1>4
    <2>2. QED
      BY <1>0, <1>3, <2>1 DEF Resize, TypeOK, Lock, Goto
  <1>6. Occupancy' = capacity - 1 /\ ~Full'
    <2>1. Distance(head', tail', capacity') = capacity - 1
      BY <1>0, <1>3 DEF Distance
    <2>2. QED
      BY <1>0, <1>3, <1>5, <2>1, RingNext DEF RingFacts
  <1>7. LockInv'
    BY <1>6, JobQueueAssumption DEF LockInv, TypeOK, Resize, Lock, Goto
  <1>8. SizeCountsJobs'
    BY <1>0, <1>6, <1>7, Size, SizeNext DEF SizeFacts, LockInv, TypeOK, Resize, Lock, Goto
  <1>9. SlotsHoldJobs'
    <2>1. SlotFacts
      BY Slots
    <2>2. SlotFacts'
      BY <1>0, <1>3, <1>4, <2>1 DEF SlotFacts, Distance
    <2>3. QED
      BY <1>5, <2>2, SlotsNext
  <1>10. \A k \in 0 .. Occupancy - 1 :
           queue'[Slot(k)'] = queue[Slot(k)]
    <2>1. TAKE k \in 0 .. Occupancy - 1
    <2>2. head + k \in head .. head + Occupancy - 1
      BY <1>0
    <2>3. /\ Slot(k) = Wrap(head + k, capacity)
          /\ Slot(k)' = head + k
      BY <1>1, <1>3, <2>2 DEF Slot
    <2>4. queue'[head + k] = queue[Wrap(head + k, capacity)]
      BY <1>0, <1>4, <2>2 DEF Wrap
    <2>5. QED
      BY <2>3, <2>4
  <1>11. QED
    BY <1>0, <1>5, <1>6, <1>7, <1>8, <1>9, <1>10

\* The state before a step, without %.
LEMMA Before ==
  ASSUME IInv
  PROVE  /\ capacity \in Nat \ {0} /\ head \in 0 .. capacity - 1 /\ tail \in 0 .. capacity - 1
         /\ queue \in [0 .. capacity - 1 -> Jobs \cup {NoJob}]
         /\ Occupancy = Distance(head, tail, capacity) /\ Occupancy \in 0 .. capacity - 1
         /\ SlotFacts /\ SizeFacts /\ RingFacts
  BY Ring, Slots, Size DEF IInv, TypeOK, RingFacts

\* enqueue() adds one job at the end.
LEMMA StoreStep ==
  ASSUME IInv, NEW t \in Threads, NEW x \in Jobs, Store(t, x)
  PROVE  /\ IInv'
         /\ Occupancy' = Occupancy + 1
         /\ \A k \in 0 .. Occupancy - 1 :
              queue'[Slot(k)'] = queue[Slot(k)]
         /\ \A k \in Nat : k = Occupancy => queue'[Slot(k)'] = x
  <1> USE DEF IInv
  <1>0. /\ capacity \in Nat \ {0} /\ head \in 0 .. capacity - 1 /\ tail \in 0 .. capacity - 1
        /\ queue \in [0 .. capacity - 1 -> Jobs \cup {NoJob}]
        /\ Occupancy = Distance(head, tail, capacity) /\ Occupancy \in 0 .. capacity - 1
        /\ SlotFacts /\ SizeFacts /\ RingFacts
    BY Before
  <1>1. ~Full /\ Occupancy # capacity - 1
    BY <1>0 DEF Store, LockInv, RingFacts
  <1>2. /\ capacity' = capacity /\ head' = head
        /\ tail' = Wrap(tail + 1, capacity)
        /\ queue' = [queue EXCEPT ![tail] = x]
    BY <1>0 DEF Store, RingFacts
  <1>3. TypeOK'
    <2>1. tail' \in 0 .. capacity - 1
      BY <1>0, <1>2 DEF Wrap
    <2>2. QED
      BY <1>0, <1>2, <2>1 DEF Store, TypeOK, Lock, Goto
  <1>4. Occupancy' = Occupancy + 1
    <2>1. Distance(head', tail', capacity') = Distance(head, tail, capacity) + 1
      BY <1>0, <1>1, <1>2 DEF Distance, Wrap
    <2>2. QED
      BY <1>0, <1>3, <2>1, RingNext DEF RingFacts
  <1>5. LockInv'
    BY <1>0, <1>4, JobQueueAssumption DEF LockInv, TypeOK, Store, Lock, Goto
  <1>6. SizeCountsJobs'
    <2>1. \A u \in Threads : pc[u] \notin {"count", "uncount"}
      BY JobQueueAssumption DEF Store, LockInv, Lock
    <2>2. current_size = Occupancy
      BY <1>0, <2>1 DEF SizeFacts
    <2>3. SizeFacts'
      BY <1>0, <1>4, <2>1, <2>2 DEF SizeFacts, TypeOK, Store, Goto
    <2>4. QED
      BY <1>5, <2>3, SizeNext
  <1>7. SlotsHoldJobs'
    <2>1. SlotFacts'
      BY <1>0, <1>1, <1>2, JobQueueAssumption DEF SlotFacts, Distance, Wrap
    <2>2. QED
      BY <1>3, <2>1, SlotsNext
  <1>8. \A k \in 0 .. Occupancy :
          Slot(k) = Wrap(head + k, capacity) /\ Slot(k)' = Slot(k)
    <2>1. \A k \in 0 .. capacity : Slot(k) = Wrap(head + k, capacity)
      BY <1>0 DEF RingFacts
    <2>2. \A k : Slot(k)' = Slot(k)
      BY <1>2 DEF Slot
    <2>3. QED
      BY <1>0, <2>1, <2>2
  <1>9. \A k \in 0 .. Occupancy - 1 :
          queue'[Slot(k)'] = queue[Slot(k)]
    <2>1. TAKE k \in 0 .. Occupancy - 1
    <2>2. Wrap(head + k, capacity) \in 0 .. capacity - 1 /\ Wrap(head + k, capacity) # tail
      BY <1>0 DEF Distance, Wrap
    <2>3. Slot(k)' = Slot(k) /\ Slot(k) = Wrap(head + k, capacity)
      BY <1>0, <1>8
    <2>4. QED
      BY <1>0, <1>2, <2>2, <2>3
  <1>10. ASSUME NEW k \in Nat, k = Occupancy PROVE queue'[Slot(k)'] = x
    <2>1. Wrap(head + Occupancy, capacity) = tail
      BY <1>0 DEF Distance, Wrap
    <2>2. Slot(k)' = tail
      BY <1>0, <1>8, <1>10, <2>1
    <2>3. QED
      BY <1>0, <1>2, <2>2
  <1>11. QED
    BY <1>3, <1>4, <1>5, <1>6, <1>7, <1>9, <1>10

\* dequeue() takes the first job, and the others move up.
LEMMA TakeStep ==
  ASSUME IInv, NEW t \in Threads, Take(t)
  PROVE  /\ IInv'
         /\ Occupancy >= 1 /\ Occupancy' = Occupancy - 1
         /\ \A k \in 0 .. Occupancy - 2 :
              queue'[Slot(k)'] = queue[Slot(k + 1)]
         /\ job' = [job EXCEPT ![t] = queue[Slot(0)]]
  <1> USE DEF IInv
  <1>0. /\ capacity \in Nat \ {0} /\ head \in 0 .. capacity - 1 /\ tail \in 0 .. capacity - 1
        /\ queue \in [0 .. capacity - 1 -> Jobs \cup {NoJob}]
        /\ Occupancy = Distance(head, tail, capacity) /\ Occupancy \in 0 .. capacity - 1
        /\ SlotFacts /\ SizeFacts /\ RingFacts
    BY Before
  <1>1. /\ \A k \in 0 .. capacity : Slot(k) = Wrap(head + k, capacity)
        /\ Slot(1) = Wrap(head + 1, capacity) /\ Slot(0) = head
    BY <1>0 DEF RingFacts, Wrap
  <1>2. /\ capacity' = capacity /\ tail' = tail /\ head # tail
        /\ head' = Wrap(head + 1, capacity)
        /\ queue' = [queue EXCEPT ![head] = NoJob]
    BY <1>1 DEF Take, Slot
  <1>3. TypeOK'
    <2>1. head' \in 0 .. capacity - 1
      BY <1>0, <1>2 DEF Wrap
    <2>2. QED
      BY <1>0, <1>2, <2>1 DEF Take, TypeOK, Lock, Goto
  <1>4. Occupancy >= 1 /\ Occupancy' = Occupancy - 1
    <2>1. /\ Distance(head, tail, capacity) >= 1
          /\ Distance(head', tail', capacity') = Distance(head, tail, capacity) - 1
      BY <1>0, <1>2 DEF Distance, Wrap
    <2>2. QED
      BY <1>0, <1>3, <2>1, RingNext DEF RingFacts
  <1>5. LockInv'
    BY <1>0, JobQueueAssumption DEF LockInv, TypeOK, Take, Lock, Goto
  <1>6. SizeCountsJobs'
    <2>1. \A u \in Threads : pc[u] \notin {"count", "uncount"}
      BY JobQueueAssumption DEF Take, LockInv, Lock
    <2>2. current_size = Occupancy
      BY <1>0, <2>1 DEF SizeFacts
    <2>3. SizeFacts'
      BY <1>0, <1>4, <2>1, <2>2 DEF SizeFacts, TypeOK, Take, Goto
    <2>4. QED
      BY <1>5, <2>3, SizeNext
  <1>7. SlotsHoldJobs'
    <2>1. SlotFacts'
      BY <1>0, <1>2 DEF SlotFacts, Distance, Wrap
    <2>2. QED
      BY <1>3, <2>1, SlotsNext
  <1>8. \A k \in 0 .. Occupancy - 2 :
          queue'[Slot(k)'] = queue[Slot(k + 1)]
    <2>1. TAKE k \in 0 .. Occupancy - 2
    <2>2. /\ Wrap(head + (k + 1), capacity) \in 0 .. capacity - 1
          /\ Wrap(head + (k + 1), capacity) # head
          /\ Wrap(head' + k, capacity) = Wrap(head + (k + 1), capacity)
      BY <1>0, <1>2 DEF Wrap
    <2>3. Slot(k + 1) = Wrap(head + (k + 1), capacity)
      <3>1. k + 1 \in 0 .. capacity
        BY <1>0
      <3>2. QED
        BY <1>1, <3>1
    <2>4. Slot(k)' = Wrap(head' + k, capacity)
      <3>1. RingFacts'
        BY <1>3, RingNext
      <3>2. k \in 0 .. capacity'
        BY <1>0, <1>2
      <3>3. Slot(k)' = Wrap(head' + k, capacity')
        BY <3>1, <3>2 DEF RingFacts
      <3>4. QED
        BY <1>2, <3>3
    <2>5. QED
      BY <1>0, <1>2, <2>2, <2>3, <2>4
  <1>9. QED
    BY <1>1, <1>3, <1>4, <1>5, <1>6, <1>7, <1>8 DEF Take

-----------------------------------------------------------------------------
(* The invariants.                                                         *)

\* The invariant holds of a new JobQueue.
LEMMA InitIInv == Init => IInv
  <1> SUFFICES ASSUME Init PROVE IInv
    OBVIOUS
  <1>1. TypeOK
    BY JobQueueAssumption DEF Init, TypeOK
  <1>2. Occupancy = 0
    BY <1>1, Ring DEF RingFacts, Distance, Init
  <1>3. LockInv
    BY JobQueueAssumption DEF Init, LockInv
  <1>4. SizeCountsJobs
    BY <1>2, <1>3, Size DEF SizeFacts, Init
  <1>5. SlotsHoldJobs
    BY <1>1, Slots DEF SlotFacts, Distance, Init, TypeOK
  <1>6. QED
    BY <1>1, <1>3, <1>4, <1>5 DEF IInv

\* The slots stay as they are.
SameSlots == UNCHANGED <<queue, capacity, head, tail>>

\* What head, tail and the vector determine stays with them.
LEMMA SameSlotsStep ==
  ASSUME SameSlots
  PROVE  /\ Occupancy' = Occupancy /\ (Full' <=> Full)
         /\ SlotsHoldJobs' <=> SlotsHoldJobs
         /\ \A k : Slot(k)' = Slot(k)
  BY DEF SameSlots, Occupancy, Full, SlotsHoldJobs, Slot

\* Updating current_size, with which a call ends, restores the exact count.
LEMMA CountStep ==
  ASSUME IInv, NEW t \in Threads, CountUp(t) \/ CountDown(t)
  PROVE  IInv'
  <1> USE DEF IInv
  <1>1. SameSlots /\ holder = t /\ holder' = Nobody /\ pc' = [pc EXCEPT ![t] = "idle"]
    BY DEF SameSlots, CountUp, CountDown, Goto, LockInv
  <1>2. Occupancy' = Occupancy /\ Occupancy \in Nat /\ SlotsHoldJobs'
    BY <1>1, SameSlotsStep, Before
  <1>3. current_size' = Occupancy
    <2>1. SizeFacts
      BY Before
    <2>2. CASE CountUp(t)
      BY <1>2, <2>1, <2>2 DEF CountUp, SizeFacts
    <2>3. CASE CountDown(t)
      BY <1>2, <2>1, <2>3 DEF CountDown, SizeFacts
    <2>4. QED
      BY <2>2, <2>3
  <1>4. TypeOK'
    BY <1>1, <1>2, <1>3 DEF TypeOK, SameSlots, CountUp, CountDown
  <1>5. LockInv'
    BY <1>1, JobQueueAssumption DEF LockInv, TypeOK
  <1>6. SizeCountsJobs'
    <2>1. \A u \in Threads : pc'[u] \notin {"count", "uncount"}
      BY <1>1 DEF LockInv, TypeOK
    <2>2. SizeFacts'
      BY <1>2, <1>3, <2>1 DEF SizeFacts
    <2>3. QED
      BY <1>5, <2>2, SizeNext
  <1>7. QED
    BY <1>2, <1>4, <1>5, <1>6

\* The steps of dequeue() that look for a job and change nothing else.
LEMMA LookStep ==
  ASSUME IInv, NEW t \in Threads,
         \/ CheckEmpty(t) \/ CheckNonEmpty(t) \/ FindEmpty(t)
         \/ UNCHANGED vars
  PROVE  IInv'
  <1> USE DEF IInv
  <1>1. /\ SameSlots /\ UNCHANGED <<current_size, holder>>
        /\ pc' \in [Threads -> {"idle", "resized", "count", "dequeue", "uncount"}]
        /\ \A u \in Threads :
             pc'[u] = pc[u] \/ (pc[u] \in {"idle", "dequeue"} /\ pc'[u] \in {"idle", "dequeue"})
    BY DEF SameSlots, CheckEmpty, CheckNonEmpty, FindEmpty, Goto, vars, TypeOK
  <1>2. Occupancy' = Occupancy /\ (Full' <=> Full) /\ SlotsHoldJobs'
    BY <1>1, SameSlotsStep
  <1>3. TypeOK'
    <2>1. job' \in [Threads -> Jobs \cup {NoJob}] /\ enqueued' = enqueued
      BY DEF CheckEmpty, CheckNonEmpty, FindEmpty, vars, TypeOK
    <2>2. QED
      BY <1>1, <2>1 DEF TypeOK, SameSlots
  <1>4. LockInv'
    BY <1>1, <1>2 DEF LockInv
  <1>5. SizeCountsJobs'
    <2>1. SizeFacts
      BY Before
    <2>2. SizeFacts'
      BY <1>1, <1>2, <2>1 DEF SizeFacts
    <2>3. QED
      BY <1>4, <2>2, SizeNext
  <1>6. QED
    BY <1>2, <1>3, <1>4, <1>5

\* Every step of enqueue() and dequeue() preserves the invariant.
LEMMA StepIInv == IInv /\ [Next]_vars => IInv'
  <1> SUFFICES ASSUME IInv, [Next]_vars PROVE IInv'
    OBVIOUS
  <1>1. CASE UNCHANGED vars
    BY <1>1 DEF vars, IInv, TypeOK, LockInv, SizeCountsJobs, SlotsHoldJobs, Occupancy, Full
  <1>2. CASE Next
    <2>1. PICK t \in Threads : Enqueue(t) \/ Dequeue(t)
      BY <1>2 DEF Next
    <2>2. CASE Enqueue(t)
      BY <2>2, ResizeStep, StoreStep, CountStep DEF Enqueue
    <2>3. CASE Dequeue(t)
      BY <2>3, LookStep, TakeStep, CountStep DEF Dequeue
    <2>4. QED
      BY <2>1, <2>2, <2>3
  <1>3. QED
    BY <1>1, <1>2

\* The invariant holds in every state.
LEMMA IInvariant == Spec => []IInv
  BY InitIInv, StepIInv, PTL DEF Spec

\* Indices stay inside the vector, and current_size does not wrap below zero.
THEOREM TypeCorrect == Spec => []TypeOK
  <1>1. IInv => TypeOK
    BY DEF IInv
  <1>2. QED
    BY <1>1, IInvariant, PTL

\* The size that is read without the lock is off by one job at most.
THEOREM SizeCountsJobsHolds == Spec => []SizeCountsJobs
  <1>1. IInv => SizeCountsJobs
    BY DEF IInv
  <1>2. QED
    BY <1>1, IInvariant, PTL

\* No job is left behind or found twice in the vector, also after it has grown
\* around a wrapped queue.
THEOREM SlotsHoldJobsHolds == Spec => []SlotsHoldJobs
  <1>1. IInv => SlotsHoldJobs
    BY DEF IInv
  <1>2. QED
    BY <1>1, IInvariant, PTL

-----------------------------------------------------------------------------
(* JobQueue implements FifoQueue.                                          *)

\* The jobs that are in the queue for others: Store counts when it is over.
Counted == IF \E t \in Threads : pc[t] = "count" THEN Occupancy - 1 ELSE Occupancy

\* contents, job by job.
ContentsFacts ==
  /\ Counted \in 0 .. Occupancy
  /\ contents \in Seq(Jobs)
  /\ Len(contents) = Counted
  /\ \A k \in 1 .. Counted : contents[k] = queue[Slot(k - 1)]
  /\ \A k \in 0 .. Occupancy - 1 : queue[Slot(k)] \in Jobs

\* contents is the sequence of the jobs in the slots from head on.
LEMMA Contents == IInv => ContentsFacts
  <1> SUFFICES ASSUME IInv PROVE ContentsFacts
    OBVIOUS
  <1>0. /\ capacity \in Nat \ {0} /\ head \in 0 .. capacity - 1 /\ tail \in 0 .. capacity - 1
        /\ queue \in [0 .. capacity - 1 -> Jobs \cup {NoJob}]
        /\ Occupancy = Distance(head, tail, capacity) /\ Occupancy \in 0 .. capacity - 1
        /\ SlotFacts
    BY Before
  <1>1. \A k \in 0 .. Occupancy - 1 : queue[Slot(k)] \in Jobs
    <2>1. TAKE k \in 0 .. Occupancy - 1
    <2>2. Slot(k) = Wrap(head + k, capacity)
      <3>1. k \in 0 .. capacity
        BY <1>0
      <3>2. QED
        BY <3>1, Before DEF RingFacts
    <2>3. /\ Wrap(head + k, capacity) \in 0 .. capacity - 1
          /\ Distance(head, Wrap(head + k, capacity), capacity) = k
      BY <1>0 DEF Wrap, Distance
    <2>4. queue[Wrap(head + k, capacity)] # NoJob
      BY <1>0, <2>3 DEF SlotFacts
    <2>5. QED
      BY <1>0, <2>2, <2>3, <2>4
  <1>2. Counted \in 0 .. Occupancy
    BY <1>0 DEF Counted, IInv, LockInv
  <1>3. \A k \in 1 .. Counted : queue[(head + k - 1) % capacity] = queue[Slot(k - 1)]
    <2>1. TAKE k \in 1 .. Counted
    <2>2. head + k - 1 = head + (k - 1)
      BY <1>0, <1>2
    <2>3. QED
      BY <2>2 DEF Slot
  <1>4. contents = [k \in 1 .. Counted |-> queue[Slot(k - 1)]]
    BY <1>3 DEF contents, Counted
  <1>5. \A k \in 1 .. Counted : queue[Slot(k - 1)] \in Jobs
    BY <1>0, <1>1, <1>2
  <1>6. contents \in Seq(Jobs) /\ Len(contents) = Counted
    <2>1. contents \in [1 .. Counted -> Jobs] /\ Counted \in Nat
      BY <1>0, <1>2, <1>4, <1>5
    <2>2. contents \in Seq(Jobs)
      BY <2>1, SeqDef
    <2>3. 1 .. Len(contents) = 1 .. Counted /\ Len(contents) \in Nat
      BY <2>1, <2>2, LenProperties
    <2>4. QED
      BY <2>1, <2>2, <2>3
  <1>7. QED
    BY <1>1, <1>2, <1>4, <1>6 DEF ContentsFacts

\* The same after a step.
LEMMA ContentsNext == IInv' => ContentsFacts'
  BY Contents, PTL

\* Until it is counted, a job that was stored is not there.
LEMMA StoreRefines ==
  ASSUME IInv, NEW t \in Threads, NEW x \in Jobs, Store(t, x)
  PROVE  UNCHANGED <<contents, job>>
  <1>1. IInv' /\ ContentsFacts /\ ContentsFacts'
    BY StoreStep, Contents, ContentsNext
  <1>2. /\ Occupancy \in Nat /\ Occupancy' = Occupancy + 1
        /\ \A k \in 0 .. Occupancy - 1 : queue'[Slot(k)'] = queue[Slot(k)]
    BY StoreStep, Before
  <1>3. Counted = Occupancy /\ Counted' = Occupancy
    <2>1. \A u \in Threads : pc[u] # "count"
      BY JobQueueAssumption DEF IInv, LockInv, Store, Lock
    <2>2. \E u \in Threads : pc'[u] = "count"
      BY DEF IInv, TypeOK, Store, Goto
    <2>3. QED
      BY <1>2, <2>1, <2>2 DEF Counted
  <1>4. \A k \in 1 .. Occupancy : contents'[k] = contents[k]
    <2>1. TAKE k \in 1 .. Occupancy
    <2>2. k - 1 \in 0 .. Occupancy - 1
      BY <1>2
    <2>3. contents[k] = queue[Slot(k - 1)] /\ contents'[k] = queue'[Slot(k - 1)']
      BY <1>1, <1>3 DEF ContentsFacts
    <2>4. QED
      BY <1>2, <2>2, <2>3
  <1>5. contents' = contents
    BY <1>1, <1>3, <1>4, SeqEqual DEF ContentsFacts
  <1>6. QED
    BY <1>5 DEF Store

\* Growing the vector changes nothing for those who use the queue.
LEMMA ResizeRefines ==
  ASSUME IInv, NEW t \in Threads, Resize(t)
  PROVE  UNCHANGED <<contents, job>>
  <1>1. IInv' /\ ContentsFacts /\ ContentsFacts'
    BY ResizeStep, Contents, ContentsNext
  <1>2. /\ Occupancy \in Nat /\ Occupancy' = Occupancy
        /\ \A k \in 0 .. Occupancy - 1 : queue'[Slot(k)'] = queue[Slot(k)]
    BY ResizeStep, Before
  <1>3. Counted = Occupancy /\ Counted' = Occupancy
    <2>1. \A u \in Threads : pc[u] # "count" /\ pc'[u] # "count"
      BY JobQueueAssumption DEF IInv, LockInv, TypeOK, Resize, Lock, Goto
    <2>2. QED
      BY <1>2, <2>1 DEF Counted
  <1>4. \A k \in 1 .. Occupancy : contents'[k] = contents[k]
    <2>1. TAKE k \in 1 .. Occupancy
    <2>2. k - 1 \in 0 .. Occupancy - 1
      BY <1>2
    <2>3. contents[k] = queue[Slot(k - 1)] /\ contents'[k] = queue'[Slot(k - 1)']
      BY <1>1, <1>3 DEF ContentsFacts
    <2>4. QED
      BY <1>2, <2>2, <2>3
  <1>5. contents' = contents
    BY <1>1, <1>3, <1>4, SeqEqual DEF ContentsFacts
  <1>6. QED
    BY <1>5 DEF Resize

\* enqueue() takes effect when it counts its job.
LEMMA CountUpRefines ==
  ASSUME IInv, NEW t \in Threads, CountUp(t)
  PROVE  \E x \in Jobs : Fifo!Enqueue(x)
  <1>1. IInv' /\ ContentsFacts /\ ContentsFacts'
    BY CountStep, Contents, ContentsNext
  <1>2. /\ Occupancy \in Nat /\ Occupancy >= 1 /\ Occupancy' = Occupancy
        /\ queue' = queue /\ \A k : Slot(k)' = Slot(k)
    BY Before, SameSlotsStep DEF CountUp, SameSlots, IInv, LockInv
  <1>3. Counted = Occupancy - 1 /\ Counted' = Occupancy
    <2>1. pc[t] = "count" /\ \A u \in Threads : pc'[u] # "count"
      BY DEF IInv, LockInv, TypeOK, CountUp, Goto
    <2>2. QED
      BY <1>2, <2>1 DEF Counted
  <1> DEFINE x == queue[Slot(Occupancy - 1)]
  <1>4. x \in Jobs
    BY <1>1, <1>2 DEF ContentsFacts
  <1>5. contents' = Append(contents, x)
    <2> HIDE DEF x
    <2>1. /\ contents \in Seq(Jobs) /\ Len(contents) = Occupancy - 1
          /\ contents' \in Seq(Jobs) /\ Len(contents') = Occupancy
      BY <1>1, <1>3 DEF ContentsFacts
    <2>2. /\ Append(contents, x) \in Seq(Jobs)
          /\ Len(Append(contents, x)) = Occupancy
          /\ \A k \in 1 .. Occupancy - 1 : Append(contents, x)[k] = contents[k]
          /\ Append(contents, x)[Occupancy] = x
      BY <1>2, <1>4, <2>1, AppendProperties
    <2>3. \A k \in 1 .. Occupancy : contents'[k] = queue[Slot(k - 1)]
      BY <1>1, <1>2, <1>3 DEF ContentsFacts
    <2>4. \A k \in 1 .. Occupancy - 1 : contents[k] = queue[Slot(k - 1)]
      BY <1>1, <1>3 DEF ContentsFacts
    <2>5. \A k \in 1 .. Occupancy : contents'[k] = Append(contents, x)[k]
      BY <1>2, <2>2, <2>3, <2>4 DEF x
    <2>6. QED
      BY <2>1, <2>2, <2>5, SeqEqual
  <1>6. QED
    BY <1>4, <1>5 DEF Fifo!Enqueue, CountUp

\* dequeue() returns the oldest job, and takes effect when it moves it out.
LEMMA TakeRefines ==
  ASSUME IInv, NEW t \in Threads, Take(t)
  PROVE  Fifo!Dequeue(t)
  <1>1. IInv' /\ ContentsFacts /\ ContentsFacts'
    BY TakeStep, Contents, ContentsNext
  <1>2. /\ Occupancy \in Nat /\ Occupancy >= 1 /\ Occupancy' = Occupancy - 1
        /\ \A k \in 0 .. Occupancy - 2 : queue'[Slot(k)'] = queue[Slot(k + 1)]
        /\ job' = [job EXCEPT ![t] = queue[Slot(0)]]
    BY TakeStep, Before
  <1>3. Counted = Occupancy /\ Counted' = Occupancy - 1
    <2>1. \A u \in Threads : pc[u] # "count" /\ pc'[u] # "count"
      BY JobQueueAssumption DEF IInv, LockInv, TypeOK, Take, Lock, Goto
    <2>2. QED
      BY <1>2, <2>1 DEF Counted
  <1>4. /\ contents \in Seq(Jobs) /\ Len(contents) = Occupancy
        /\ contents' \in Seq(Jobs) /\ Len(contents') = Occupancy - 1
    BY <1>1, <1>3 DEF ContentsFacts
  <1>5. contents # <<>>
    BY <1>2, <1>4, EmptySeq
  <1>6. Head(contents) = queue[Slot(0)]
    <2>1. contents[1] = queue[Slot(1 - 1)]
      BY <1>1, <1>2, <1>3 DEF ContentsFacts
    <2>2. QED
      BY <1>4, <2>1
  <1>7. contents' = Tail(contents)
    <2>1. /\ Tail(contents) \in Seq(Jobs) /\ Len(Tail(contents)) = Occupancy - 1
          /\ \A k \in 1 .. Occupancy - 1 : Tail(contents)[k] = contents[k + 1]
      BY <1>4, <1>5, HeadTailProperties
    <2>2. \A k \in 1 .. Occupancy - 1 : contents'[k] = contents[k + 1]
      <3>1. TAKE k \in 1 .. Occupancy - 1
      <3>2. /\ k + 1 \in 1 .. Occupancy /\ k - 1 \in 0 .. Occupancy - 2
            /\ (k - 1) + 1 = k /\ (k + 1) - 1 = k
        BY <1>2
      <3>3. contents[k + 1] = queue[Slot((k + 1) - 1)]
        BY <1>1, <1>3, <3>2 DEF ContentsFacts
      <3>4. contents'[k] = queue'[Slot(k - 1)']
        BY <1>1, <1>3 DEF ContentsFacts
      <3>5. QED
        BY <1>2, <3>2, <3>3, <3>4
    <2>3. QED
      BY <1>4, <2>1, <2>2, SeqEqual
  <1>8. QED
    BY <1>2, <1>5, <1>6, <1>7 DEF Fifo!Dequeue

\* The end of a dequeue() changes nothing for those who use the queue.
LEMMA CountDownRefines ==
  ASSUME IInv, NEW t \in Threads, CountDown(t)
  PROVE  UNCHANGED <<contents, job>>
  <1>1. SameSlots /\ pc' = [pc EXCEPT ![t] = "idle"] /\ pc[t] = "uncount" /\ job' = job
    BY DEF CountDown, SameSlots, Goto
  <1>2. Occupancy' = Occupancy
    BY <1>1, SameSlotsStep
  <1>3. (\E u \in Threads : pc'[u] = "count") <=> (\E u \in Threads : pc[u] = "count")
    BY <1>1 DEF IInv, TypeOK
  <1>4. contents' = contents
    BY <1>1, <1>2, <1>3 DEF contents, SameSlots
  <1>5. QED
    BY <1>1, <1>4

\* dequeue() finds nothing only when nothing is there, also on its unlocked check.
LEMMA LookRefines ==
  ASSUME IInv, NEW t \in Threads, CheckEmpty(t) \/ CheckNonEmpty(t) \/ FindEmpty(t)
  PROVE  Fifo!DequeueNothing(t) \/ UNCHANGED <<contents, job>>
  <1>1. SameSlots /\ \A u \in Threads : pc'[u] = "count" <=> pc[u] = "count"
    BY DEF SameSlots, CheckEmpty, CheckNonEmpty, FindEmpty, Goto, IInv, TypeOK
  <1>2. contents' = contents
    BY <1>1, SameSlotsStep DEF contents, SameSlots
  <1>3. CASE CheckNonEmpty(t)
    BY <1>2, <1>3 DEF CheckNonEmpty
  <1>4. CASE CheckEmpty(t) \/ FindEmpty(t)
    <2>1. Counted = 0
      <3>1. SizeFacts /\ Occupancy \in Nat /\ Occupancy = Distance(head, tail, capacity)
        BY Before
      <3>2. CASE CheckEmpty(t)
        BY <3>1, <3>2 DEF CheckEmpty, SizeFacts, Counted
      <3>3. CASE FindEmpty(t)
        <4>1. Occupancy = 0
          BY <3>1, <3>3 DEF FindEmpty, Distance, IInv, TypeOK
        <4>2. \A u \in Threads : pc[u] # "count"
          BY <3>3, JobQueueAssumption DEF FindEmpty, IInv, LockInv
        <4>3. QED
          BY <4>1, <4>2 DEF Counted
      <3>4. QED
        BY <1>4, <3>2, <3>3
    <2>2. contents = <<>>
      BY <2>1, Contents, EmptySeq DEF ContentsFacts
    <2>3. QED
      BY <1>2, <1>4, <2>2 DEF CheckEmpty, FindEmpty, Fifo!DequeueNothing
  <1>5. QED
    BY <1>3, <1>4

\* JobQueue is a first-in first-out queue, for any threads and jobs, across
\* wrap-around and growth: jobs leave in the order in which they were counted, each
\* once, and whoever finds nothing is right.
THEOREM RefinesFifoQueue == Spec => ImplementsFifoQueue
  <1>1. Init => Fifo!Init
    <2> SUFFICES ASSUME Init PROVE Fifo!Init
      OBVIOUS
    <2>1. ContentsFacts /\ Occupancy = 0
      BY InitIInv, Contents, Before DEF Init, Distance
    <2>2. contents = <<>>
      BY <2>1, EmptySeq DEF ContentsFacts
    <2>3. QED
      BY <2>2 DEF Init, Fifo!Init
  <1>2. IInv /\ [Next]_vars => [Fifo!Next]_(Fifo!vars)
    <2> SUFFICES ASSUME IInv, [Next]_vars PROVE [Fifo!Next]_(Fifo!vars)
      OBVIOUS
    <2>1. CASE UNCHANGED vars
      BY <2>1 DEF vars, Fifo!vars, contents, Occupancy
    <2>2. ASSUME NEW t \in Threads, Enqueue(t) PROVE [Fifo!Next]_(Fifo!vars)
      BY <2>2, ResizeRefines, StoreRefines, CountUpRefines
         DEF Enqueue, Fifo!Next, Fifo!vars
    <2>3. ASSUME NEW t \in Threads, Dequeue(t) PROVE [Fifo!Next]_(Fifo!vars)
      BY <2>3, LookRefines, TakeRefines, CountDownRefines
         DEF Dequeue, Fifo!Next, Fifo!vars
    <2>4. QED
      BY <2>1, <2>2, <2>3 DEF Next
  <1>3. QED
    BY <1>1, <1>2, IInvariant, PTL DEF Spec, ImplementsFifoQueue, Fifo!Spec
=============================================================================
