---------------------------- MODULE WriteOnceCell ----------------------------
(***************************************************************************)
(* Cell::WriteOnceCell<T, Err> (src/src/cell/include/cell/                 *)
(* write_once_cell.h): a cell that is written once, by write() or error(), *)
(* and that any thread may await (register a callback) or block on.        *)
(*                                                                         *)
(* The cell is guarded by a std::shared_mutex.  write() and error() take   *)
(* it exclusively; await() and block() take it shared, and await() appends *)
(* to the callbacks vector under that shared lock, so two overlapping      *)
(* calls of await() race on the vector.  Results are abstracted to the     *)
(* name of the thread that writes them: nothing in the cell looks at them. *)
(***************************************************************************)
EXTENDS Naturals, Sequences

CONSTANTS Writers,      \* threads that call write() or error(), once each
          Awaiters,     \* threads that call await(), any number of times
          Blockers,     \* threads that call block(), once each
          Callbacks,    \* the callbacks given to await(), once each
          NoValue,      \* std::nullopt: the cell is not filled
          NoCallback,   \* no call of await() in progress
          Unwritten     \* a vector slot in which nothing was constructed

Threads == Writers \cup Awaiters \cup Blockers

ASSUME ThreadsAssumption ==
  /\ Writers \cap Awaiters = {}
  /\ Writers \cap Blockers = {}
  /\ Awaiters \cap Blockers = {}

ASSUME ValuesAssumption ==
  /\ NoValue \notin Threads
  /\ NoCallback \notin Callbacks
  /\ Unwritten \notin Callbacks
  /\ Unwritten # NoCallback

VARIABLES value,       \* the optional result
          callbacks,   \* the vector of callbacks
          cursor,      \* the first callback write_result_to_value has not queued
          writer,      \* the thread holding mutex exclusively, or NoValue
          readers,     \* the threads holding mutex shared
          pc,          \* where each thread is in its call
          cb,          \* the callback an awaiter is registering
          end,         \* the end of the vector as an awaiter read it
          got,         \* what block() returned to each blocker
          registered,  \* the callbacks await() was called with so far
          jobs         \* the jobs given to IScheduler::queue, in order

vars == <<value, callbacks, cursor, writer, readers, pc, cb, end, got,
          registered, jobs>>

Init ==
  /\ value = NoValue /\ callbacks = <<>> /\ cursor = 1
  /\ writer = NoValue /\ readers = {}
  /\ pc = [t \in Threads |-> "idle"]
  /\ cb = [a \in Awaiters |-> NoCallback]
  /\ end = [a \in Awaiters |-> 0]
  /\ got = [b \in Blockers |-> NoValue]
  /\ registered = {} /\ jobs = <<>>

Goto(t, there) == pc' = [pc EXCEPT ![t] = there]

\* Faulty variants, which the properties below have to tell from the code.

\* The callback is bound to the result before the cell is filled.
JobBoundEarly(c) == [callback |-> c, result |-> NoValue]

\* await() and block() do not wait for the writer.
LockSharedAnyway(t) == readers' = readers \cup {t}

Job(c) == [callback |-> c, result |-> value]

LockShared(t) == writer = NoValue /\ readers' = readers \cup {t}

UnlockShared(t) == readers' = readers \ {t}

-----------------------------------------------------------------------------
(* write() and error(): write_result_to_value                              *)

WriteLock(t) ==
  /\ pc[t] = "idle"
  /\ writer = NoValue /\ readers = {}
  /\ writer' = t
  /\ Goto(t, "locked")
  /\ UNCHANGED <<value, callbacks, cursor, readers, cb, end, got, registered, jobs>>

\* The cell was written before: the call returns false.
WriteRejected(t) ==
  /\ pc[t] = "locked"
  /\ value # NoValue
  /\ writer' = NoValue
  /\ Goto(t, "false")
  /\ UNCHANGED <<value, callbacks, cursor, readers, cb, end, got, registered, jobs>>

\* Faulty: the value is not tested.
WriteFillUnchecked(t) ==
  /\ pc[t] = "locked"
  /\ value' = t
  /\ Goto(t, "dispatch")
  /\ UNCHANGED <<callbacks, cursor, writer, readers, cb, end, got, registered, jobs>>

WriteFill(t) ==
  /\ pc[t] = "locked"
  /\ value = NoValue
  /\ value' = t
  /\ Goto(t, "dispatch")
  /\ UNCHANGED <<callbacks, cursor, writer, readers, cb, end, got, registered, jobs>>

\* One iteration of the loop that queues the callbacks: the scheduler may run
\* a callback before the loop ends, while the mutex is still held.
WriteQueue(t) ==
  /\ pc[t] = "dispatch"
  /\ cursor <= Len(callbacks)
  /\ jobs' = Append(jobs, Job(callbacks[cursor]))
  /\ cursor' = cursor + 1
  /\ UNCHANGED <<value, callbacks, writer, readers, pc, cb, end, got, registered>>

\* Faulty: the loop ends before the last callback.
WriteUnlockEarly(t) ==
  /\ pc[t] = "dispatch"
  /\ callbacks' = <<>> /\ cursor' = 1
  /\ writer' = NoValue
  /\ Goto(t, "notify")
  /\ UNCHANGED <<value, readers, cb, end, got, registered, jobs>>

\* Faulty: the callbacks are not cleared.
WriteUnlockUncleared(t) ==
  /\ pc[t] = "dispatch"
  /\ cursor > Len(callbacks)
  /\ cursor' = 1
  /\ writer' = NoValue
  /\ Goto(t, "notify")
  /\ UNCHANGED <<value, callbacks, readers, cb, end, got, registered, jobs>>

WriteUnlock(t) ==
  /\ pc[t] = "dispatch"
  /\ cursor > Len(callbacks)
  /\ callbacks' = <<>> /\ cursor' = 1
  /\ writer' = NoValue
  /\ Goto(t, "notify")
  /\ UNCHANGED <<value, readers, cb, end, got, registered, jobs>>

\* Faulty: notify_one().
WriteNotifyOne(t) ==
  /\ pc[t] = "notify"
  /\ LET waiting == {u \in Blockers : pc[u] = "waiting"}
     IN  \/ waiting = {} /\ Goto(t, "true")
         \/ \E u \in waiting : pc' = [pc EXCEPT ![t] = "true", ![u] = "relock"]
  /\ UNCHANGED <<value, callbacks, cursor, writer, readers, cb, end, got, registered, jobs>>

\* cell_filled.notify_all(), after which the call returns true.
WriteNotify(t) ==
  /\ pc[t] = "notify"
  /\ pc' = [u \in Threads |->
              IF u = t THEN "true"
              ELSE IF pc[u] = "waiting" THEN "relock" ELSE pc[u]]
  /\ UNCHANGED <<value, callbacks, cursor, writer, readers, cb, end, got, registered, jobs>>

-----------------------------------------------------------------------------
(* await()                                                                 *)

AwaitLock(t, c) ==
  /\ pc[t] = "idle"
  /\ c \notin registered
  /\ LockShared(t)
  /\ registered' = registered \cup {c}
  /\ cb' = [cb EXCEPT ![t] = c]
  /\ Goto(t, "await")
  /\ UNCHANGED <<value, callbacks, cursor, writer, end, got, jobs>>

AwaitQueueNow(t) ==
  /\ pc[t] = "await"
  /\ value # NoValue
  /\ jobs' = Append(jobs, Job(cb[t]))
  /\ UnlockShared(t)
  /\ cb' = [cb EXCEPT ![t] = NoCallback]
  /\ Goto(t, "idle")
  /\ UNCHANGED <<value, callbacks, cursor, writer, end, got, registered>>

\* callbacks.push_back reads the end of the vector ...
AwaitPushBegin(t) ==
  /\ pc[t] = "await"
  /\ value = NoValue
  /\ end' = [end EXCEPT ![t] = Len(callbacks)]
  /\ Goto(t, "push")
  /\ UNCHANGED <<value, callbacks, cursor, writer, readers, cb, got, registered, jobs>>

\* ... then constructs the callback there and moves the end.  If another
\* await() moved the end in between, the callback is constructed over the
\* other's, and the end is either set from the stale read or moved once more,
\* past a slot in which nothing was constructed.
Pushed(c, at) ==
  IF at = Len(callbacks) THEN {Append(callbacks, c)}
  ELSE LET over == [callbacks EXCEPT ![at + 1] = c]
       IN  {over, Append(over, Unwritten)}

AwaitPushEnd(t) ==
  /\ pc[t] = "push"
  /\ callbacks' \in Pushed(cb[t], end[t])
  /\ UnlockShared(t)
  /\ cb' = [cb EXCEPT ![t] = NoCallback]
  /\ Goto(t, "idle")
  /\ UNCHANGED <<value, cursor, writer, end, got, registered, jobs>>

-----------------------------------------------------------------------------
(* block()                                                                 *)

BlockLock(t) ==
  /\ pc[t] = "idle"
  /\ LockShared(t)
  /\ Goto(t, "block")
  /\ UNCHANGED <<value, callbacks, cursor, writer, cb, end, got, registered, jobs>>

\* The test is an if, not a loop: wait() is called at most once, and releases
\* the mutex while the thread sleeps.
BlockTest(t) ==
  /\ pc[t] = "block"
  /\ UnlockShared(t)
  /\ Goto(t, IF value = NoValue THEN "waiting" ELSE "read")
  /\ UNCHANGED <<value, callbacks, cursor, writer, cb, end, got, registered, jobs>>

\* std::condition_variable_any::wait may return without a notification.
BlockSpuriousWakeup(t) ==
  /\ pc[t] = "waiting"
  /\ Goto(t, "relock")
  /\ UNCHANGED <<value, callbacks, cursor, writer, readers, cb, end, got, registered, jobs>>

\* wait() takes the mutex again; the scope ends at once and releases it.
BlockRelock(t) ==
  /\ pc[t] = "relock"
  /\ writer = NoValue
  /\ Goto(t, "read")
  /\ UNCHANGED <<value, callbacks, cursor, writer, readers, cb, end, got, registered, jobs>>

\* return value.value(), outside the lock: throws if the cell is empty.
BlockRead(t) ==
  /\ pc[t] = "read"
  /\ got' = [got EXCEPT ![t] = value]
  /\ Goto(t, IF value = NoValue THEN "threw" ELSE "returned")
  /\ UNCHANGED <<value, callbacks, cursor, writer, readers, cb, end, registered, jobs>>

-----------------------------------------------------------------------------
\* Every call has returned, or waits in block(), and no callback is left to
\* register; whether block() should still wait is for BlockersReturn to say.
Finished ==
  /\ \A t \in Writers : pc[t] \in {"true", "false"}
  /\ \A t \in Awaiters : pc[t] = "idle"
  /\ \A t \in Blockers : pc[t] \in {"waiting", "returned", "threw"}
  /\ registered = Callbacks
  /\ UNCHANGED vars

Write(t) ==
  \/ WriteRejected(t) \/ WriteFill(t) \/ WriteQueue(t) \/ WriteUnlock(t)
  \/ WriteNotify(t)

Await(t) == AwaitQueueNow(t) \/ AwaitPushBegin(t) \/ AwaitPushEnd(t)

Block(t) == BlockTest(t) \/ BlockRelock(t) \/ BlockRead(t)

Next ==
  \/ \E t \in Writers : WriteLock(t) \/ Write(t)
  \/ \E t \in Awaiters : (\E c \in Callbacks : AwaitLock(t, c)) \/ Await(t)
  \/ \E t \in Blockers : BlockLock(t) \/ Block(t) \/ BlockSpuriousWakeup(t)
  \/ Finished

\* A thread inside a call keeps running; no thread has to make a call.
Fairness ==
  /\ \A t \in Writers : WF_vars(Write(t))
  /\ \A t \in Awaiters : WF_vars(Await(t))
  /\ \A t \in Blockers : WF_vars(Block(t))

Safety == Init /\ [][Next]_vars

Spec == Safety /\ Fairness

-----------------------------------------------------------------------------
(* Properties                                                              *)

Job_ == [callback : Callbacks \cup {Unwritten}, result : Writers]

\* The type of the state of WriteOnceCell.
TypeOK ==
  /\ value \in Writers \cup {NoValue}
  /\ callbacks \in Seq(Callbacks \cup {Unwritten})
  /\ cursor \in Nat \ {0} /\ cursor <= Len(callbacks) + 1
  /\ writer \in Writers \cup {NoValue}
  /\ readers \subseteq Awaiters \cup Blockers
  /\ pc \in [Threads -> {"idle", "locked", "dispatch", "notify", "true", "false",
                         "await", "push", "block", "waiting", "relock", "read",
                         "returned", "threw"}]
  /\ cb \in [Awaiters -> Callbacks \cup {NoCallback}]
  /\ end \in [Awaiters -> Nat]
  /\ got \in [Blockers -> Writers \cup {NoValue}]
  /\ registered \subseteq Callbacks
  /\ jobs \in Seq(Job_)

\* Of all the calls of write() and error() on a cell, at most one returns true,
\* and then the cell holds its result; one that returns false lost to another
\* (the boolean documented at write_result_to_value).
OneWinner ==
  /\ \A t \in Writers : pc[t] \in {"notify", "true"} => value = t
  /\ \A t \in Writers : pc[t] = "false" => value \notin {NoValue, t}

\* Everyone sees the same result: each queued callback and each block() that
\* returned carries the value the cell holds, whoever raced with the write.
SameResultForAll ==
  /\ \A i \in DOMAIN jobs : jobs[i].result = value
  /\ \A t \in Blockers : got[t] # NoValue => got[t] = value

\* Once filled, a cell never changes its result and never becomes empty
\* (the guard at the top of write_result_to_value).
WriteOnce == [][value # NoValue => value' = value]_vars

Waiting(c) == \E i \in cursor .. Len(callbacks) : callbacks[i] = c

Queued(c) == \E i \in DOMAIN jobs : jobs[i].callback = c

InFlight(c) == \E a \in Awaiters : cb[a] = c

\* A callback given to await() is never dropped: until it is queued on the
\* scheduler it is in the hands of await() or in the callbacks vector.
NoCallbackLost == \A c \in registered : InFlight(c) \/ Waiting(c) \/ Queued(c)

\* A callback is queued at most once, and nothing but callbacks is queued:
\* neither the race of await() with a write nor the clearing of the vector
\* after the loop makes the scheduler run a callback twice.
QueuedAtMostOnce ==
  /\ \A i \in DOMAIN jobs : jobs[i].callback \in registered
  /\ \A i, j \in DOMAIN jobs : jobs[i].callback = jobs[j].callback => i = j
  /\ \A c \in Callbacks : Waiting(c) => ~Queued(c)

\* No callback is stranded in the vector of a filled cell: only the write that
\* filled the cell, still in its loop, leaves callbacks behind.
NoCallbackStranded ==
  value # NoValue /\ callbacks # <<>> => \E t \in Writers : pc[t] = "dispatch"

\* Once the cell is filled every thread inside block() gets its result: the
\* wake-up is not lost between the test of value and the wait, and one that comes
\* unnotified does no harm any more (before, value.value() throws, against the
\* note above it).
BlockersReturn ==
  \A t \in Blockers :
    (value # NoValue /\ pc[t] \notin {"idle", "threw"}) ~> pc[t] = "returned"

\* The cell as its clients see it.
Cell == INSTANCE OnceCell WITH
          Results  <- Writers,
          NoResult <- NoValue,
          result   <- value,
          pending  <- {callbacks[i] : i \in cursor .. Len(callbacks)}

\* WriteOnceCell implements OnceCell: resolved once, each callback handed over
\* once, and in the end.
ImplementsOnceCell == Cell!Spec
=============================================================================
