-------------------------- MODULE TrackingOnceCell --------------------------
(***************************************************************************)
(* Cell::TrackingOnceCell<T, Err> (src/src/cell/include/cell/              *)
(* tracking_once_cell.h), the cell behind Task::bind: it has the result of *)
(* the cell that track() gives it, and keeps the callbacks until then.     *)
(*                                                                         *)
(* track() takes the std::shared_mutex exclusively, await() and block()    *)
(* take it shared; all three call the tracked cell while they hold it.     *)
(* The cells that may be tracked are OnceCells, which any thread may       *)
(* resolve at any time, also before they are tracked.  Two overlapping     *)
(* calls of await() race on the vector, as they do in WriteOnceCell.       *)
(***************************************************************************)
EXTENDS Naturals, Sequences

CONSTANTS Cells,       \* the cells that track() may be called with
          Results,     \* the values and errors these may be resolved with
          Trackers,    \* threads that call track(), once each
          Awaiters,    \* threads that call await(), any number of times
          Blockers,    \* threads that call block(), once each
          Callbacks,   \* the callbacks given to await(), once each
          Nothing,     \* std::nullopt
          Unwritten    \* a vector slot in which nothing was constructed

Threads == Trackers \cup Awaiters \cup Blockers

ASSUME TrackingAssumption ==
  /\ Trackers \cap Awaiters = {}
  /\ Trackers \cap Blockers = {}
  /\ Awaiters \cap Blockers = {}
  /\ Nothing \notin Cells \cup Results \cup Callbacks \cup Threads
  /\ Unwritten \notin Callbacks

VARIABLES cell,        \* the optional cell being tracked
          callbacks,   \* the vector of callbacks
          cursor,      \* the first callback that track() has not passed on
          writer,      \* the thread holding mutex exclusively, or Nothing
          readers,     \* the threads holding mutex shared
          pc,          \* where each thread is in its call
          arg,         \* what track() or await() was called with, per thread
          end,         \* the end of the vector as an awaiter read it
          got,         \* what block() returned to each blocker
          registered,  \* the callbacks await() was called with so far
          result,      \* the result of each of Cells
          pending,     \* the callbacks registered with each of Cells
          jobs         \* the callbacks handed to the scheduler, in order

outer == <<cell, callbacks, cursor, registered>>
mutex == <<writer, readers>>
local == <<arg, end, got>>
inner == <<result, pending, jobs>>

vars == <<outer, mutex, pc, local, inner>>

Init ==
  /\ cell = Nothing /\ callbacks = <<>> /\ cursor = 1 /\ registered = {}
  /\ writer = Nothing /\ readers = {}
  /\ pc = [t \in Threads |-> "idle"]
  /\ arg = [t \in Trackers \cup Awaiters |-> Nothing]
  /\ end = [t \in Awaiters |-> 0]
  /\ got = [t \in Blockers |-> Nothing]
  /\ result = [c \in Cells |-> Nothing]
  /\ pending = [c \in Cells |-> {}]
  /\ jobs = <<>>

Move(t, from, to) == pc[t] = from /\ pc' = [pc EXCEPT ![t] = to]

LockShared(t) == writer = Nothing /\ readers' = readers \cup {t} /\ UNCHANGED writer

UnlockShared(t) == readers' = readers \ {t} /\ UNCHANGED writer

LockExclusive(t) ==
  /\ writer = Nothing /\ readers = {}
  /\ writer' = t /\ UNCHANGED readers

-----------------------------------------------------------------------------
(* The cells that may be tracked, as OnceCell says                         *)

Job(c, r) == [callback |-> c, result |-> r]

ResolveCell(k, r) ==
  /\ result[k] = Nothing
  /\ result' = [result EXCEPT ![k] = r]
  /\ UNCHANGED <<outer, mutex, pc, local, pending, jobs>>

HandOver(k, c) ==
  /\ result[k] # Nothing /\ c \in pending[k]
  /\ pending' = [pending EXCEPT ![k] = @ \ {c}]
  /\ jobs' = Append(jobs, Job(c, result[k]))
  /\ UNCHANGED <<outer, mutex, pc, local, result>>

\* await() on cell k
InnerAwait(k, c) ==
  /\ IF result[k] = Nothing
     THEN pending' = [pending EXCEPT ![k] = @ \cup {c}] /\ UNCHANGED jobs
     ELSE jobs' = Append(jobs, Job(c, result[k])) /\ UNCHANGED pending
  /\ UNCHANGED result

-----------------------------------------------------------------------------
(* track()                                                                 *)

TrackCall(t, k) ==
  /\ Move(t, "idle", "lock")
  /\ arg' = [arg EXCEPT ![t] = k]
  /\ UNCHANGED <<outer, mutex, end, got, inner>>

TrackLock(t) ==
  /\ Move(t, "lock", "locked")
  /\ LockExclusive(t)
  /\ UNCHANGED <<outer, local, inner>>

\* A cell is being tracked already: the call returns false.
TrackRejected(t) ==
  /\ Move(t, "locked", "false")
  /\ cell # Nothing
  /\ writer' = Nothing
  /\ UNCHANGED <<outer, readers, local, inner>>

TrackFill(t) ==
  /\ Move(t, "locked", "passing")
  /\ cell = Nothing
  /\ cell' = arg[t]
  /\ UNCHANGED <<callbacks, cursor, registered, mutex, local, inner>>

\* One iteration of the loop that registers the callbacks with the new cell,
\* which may be resolved before, between or after them.
TrackPass(t) ==
  /\ Move(t, "passing", "passing")
  /\ cursor <= Len(callbacks)
  /\ InnerAwait(cell, callbacks[cursor])
  /\ cursor' = cursor + 1
  /\ UNCHANGED <<cell, callbacks, registered, mutex, local>>

\* Faulty: the loop leaves its last callback out.
PassedButLast == cursor >= Len(callbacks)

AllPassed == cursor > Len(callbacks)

TrackUnlock(t) ==
  /\ Move(t, "passing", "notify")
  /\ AllPassed
  /\ callbacks' = <<>> /\ cursor' = 1
  /\ writer' = Nothing
  /\ UNCHANGED <<cell, registered, readers, local, inner>>

\* Faulty: nobody is notified.
NobodyWoken == {}

\* cell_filled.notify_all()
Woken == {t \in Blockers : pc[t] = "waiting"}

\* The call returns true.
TrackNotify(t) ==
  /\ pc[t] = "notify"
  /\ pc' = [u \in Threads |->
              IF u = t THEN "true" ELSE IF u \in Woken THEN "relock" ELSE pc[u]]
  /\ UNCHANGED <<outer, mutex, local, inner>>

-----------------------------------------------------------------------------
(* await()                                                                 *)

AwaitCall(t, c) ==
  /\ Move(t, "idle", "lock")
  /\ c \notin registered
  /\ registered' = registered \cup {c}
  /\ arg' = [arg EXCEPT ![t] = c]
  /\ UNCHANGED <<cell, callbacks, cursor, mutex, end, got, inner>>

AwaitLock(t) ==
  /\ Move(t, "lock", "await")
  /\ LockShared(t)
  /\ UNCHANGED <<outer, local, inner>>

AwaitInner(t) ==
  /\ Move(t, "await", "idle")
  /\ cell # Nothing
  /\ InnerAwait(cell, arg[t])
  /\ UnlockShared(t)
  /\ UNCHANGED <<outer, local>>

\* callbacks.push_back reads the end of the vector ...
AwaitPushBegin(t) ==
  /\ Move(t, "await", "push")
  /\ cell = Nothing
  /\ end' = [end EXCEPT ![t] = Len(callbacks)]
  /\ UNCHANGED <<outer, mutex, arg, got, inner>>

\* ... and constructs the callback there.  If another await() has moved the end,
\* that overwrites its callback; the end then is as it was, or is moved past a
\* slot in which nothing was constructed.
Pushed(c, at) ==
  IF at = Len(callbacks) THEN {Append(callbacks, c)}
  ELSE LET over == [callbacks EXCEPT ![at + 1] = c]
       IN  {over, Append(over, Unwritten)}

AwaitPushEnd(t) ==
  /\ Move(t, "push", "idle")
  /\ callbacks' \in Pushed(arg[t], end[t])
  /\ UnlockShared(t)
  /\ UNCHANGED <<cell, cursor, registered, local, inner>>

-----------------------------------------------------------------------------
(* block()                                                                 *)

BlockCall(t) ==
  /\ Move(t, "idle", "lock")
  /\ UNCHANGED <<outer, mutex, local, inner>>

BlockLock(t) ==
  /\ Move(t, "lock", "block")
  /\ LockShared(t)
  /\ UNCHANGED <<outer, local, inner>>

\* The test is an if, not a loop: wait() is called at most once, and releases
\* the mutex while the thread sleeps.
BlockWait(t) ==
  /\ Move(t, "block", "waiting")
  /\ cell = Nothing
  /\ UnlockShared(t)
  /\ UNCHANGED <<outer, local, inner>>

BlockSpuriousWakeup(t) ==
  /\ Move(t, "waiting", "relock")
  /\ UNCHANGED <<outer, mutex, local, inner>>

BlockRelock(t) ==
  /\ Move(t, "relock", "woken")
  /\ LockShared(t)
  /\ UNCHANGED <<outer, local, inner>>

\* cell.value() throws if there is no cell after a spurious wake-up.
BlockThrow(t) ==
  /\ Move(t, "woken", "threw")
  /\ cell = Nothing
  /\ UnlockShared(t)
  /\ UNCHANGED <<outer, local, inner>>

\* Faulty: the tracked cell is read, not waited for.
InnerRead(k) == TRUE

\* block() on cell k returns once it is resolved.
InnerBlock(k) == result[k] # Nothing

\* cell.value()->block(), with the mutex still held, however long that takes.
BlockInner(t) ==
  /\ \/ Move(t, "block", "returned")
     \/ Move(t, "woken", "returned")
  /\ cell # Nothing /\ InnerBlock(cell)
  /\ got' = [got EXCEPT ![t] = result[cell]]
  /\ UnlockShared(t)
  /\ UNCHANGED <<outer, arg, end, inner>>

-----------------------------------------------------------------------------
Track(t) == \/ TrackLock(t) \/ TrackRejected(t) \/ TrackFill(t)
            \/ TrackPass(t) \/ TrackUnlock(t) \/ TrackNotify(t)

Await(t) == AwaitLock(t) \/ AwaitInner(t) \/ AwaitPushBegin(t) \/ AwaitPushEnd(t)

Block(t) == \/ BlockLock(t) \/ BlockWait(t) \/ BlockRelock(t)
            \/ BlockThrow(t) \/ BlockInner(t)

Returned(t) == pc[t] \in {"idle", "true", "false", "returned"}

InCall(t) == ~Returned(t) /\ pc[t] # "threw"

\* Nobody can go on but by a call that nobody has to make: a thread may block on a
\* cell that is never tracked or never resolved, and while it does the latter it
\* has the mutex that another call of track() waits for.
AtRest ==
  /\ \A t \in Awaiters : ~InCall(t)
  /\ \A t \in Trackers : InCall(t) => pc[t] = "lock" /\ readers # {}
  /\ UNCHANGED vars

Next ==
  \/ \E t \in Trackers : (\E k \in Cells : TrackCall(t, k)) \/ Track(t)
  \/ \E t \in Awaiters : (\E c \in Callbacks : AwaitCall(t, c)) \/ Await(t)
  \/ \E t \in Blockers : BlockCall(t) \/ Block(t) \/ BlockSpuriousWakeup(t)
  \/ \E k \in Cells : \/ \E r \in Results : ResolveCell(k, r)
                      \/ \E c \in Callbacks : HandOver(k, c)
  \/ AtRest

Safety == Init /\ [][Next]_vars

\* A thread inside a call goes on, and a resolved cell hands its callbacks over;
\* nobody has to call anything, or to resolve a cell.
Spec ==
  /\ Safety
  /\ \A t \in Trackers : WF_vars(Track(t))
  /\ \A t \in Awaiters : WF_vars(Await(t))
  /\ \A t \in Blockers : WF_vars(Block(t))
  /\ \A k \in Cells, c \in Callbacks : WF_vars(HandOver(k, c))

-----------------------------------------------------------------------------
(* Properties                                                              *)

\* The type of the state of TrackingOnceCell.
TypeOK ==
  /\ cell \in Cells \cup {Nothing}
  /\ callbacks \in Seq(Callbacks \cup {Unwritten})
  /\ cursor \in 1 .. Len(callbacks) + 1
  /\ writer \in Trackers \cup {Nothing}
  /\ readers \subseteq Awaiters \cup Blockers
  /\ pc \in [Threads -> {"idle", "lock", "locked", "passing", "notify", "true",
                         "false", "await", "push", "block", "waiting", "relock",
                         "woken", "returned", "threw"}]
  /\ arg \in [Trackers \cup Awaiters -> Cells \cup Callbacks \cup {Nothing}]
  /\ end \in [Awaiters -> Nat]
  /\ \A t \in Blockers : got[t] \in IF pc[t] = "returned" THEN Results ELSE {Nothing}
  /\ registered \subseteq Callbacks
  /\ result \in [Cells -> Results \cup {Nothing}]
  /\ pending \in [Cells -> SUBSET (Callbacks \cup {Unwritten})]
  /\ jobs \in Seq([callback : Callbacks \cup {Unwritten}, result : Results])

\* What read() returns.
read == IF cell = Nothing THEN Nothing ELSE result[cell]

Cell == INSTANCE OnceCell WITH
          NoResult <- Nothing,
          result   <- read,
          pending  <- {callbacks[i] : i \in cursor .. Len(callbacks)}
                        \cup (IF cell = Nothing THEN {} ELSE pending[cell])

\* A TrackingOnceCell is to those who await it the OnceCell that it tracks, however
\* track() races with await() and with the resolution of that cell, and whether it
\* is called once or more: resolved once, each callback handed over once, with the
\* result of the one cell it tracks, and in the end.
ImplementsOnceCell == Cell!Spec

\* Once the tracked cell is resolved nobody is held up any more: neither a thread
\* that blocked before there was a cell, nor one whose track(), await() or block()
\* waits for the mutex, which a block() keeps while it blocks on the tracked cell
\* (tracking_once_cell.h:112).  They return: with a cell to read, block() does not
\* throw.
CallsReturn ==
  \A t \in Threads : (read # Nothing /\ InCall(t)) ~> Returned(t)
=============================================================================
