----------------------------- MODULE PollThread -----------------------------
(***************************************************************************)
(* Scheduler::begin_poll (src/src/scheduler/src/scheduler.cpp) with its    *)
(* TimingWheel and poll sources: the thread that polls each source as it   *)
(* comes due, queues the jobs it returns on the pool, and schedules it     *)
(* again; and the end of it, when the Scheduler is destroyed.              *)
(*                                                                         *)
(* The sources are those of TaskFactory: Timing::PollSource, with the      *)
(* timers of TaskTimerSource::after, and IO::PollSource, with the reads of *)
(* TaskIOSource::read.  The pool runs the jobs it accepts in any order, as *)
(* Executor says.                                                          *)
(***************************************************************************)
EXTENDS TimingWheel, IOPollSource, TimingPollSource

CONSTANTS IOSource,       \* the IO::PollSource among the sources
          TimerSource,    \* the Timing::PollSource among them
          Frequency       \* poll_frequency() of each source

ASSUME PollThreadAssumption ==
  /\ Sources = {IOSource, TimerSource} /\ IOSource # TimerSource
  /\ Frequency \in [Sources -> Nat]
  /\ Reads \cap Timers = {}

VARIABLES pc,             \* where the poll thread is
          ready_polls,    \* the sources advance() returned and not polled yet
          polled,         \* the source whose jobs are queued, not scheduled yet
          stop_requested,
          completed,      \* the timers whose task is resolved
          jobs,           \* the reads and timers whose jobs the pool has accepted
          pool            \* the WorkerPool: running, or destroyed

threadVars == <<pc, ready_polls, polled, stop_requested>>

\* What the users of the sources see.
sourceVars == <<ioVars, timerVars, completed>>

vars == <<wheelVars, sourceVars, threadVars, jobs, pool>>

\* begin_poll schedules all sources before it enters the loop.
Init ==
  /\ WheelInit /\ IOInit /\ TimersInit /\ completed = {}
  /\ pc = "start"
  /\ ready_polls = Sources /\ polled = {}
  /\ stop_requested = FALSE
  /\ jobs = {} /\ pool = "running"

-----------------------------------------------------------------------------
ScheduleFirst(s) ==
  /\ pc = "start" /\ s \in ready_polls
  /\ ScheduleIn(0, s)
  /\ ready_polls' = ready_polls \ {s}
  /\ UNCHANGED <<pc, polled, stop_requested, sourceVars, jobs, pool>>

\* All ready polls are done, or all sources scheduled for the first time.
RoundOver == pc \in {"start", "loop"} /\ ready_polls = {} /\ polled = {}

\* Until a tick has passed, advance() returns nothing and changes nothing.
Advance ==
  /\ RoundOver /\ ~stop_requested
  /\ ready_polls' = Resolved
  /\ AdvanceWheel
  /\ pc' = "loop"
  /\ UNCHANGED <<sourceVars, polled, stop_requested, jobs, pool>>

Exit ==
  /\ RoundOver /\ stop_requested
  /\ pc' = "exited"
  /\ UNCHANGED <<wheelVars, sourceVars, ready_polls, polled, stop_requested, jobs, pool>>

\* poll() the next source, and queue the jobs it returns.
Poll(s) ==
  /\ pc = "loop" /\ polled = {} /\ s \in ready_polls
  /\ ready_polls' = ready_polls \ {s}
  /\ polled' = {s}
  /\ \/ /\ s = IOSource
        /\ jobs' = jobs \cup PollReads /\ EvictCompleted
        /\ UNCHANGED <<timerVars, completed>>
     \/ /\ s = TimerSource
        /\ \E S \in SUBSET waiting : Expire(S) /\ jobs' = jobs \cup S
        /\ UNCHANGED <<ioVars, completed>>
  /\ UNCHANGED <<wheelVars, pc, stop_requested, pool>>

\* Faulty: a source that was polled is not scheduled again.
RescheduleNever(s) ==
  /\ pc = "loop" /\ s \in polled
  /\ polled' = {}
  /\ UNCHANGED <<wheelVars, pc, ready_polls, stop_requested, sourceVars, jobs, pool>>

Reschedule(s) ==
  /\ pc = "loop" /\ s \in polled
  /\ ScheduleIn(Frequency[s], s)
  /\ polled' = {}
  /\ UNCHANGED <<pc, ready_polls, stop_requested, sourceVars, jobs, pool>>

-----------------------------------------------------------------------------
\* The users of the scheduler start reads, which end, and timers; its workers run
\* the jobs, which resolve the tasks.

UseIO(r) ==
  /\ pool = "running"
  /\ StartRead(r) \/ ListRead(r)
  /\ UNCHANGED <<wheelVars, timerVars, completed, threadVars, jobs, pool>>

ReadEnds(r) ==
  EndRead(r) /\ UNCHANGED <<wheelVars, timerVars, completed, threadVars, jobs, pool>>

RunReadJob(r) ==
  /\ pool = "running" /\ r \in jobs
  /\ jobs' = jobs \ {r}
  /\ ResolveRead(r)
  /\ UNCHANGED <<wheelVars, timerVars, completed, threadVars, pool>>

\* TaskTimerSource::after
After(t) ==
  /\ pool = "running"
  /\ Schedule(t)
  /\ UNCHANGED <<wheelVars, ioVars, completed, threadVars, jobs, pool>>

\* The job that after() gives the timer completes its value source.
RunTimerJob(t) ==
  /\ pool = "running" /\ t \in jobs
  /\ jobs' = jobs \ {t}
  /\ completed' = completed \cup {t}
  /\ UNCHANGED <<wheelVars, ioVars, timerVars, threadVars, pool>>

\* Only the poll thread reads the clock.
TimePasses ==
  /\ pc # "exited" /\ PassTime
  /\ UNCHANGED <<sourceVars, threadVars, jobs, pool>>

-----------------------------------------------------------------------------
\* ~Scheduler(): the members go in reverse order, poll_thread first, which is
\* asked to stop and joined; then worker_pool, with the jobs left in it.

RequestStop ==
  /\ ~stop_requested
  /\ stop_requested' = TRUE
  /\ UNCHANGED <<wheelVars, sourceVars, pc, ready_polls, polled, jobs, pool>>

DestroyPool ==
  /\ pc = "exited" /\ pool = "running"
  /\ pool' = "destroyed"
  /\ jobs' = {}
  /\ UNCHANGED <<wheelVars, sourceVars, threadVars>>

AtRest == pool = "destroyed" /\ UNCHANGED vars

Thread ==
  \/ Advance \/ Exit
  \/ \E s \in Sources : ScheduleFirst(s) \/ Poll(s) \/ Reschedule(s)

Next ==
  \/ Thread \/ TimePasses \/ RequestStop \/ DestroyPool \/ AtRest
  \/ \E r \in Reads : UseIO(r) \/ ReadEnds(r) \/ RunReadJob(r)
  \/ \E t \in Timers : After(t) \/ RunTimerJob(t)

PollExpired(t) == Poll(TimerSource) /\ t \in expired'

\* Threads run, a call of read() that has begun ends, and time passes; a timer that
\* is polled again and again expires, as LateByLessThanCapacity of the wheels says.
\* Nobody has to call read() or after() or to destroy the scheduler, and a read may
\* take for ever.
Fairness ==
  /\ WF_vars(Thread) /\ WF_vars(TimePasses)
  /\ \A r \in Reads : WF_vars(r \in starting /\ UseIO(r)) /\ WF_vars(RunReadJob(r))
  /\ \A t \in Timers : SF_vars(PollExpired(t)) /\ WF_vars(RunTimerJob(t))

Safety == Init /\ [][Next]_vars

Spec == Safety /\ Fairness

-----------------------------------------------------------------------------
\* The type of the state of PollThread, its wheel and its I/O source.
TypeOK ==
  /\ WheelTypeOK /\ IOTypeOK
  /\ pc \in {"start", "loop", "exited"}
  /\ ready_polls \subseteq Sources /\ polled \subseteq Sources
  /\ stop_requested \in BOOLEAN
  /\ waiting \subseteq Timers /\ expired \subseteq Timers /\ completed \subseteq Timers
  /\ jobs \subseteq Reads \cup Timers /\ pool \in {"running", "destroyed"}

\* In how many of these places x is.
Count(x, places) == Cardinality({i \in DOMAIN places : x \in places[i]})

\* No poll source is lost or scheduled twice: each is in one bucket of the wheel,
\* or in the hands of the thread that moves it out and in again (begin_poll).
SourcesConserved ==
  \A s \in Sources :
    Cardinality({b \in DOMAIN wheel : s \in wheel[b]})
      + Count(s, <<ready_polls, polled>>) = 1

\* The wheel never leaves a source behind: however late advance() is called, and
\* across the end of the wheel, a source is never further ahead than the ticks
\* of its poll_frequency().
NoSourceSkipped ==
  \A s \in Sources, b \in DOMAIN wheel : s \in wheel[b] =>
    (b + NumTicks - current_wheel_index) % NumTicks <= Frequency[s] \div TickSize

\* A read that was started and a timer that was set are handed to the pool once:
\* each is in the hands of its source, in a job, or its task is resolved; unless
\* the job went with the pool.
TasksConserved ==
  /\ \A r \in Reads :
       Count(r, <<starting, in_flight_requests, jobs, {q \in Reads : outcome[q] # "pending"}>>)
         \in IF status[r] = "none" THEN {0}
             ELSE IF pool = "running" THEN {1} ELSE {0, 1}
  /\ \A t \in Timers :
       Count(t, <<waiting, jobs, completed>>)
         \in IF t \notin waiting \cup expired THEN {0}
             ELSE IF pool = "running" THEN {1} ELSE {0, 1}

\* Every source is polled again and again, until the scheduler is destroyed.
SourcesPolled == \A s \in Sources : <>stop_requested \/ []<>(s \in polled)

\* The task of a read that is over is resolved, also if the read was over before
\* it was listed, unless the scheduler is destroyed first.
ReadsResolve ==
  \A r \in Reads :
    status[r] \notin {"none", "EINPROGRESS"}
      ~> outcome[r] # "pending" \/ stop_requested

\* The task of a timer is resolved in the end, unless the scheduler is destroyed
\* first (the comment on TaskTimerSource::after).
TimersResolve ==
  \A t \in Timers : t \in waiting ~> t \in completed \/ stop_requested
=============================================================================
