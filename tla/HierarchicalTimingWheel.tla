----------------------- MODULE HierarchicalTimingWheel -----------------------
(***************************************************************************)
(* Timing::HierarchicalTimingWheel (src/src/timing/include/timing/         *)
(* structures/timing_wheel_hierarchical.h), which holds the timers of      *)
(* TaskTimerSource.  Timing::PollSource calls schedule() and advance()     *)
(* under its spin lock, so each is one step; time passes in between, and   *)
(* the poll thread may be late with advance().                             *)
(*                                                                         *)
(* Wheels are numbered from 1, buckets from 0.  Time is counted in units   *)
(* of which TickSize make a tick, from the construction of the wheel.      *)
(***************************************************************************)
EXTENDS Naturals, Sequences

CONSTANTS TickSize,
          WheelSizes,    \* the number of buckets of each wheel, the lowest first
          Timers,        \* each scheduled at most once
          Durations,     \* the durations that timers are scheduled for
          Width,         \* the width in bits of size_t
          MaxTime,       \* bounds the time a behaviour runs for
          MaxLag,        \* bounds the time between two calls of advance()
          Never          \* no time at all

Wheels == 1 .. Len(WheelSizes)

TicksPerBucket[w \in Wheels] ==
  IF w = 1 THEN 1 ELSE WheelSizes[w - 1] * TicksPerBucket[w - 1]

\* What the wheels below w can hold together, in ticks ("holds total of").
TicksBelow[w \in 1 .. Len(WheelSizes) + 1] ==
  IF w = 1 THEN 0 ELSE TicksBelow[w - 1] + WheelSizes[w - 1] * TicksPerBucket[w - 1]

Capacity == TicksBelow[Len(WheelSizes) + 1]

\* What is known of a timer that was asked for: its length in ticks, the tick it is
\* due in, its wheel, and the ticks that the wheels below had turned by then.
Asked == [length : Nat, due : Nat, wheel : Wheels, turned : Nat]

ASSUME WheelAssumption ==
  /\ TickSize \in Nat \ {0} /\ MaxTime \in Nat /\ MaxLag \in Nat
  /\ WheelSizes \in Seq(Nat \ {0}) /\ WheelSizes # <<>>
  /\ 2 ^ Width \in Nat /\ 2 ^ Width > Capacity
  /\ Durations \subseteq 0 .. 2 ^ Width - 1
  /\ Never \notin Nat \cup Asked

VARIABLES now,                     \* system_clock::now()
          last_advancement_time,
          index,                   \* curr_bucket_index of each wheel
          buckets,                 \* the timer entries in each bucket of each wheel
          completed_buckets,       \* how many are left to the advance() in progress
          ticks,                   \* how many buckets of the lowest wheel are completed
          asked,                   \* what was asked for, per timer
          resolved                 \* the tick in which advance() returned each timer

clock == <<now, last_advancement_time>>
history == <<ticks, asked, resolved>>

vars == <<clock, index, buckets, completed_buckets, history>>

Init ==
  /\ now = 0 /\ last_advancement_time = 0 /\ ticks = 0
  /\ index = [w \in Wheels |-> 0]
  /\ buckets = [w \in Wheels |-> [b \in 0 .. WheelSizes[w] - 1 |-> {}]]
  /\ completed_buckets = 0
  /\ asked = [t \in Timers |-> Never]
  /\ resolved = [t \in Timers |-> Never]

\* size_t arithmetic
Minus(a, b) == (a + 2 ^ Width - b) % 2 ^ Width

\* Calls do not overlap, and advance() reads the clock once: the time that passes
\* while one is in progress may as well pass after it.
Idle == completed_buckets = 0

PassTime ==
  /\ Idle /\ now < MaxTime /\ now < last_advancement_time + MaxLag
  /\ now' = now + 1
  /\ UNCHANGED <<last_advancement_time, index, buckets, completed_buckets, history>>

-----------------------------------------------------------------------------
(* schedule()                                                              *)

\* determine_timer_wheel: the ticks left to fit as the loop reaches wheel w,
\* and the wheel at which it stops.
TicksToFit(n) ==
  LET fit[w \in Wheels] ==
        IF w = 1 THEN n
        ELSE Minus(fit[w - 1], WheelSizes[w - 1] * TicksPerBucket[w - 1])
  IN  fit

\* Faulty: a wheel is thought to hold one tick more than it does.
CanFitOneMore(n, w) ==
  \/ w = Len(WheelSizes)
  \/ index[w] + (TicksToFit(n)[w] \div TicksPerBucket[w]) <= WheelSizes[w]

CanFit(n, w) ==
  \/ w = Len(WheelSizes)
  \/ index[w] + (TicksToFit(n)[w] \div TicksPerBucket[w]) < WheelSizes[w]

TimerWheel(n) ==
  CHOOSE w \in Wheels : CanFit(n, w) /\ \A v \in 1 .. w - 1 : ~CanFit(n, v)

Schedule(t, duration) ==
  LET n == duration \div TickSize
      w == TimerWheel(n)
      left == TicksToFit(n)[w]
      b == (index[w] + left \div TicksPerBucket[w]) % WheelSizes[w]
      entry == [timer |-> t, offset |-> left % TicksPerBucket[w]]
  IN  /\ Idle /\ asked[t] = Never
      /\ buckets' = [buckets EXCEPT ![w][b] = @ \cup {entry}]
      /\ asked' = [asked EXCEPT ![t] =
                     [length |-> n, due |-> ticks + n, wheel |-> w,
                      turned |-> ticks % TicksPerBucket[w]]]
      /\ UNCHANGED <<clock, index, completed_buckets, ticks, resolved>>

-----------------------------------------------------------------------------
(* advance()                                                               *)

\* Faulty: a part of a tick counts as one.
ElapsedRoundedUp == (now - last_advancement_time + TickSize - 1) \div TickSize

Elapsed == (now - last_advancement_time) \div TickSize

\* Nothing happens before a tick has passed since the last advancement; the
\* part of a tick beyond the ticks that have passed is forgotten.
Advance ==
  /\ Idle /\ now - last_advancement_time >= TickSize
  /\ completed_buckets' = Elapsed
  /\ last_advancement_time' = now
  /\ UNCHANGED <<now, index, buckets, history>>

\* Faulty: only the second wheel is ever loaded from.
TurnsTwoWheels(w) == w <= 2 /\ \A v \in 1 .. w - 1 : index[v] = WheelSizes[v] - 1

\* Wheel w turns with the lowest one when all wheels below it wrap around;
\* load_timers_from_wheel then empties its current bucket into the wheel below.
Turns(w) == \A v \in 1 .. w - 1 : index[v] = WheelSizes[v] - 1

\* Faulty: a bucket is not cleared.
Uncleared(w, b) == buckets[w][b]

\* What stays in bucket b of wheel w.
Kept(w, b) == IF Turns(w) /\ b = index[w] THEN {} ELSE buckets[w][b]

\* Faulty: a loaded entry keeps the offset it had in the wheel above.
LoadedUnchanged(w, b) ==
  {e \in buckets[w + 1][index[w + 1]] : e.offset \div TicksPerBucket[w] = b}

\* The entries that bucket b of wheel w gets from the wheel above, which turns:
\* the index of w is 0 by then.
Loaded(w, b) ==
  {[timer |-> e.timer, offset |-> Minus(e.offset, b * TicksPerBucket[w])] :
     e \in {x \in buckets[w + 1][index[w + 1]] :
              (x.offset \div TicksPerBucket[w]) % WheelSizes[w] = b}}

\* One iteration of the loop of advance(): complete a bucket of the lowest wheel.
Tick ==
  /\ ~Idle
  /\ completed_buckets' = completed_buckets - 1
  /\ index' = [w \in Wheels |->
                 IF Turns(w) THEN (index[w] + 1) % WheelSizes[w] ELSE index[w]]
  /\ buckets' = [w \in Wheels |-> [b \in 0 .. WheelSizes[w] - 1 |->
                   Kept(w, b) \cup
                   (IF w < Len(WheelSizes) /\ Turns(w + 1) THEN Loaded(w, b) ELSE {})]]
  /\ ticks' = ticks + 1
  /\ resolved' = [t \in Timers |->
       IF \E e \in buckets[1][index[1]] : e.timer = t THEN ticks' ELSE resolved[t]]
  /\ UNCHANGED <<clock, asked>>

\* The bound on time is reached.
Stop == Idle /\ now = MaxTime /\ UNCHANGED vars

Next ==
  \/ PassTime \/ Advance \/ Tick \/ Stop
  \/ \E t \in Timers, d \in Durations : Schedule(t, d)

Spec == Init /\ [][Next]_vars

-----------------------------------------------------------------------------
Scheduled == {t \in Timers : asked[t] # Never}

Pending == {t \in Scheduled : resolved[t] = Never}

\* The type of the state: an offset lies within its bucket.
TypeOK ==
  /\ now \in 0 .. MaxTime /\ last_advancement_time \in 0 .. now
  /\ completed_buckets \in 0 .. MaxLag /\ ticks \in 0 .. MaxTime
  /\ \A w \in Wheels :
       /\ index[w] \in 0 .. WheelSizes[w] - 1
       /\ \A b \in 0 .. WheelSizes[w] - 1 :
            buckets[w][b] \subseteq [timer : Timers, offset : 0 .. TicksPerBucket[w] - 1]
  /\ \A t \in Timers : resolved[t] # Never => asked[t] # Never

\* The wheels are a clock.  They turn as the digits of the number of ticks do; and
\* these ticks are never ahead of the time, and never behind by half of it or more,
\* though each advance() forgets a part of a tick (last_advancement_time = now).
WheelsKeepTime ==
  LET counted == ticks + completed_buckets IN
    /\ \A w \in Wheels : index[w] = (ticks \div TicksPerBucket[w]) % WheelSizes[w]
    /\ counted * TickSize <= last_advancement_time
    /\ last_advancement_time <= counted * (2 * TickSize - 1)

Holds(t, w, b) == \E e \in buckets[w][b] : e.timer = t

Waiting == {t \in Timers : \E w \in Wheels : \E b \in 0 .. WheelSizes[w] - 1 : Holds(t, w, b)}

Store == INSTANCE TimingPollSource WITH
           waiting <- Waiting, expired <- {t \in Timers : resolved[t] # Never}

\* To the poll thread the wheels are a store of timers, whatever bucket they are in
\* and however they move down: none is lost on the way or returned twice.
ImplementsPollSource == Store!TimersSpec

\* The timer is at least as long as the wheels below its own hold, and shorter
\* than all wheels hold together.
Fits(t) == asked[t].length \in TicksBelow[asked[t].wheel] .. Capacity - 1

\* How early a timer may be, against TimersNeverEarly: one that fits is resolved too
\* early by the ticks that the wheels below its own had turned when it was
\* scheduled, and by no more; in the very tick it is due if they were at their
\* start, through any number of wheels.
EarlyByTicksTurned ==
  \A t \in Scheduled : Fits(t) =>
    LET tick == asked[t].due - asked[t].turned
    IN  IF t \in Pending THEN ticks <= tick ELSE resolved[t] = tick + 1

\* Whatever bucket a timer ends up in, and though the ticks to fit may wrap around,
\* it is late by less than the wheels hold together.
LateByLessThanCapacity ==
  \A t \in Pending : ticks < asked[t].due + Capacity

\* A timer that fits in the wheels is resolved by the advance() that completes
\* the bucket it is due in (comment on determine_timer_wheel: a timer that is
\* due after the lowest wheel wraps around moves to the next wheel).
TimersNeverLate == \A t \in Pending : ticks <= asked[t].due

\* A timer is resolved after its duration ("creates a new task that is resolved
\* after the specified duration", task_timer_source.h:19): not before as many ticks
\* have passed, counted from the last advancement before schedule().
TimersNeverEarly == \A t \in Scheduled \ Pending : resolved[t] >= asked[t].due
=============================================================================
