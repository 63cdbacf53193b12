----------------------------- MODULE TimingWheel -----------------------------
(***************************************************************************)
(* Timing::TimingWheel (src/src/timing/include/timing/structures/          *)
(* timing_wheel.h): the single wheel by which the poll thread decides when *)
(* each poll source is due.  Only that thread uses it; PollThread composes *)
(* its operations.                                                         *)
(*                                                                         *)
(* Time is kept relative to last_advancement_time, and the index of the    *)
(* wheel modulo num_ticks, the only way the code uses them.                *)
(***************************************************************************)
EXTENDS Integers

CONSTANTS TickSize,      \* wheel_tick_size
          NumTicks,      \* num_ticks
          MaxLag,        \* bounds the time between two calls of advance()
          Sources        \* the timers of this wheel: the poll sources

ASSUME TimingWheelAssumption ==
  /\ TickSize \in Nat \ {0} /\ NumTicks \in Nat \ {0}
  /\ MaxLag \in Nat /\ MaxLag >= TickSize

VARIABLES wheel,                 \* the timers in each bucket
          current_wheel_index,
          elapsed                \* now - last_advancement_time

wheelVars == <<wheel, current_wheel_index, elapsed>>

WheelInit ==
  /\ wheel = [b \in 0 .. NumTicks - 1 |-> {}]
  /\ current_wheel_index = 0
  /\ elapsed = 0

\* Faulty: the index is not wrapped.
WheelIndexUnwrapped(duration) == current_wheel_index + duration \div TickSize

WheelIndex(duration) == (current_wheel_index + duration \div TickSize) % NumTicks

PassTime ==
  /\ elapsed < MaxLag
  /\ elapsed' = elapsed + 1
  /\ UNCHANGED <<wheel, current_wheel_index>>

\* The duration counts from the last advancement.
ScheduleIn(duration, source) ==
  /\ wheel' = [wheel EXCEPT ![WheelIndex(duration)] = @ \cup {source}]
  /\ UNCHANGED <<current_wheel_index, elapsed>>

\* Faulty: the last of the completed buckets is left out.
CompletedButLast ==
  {(current_wheel_index + k) % NumTicks : k \in 0 .. (elapsed \div TickSize) - 2}

\* The buckets that the wheel has left behind; all of them, if it has gone all
\* the way round.
Completed ==
  {(current_wheel_index + k) % NumTicks : k \in 0 .. (elapsed \div TickSize) - 1}

Resolved == UNION {wheel[b] : b \in Completed}

\* Faulty: the buckets are not cleared.
AdvanceWheelUncleared ==
  /\ elapsed >= TickSize
  /\ current_wheel_index' = WheelIndex(elapsed)
  /\ elapsed' = 0
  /\ UNCHANGED wheel

AdvanceWheel ==
  /\ elapsed >= TickSize
  /\ wheel' = [b \in DOMAIN wheel |-> IF b \in Completed THEN {} ELSE wheel[b]]
  /\ current_wheel_index' = WheelIndex(elapsed)
  /\ elapsed' = 0

WheelTypeOK ==
  /\ wheel \in [0 .. NumTicks - 1 -> SUBSET Sources]
  /\ current_wheel_index \in 0 .. NumTicks - 1
  /\ elapsed \in 0 .. MaxLag
=============================================================================
