-------------------------- MODULE TimingPollSource --------------------------
(***************************************************************************)
(* Timing::PollSource (src/src/timing/src/timing_poll_source.cpp) as its   *)
(* users see it: a store of timers, each of which poll() returns once.     *)
(* Both calls take the spin lock of the source, and are one step each.     *)
(* HierarchicalTimingWheel, which it keeps the timers in, implements this  *)
(* specification; PollThread polls it.  When a timer expires is not said.  *)
(***************************************************************************)
EXTENDS Naturals

CONSTANT Timers      \* each scheduled at most once

VARIABLES waiting,   \* the timers scheduled and not returned yet
          expired    \* the timers that poll() has returned

timerVars == <<waiting, expired>>

TimersInit == waiting = {} /\ expired = {}

Schedule(t) ==
  /\ t \notin waiting \cup expired
  /\ waiting' = waiting \cup {t}
  /\ UNCHANGED expired

\* poll() returns the timers in S.
Expire(S) ==
  /\ S \subseteq waiting
  /\ waiting' = waiting \ S
  /\ expired' = expired \cup S

TimersNext ==
  \/ \E t \in Timers : Schedule(t)
  \/ \E S \in SUBSET Timers : Expire(S)

TimersSpec == TimersInit /\ [][TimersNext]_timerVars
=============================================================================
