-------------------------- MODULE PollThreadProofs --------------------------
(***************************************************************************)
(* Proofs about PollThread, for any wheel, frequencies, reads and timers.  *)
(*                                                                         *)
(* The invariants count; what is inductive says in which place each source *)
(* and each task is (SourceInv, ReadInv, TimerInv).                        *)
(***************************************************************************)
EXTENDS PollThread, FiniteSetTheorems, TLAPS

-----------------------------------------------------------------------------
(* Division with remainder.                                                *)

\* a \div n and a % n are the quotient and the remainder of a.
LEMMA DivMod ==
  ASSUME NEW a \in Int, NEW n \in Nat \ {0}
  PROVE  a \div n \in Int /\ a % n \in 0 .. n - 1 /\ a = n * (a \div n) + (a % n)
BY Z3

\* A positive multiple of n is at least n, and a negative one at most -n.
LEMMA Multiple ==
  ASSUME NEW q \in Int, NEW n \in Nat \ {0}
  PROVE  (q >= 1 => n * q >= n) /\ (q <= -1 => n * q <= -n)
<1>1. ASSUME q >= 1 PROVE n * q >= n
  BY <1>1, Z3
<1>2. ASSUME q <= -1 PROVE n * q <= -n
  BY <1>2, Z3
<1>3. QED
  BY <1>1, <1>2

\* ... and they are the only ones.
LEMMA DivModUnique ==
  ASSUME NEW a \in Int, NEW n \in Nat \ {0}, NEW q \in Int, NEW r \in 0 .. n - 1,
         a = n * q + r
  PROVE  a \div n = q /\ a % n = r
<1> DEFINE d == a \div n
<1> DEFINE m == a % n
<1>1. d \in Int /\ m \in 0 .. n - 1 /\ a = n * d + m
  BY DivMod
<1> HIDE DEF d, m
<1>2. n * (d - q) = r - m /\ d - q \in Int
  BY <1>1
<1>3. ~(d - q >= 1) /\ ~(d - q <= -1)
  BY <1>1, <1>2, Multiple
<1>4. d = q
  BY <1>1, <1>3
<1>5. m = r
  BY <1>1, <1>4
<1>6. QED
  BY <1>4, <1>5 DEF d, m

\* Remainders may be taken before an addition.
LEMMA ModSum ==
  ASSUME NEW a \in Int, NEW b \in Int, NEW n \in Nat \ {0}
  PROVE  ((a % n) + b) % n = (a + b) % n
<1> DEFINE d == a \div n
<1> DEFINE m == a % n
<1> DEFINE e == (m + b) \div n
<1> DEFINE r == (m + b) % n
<1>1. d \in Int /\ m \in 0 .. n - 1 /\ a = n * d + m
  BY DivMod
<1>2. e \in Int /\ r \in 0 .. n - 1 /\ m + b = n * e + r
  BY <1>1, DivMod
<1> HIDE DEF d, m, e, r
<1>3. a + b = n * (d + e) + r /\ a + b \in Int /\ d + e \in Int
  BY <1>1, <1>2
<1>4. (a + b) % n = r
  <2> DEFINE s == a + b
  <2> DEFINE t == d + e
  <2> HIDE DEF s, t
  <2>1. s \in Int /\ t \in Int /\ s = n * t + r
    BY <1>3 DEF s, t
  <2>2. s % n = r
    BY <1>2, <2>1, DivModUnique
  <2>3. QED
    BY <2>2 DEF s
<1>5. QED
  BY <1>4 DEF r, m

\* A natural number is at least its remainder, and its quotient is natural too.
LEMMA ModAtMost ==
  ASSUME NEW a \in Nat, NEW n \in Nat \ {0}
  PROVE  a \div n \in Nat /\ a % n <= a
<1> DEFINE d == a \div n
<1> DEFINE m == a % n
<1>1. d \in Int /\ m \in 0 .. n - 1 /\ a = n * d + m
  BY DivMod
<1> HIDE DEF d, m
<1>2. ~(d <= -1)
  BY <1>1, Multiple
<1>3. d \in Nat
  BY <1>1, <1>2
<1>4. n * d >= 0
  BY <1>3, Z3
<1>5. m <= a
  BY <1>1, <1>4
<1>6. QED
  BY <1>3, <1>5 DEF d, m

\* A number below n is its own remainder.
LEMMA ModSmall ==
  ASSUME NEW n \in Nat \ {0}, NEW a \in 0 .. n - 1
  PROVE  a % n = a /\ a \div n = 0
<1>1. a = n * 0 + a
  OBVIOUS
<1>2. QED
  BY <1>1, DivModUnique

\* Adding n changes no remainder.
LEMMA ModAddOnce ==
  ASSUME NEW a \in Int, NEW n \in Nat \ {0}
  PROVE  (a + n) % n = a % n
<1> DEFINE d == a \div n
<1> DEFINE m == a % n
<1>1. d \in Int /\ m \in 0 .. n - 1 /\ a = n * d + m
  BY DivMod
<1> HIDE DEF d, m
<1>2. PICK e \in Int : e = d + 1
  BY <1>1
<1>3. PICK b \in Int : b = a + n
  OBVIOUS
<1>4. b = n * e + m
  BY <1>1, <1>2, <1>3
<1>5. b % n = m
  BY <1>1, <1>4, DivModUnique
<1>6. QED
  BY <1>3, <1>5 DEF m

\* Quotients grow with the number that is divided.
LEMMA DivAtMost ==
  ASSUME NEW a \in Nat, NEW b \in Nat, a <= b, NEW n \in Nat \ {0}
  PROVE  /\ a \div n \in Nat /\ b \div n \in Nat
         /\ a \div n <= b \div n
<1>1. a \div n \in Nat /\ b \div n \in Nat
  BY ModAtMost
<1>2. PICK d \in Nat, m \in 0 .. n - 1 : d = a \div n /\ a = n * d + m
  BY <1>1, DivMod
<1>3. PICK e \in Nat, r \in 0 .. n - 1 : e = b \div n /\ b = n * e + r
  BY <1>1, DivMod
<1>4. PICK q \in Int : q = d - e
  OBVIOUS
<1>5. n * q = n * d - n * e
  BY <1>4
<1>6. ~(q >= 1)
  BY <1>2, <1>3, <1>4, <1>5, Multiple
<1>7. QED
  BY <1>1, <1>2, <1>3, <1>4, <1>6

-----------------------------------------------------------------------------
\* The index into the wheel is a bucket of it.
LEMMA WheelIndexType ==
  ASSUME WheelTypeOK, NEW d \in Nat
  PROVE  WheelIndex(d) \in 0 .. NumTicks - 1
<1>1. d \div TickSize \in Int
  BY TimingWheelAssumption, DivMod
<1>2. current_wheel_index + d \div TickSize \in Int
  BY <1>1 DEF WheelTypeOK
<1>3. QED
  BY <1>2, TimingWheelAssumption, DivMod DEF WheelIndex

\* Scheduling a source keeps the type of the wheel.
LEMMA ScheduleInType ==
  ASSUME WheelTypeOK, NEW d \in Nat, NEW s \in Sources, ScheduleIn(d, s)
  PROVE  WheelTypeOK'
<1>1. WheelIndex(d) \in 0 .. NumTicks - 1
  BY WheelIndexType
<1>2. wheel' = [wheel EXCEPT ![WheelIndex(d)] = @ \cup {s}]
  BY DEF ScheduleIn
<1>3. QED
  BY <1>1, <1>2 DEF ScheduleIn, WheelTypeOK

\* So does advancing the wheel, and only sources are resolved.
LEMMA AdvanceWheelType ==
  ASSUME WheelTypeOK, AdvanceWheel
  PROVE  WheelTypeOK' /\ Resolved \subseteq Sources
<1>1. WheelIndex(elapsed) \in 0 .. NumTicks - 1
  BY WheelIndexType DEF WheelTypeOK
<1>2. \A k \in 0 .. (elapsed \div TickSize) - 1 :
        (current_wheel_index + k) % NumTicks \in 0 .. NumTicks - 1
  BY TimingWheelAssumption, DivMod DEF WheelTypeOK
<1>3. Completed \subseteq 0 .. NumTicks - 1
  BY <1>2 DEF Completed
<1>4. Resolved \subseteq Sources
  BY <1>3 DEF Resolved, WheelTypeOK
<1>5. 0 \in 0 .. MaxLag
  BY TimingWheelAssumption
<1>6. QED
  BY <1>1, <1>4, <1>5 DEF AdvanceWheel, WheelTypeOK

\* The types hold of a new Scheduler.
LEMMA InitType == Init => TypeOK
<1>1. 0 \in 0 .. NumTicks - 1 /\ 0 \in 0 .. MaxLag
  BY TimingWheelAssumption
<1>2. Init => WheelTypeOK
  BY <1>1 DEF Init, WheelInit, WheelTypeOK
<1>3. Init => IOTypeOK
  BY DEF Init, IOInit, IOTypeOK
<1>4. QED
  BY <1>2, <1>3 DEF Init, TimersInit, TypeOK

\* Every step of the poll thread, of the users of the sources and of the workers
\* preserves the types.
LEMMA StepType == TypeOK /\ [Next]_vars => TypeOK'
<1> SUFFICES ASSUME TypeOK, [Next]_vars
             PROVE  TypeOK'
  OBVIOUS
<1> USE DEF sourceVars, threadVars, ioVars, timerVars, wheelVars
<1>1. ASSUME NEW s \in Sources, ScheduleFirst(s)
      PROVE  TypeOK'
  BY <1>1, ScheduleInType DEF ScheduleFirst, TypeOK, IOTypeOK
<1>2. ASSUME Advance
      PROVE  TypeOK'
  BY <1>2, AdvanceWheelType DEF Advance, TypeOK, IOTypeOK
<1>3. ASSUME Exit
      PROVE  TypeOK'
  BY <1>3 DEF Exit, TypeOK, IOTypeOK, WheelTypeOK
<1>4. ASSUME NEW s \in Sources, Poll(s)
      PROVE  TypeOK'
  BY <1>4 DEF Poll, EvictCompleted, PollReads, Expire, TypeOK, IOTypeOK, WheelTypeOK
<1>5. ASSUME NEW s \in Sources, Reschedule(s)
      PROVE  TypeOK'
  <2>1. Frequency[s] \in Nat
    BY PollThreadAssumption
  <2>2. QED
    BY <1>5, <2>1, ScheduleInType DEF Reschedule, TypeOK, IOTypeOK
<1>6. ASSUME NEW r \in Reads, UseIO(r)
      PROVE  TypeOK'
  BY <1>6 DEF UseIO, StartRead, ListRead, TypeOK, IOTypeOK, WheelTypeOK
<1>7. ASSUME NEW r \in Reads, ReadEnds(r)
      PROVE  TypeOK'
  BY <1>7 DEF ReadEnds, EndRead, TypeOK, IOTypeOK, WheelTypeOK
<1>8. ASSUME NEW r \in Reads, RunReadJob(r)
      PROVE  TypeOK'
  BY <1>8 DEF RunReadJob, ResolveRead, TypeOK, IOTypeOK, WheelTypeOK
<1>9. ASSUME NEW t \in Timers, After(t)
      PROVE  TypeOK'
  BY <1>9 DEF After, Schedule, TypeOK, IOTypeOK, WheelTypeOK
<1>10. ASSUME NEW t \in Timers, RunTimerJob(t)
      PROVE  TypeOK'
  BY <1>10 DEF RunTimerJob, TypeOK, IOTypeOK, WheelTypeOK
<1>11. ASSUME TimePasses
      PROVE  TypeOK'
  <2>1. elapsed + 1 \in 0 .. MaxLag
    BY <1>11, TimingWheelAssumption DEF TimePasses, PassTime, TypeOK, WheelTypeOK
  <2>2. QED
    BY <1>11, <2>1 DEF TimePasses, PassTime, TypeOK, IOTypeOK, WheelTypeOK
<1>12. ASSUME RequestStop \/ DestroyPool
      PROVE  TypeOK'
  BY <1>12 DEF RequestStop, DestroyPool, TypeOK, IOTypeOK, WheelTypeOK
<1>13. CASE UNCHANGED vars
  BY <1>13 DEF vars, TypeOK, IOTypeOK, WheelTypeOK
<1>14. QED
  BY <1>1, <1>2, <1>3, <1>4, <1>5, <1>6, <1>7, <1>8, <1>9, <1>10, <1>11, <1>12, <1>13
     DEF Next, Thread, AtRest

\* The state of the poll thread, of its wheel and of its sources keeps its type: the
\* index of the wheel stays within it, however late advance() is called.
THEOREM TypeCorrect == Safety => []TypeOK
BY InitType, StepType, PTL DEF Safety

-----------------------------------------------------------------------------
(* No source is left behind                                                *)

\* A bucket q ticks after bucket i is at most q ticks ahead of it.
LEMMA TicksAhead ==
  ASSUME NEW n \in Nat \ {0}, NEW i \in 0 .. n - 1, NEW q \in Nat
  PROVE  (((i + q) % n) + n - i) % n <= q
<1>1. PICK x \in Int, y \in Int : x = i + q /\ y = n - i
  OBVIOUS
<1>2. ((x % n) + y) % n = (x + y) % n /\ x % n \in Int
  <2>1. x % n \in 0 .. n - 1
    BY DivMod, Zenon
  <2>2. ((x % n) + y) % n = (x + y) % n
    BY ModSum, Zenon
  <2>3. QED
    BY <2>1, <2>2
<1>3. (x % n) + y = (x % n) + n - i /\ x + y = q + n
  BY <1>1, <1>2
<1>4. (q + n) % n = q % n /\ q % n <= q
  <2>1. q \in Int
    OBVIOUS
  <2>2. QED
    BY <2>1, ModAddOnce, ModAtMost, Zenon
<1>5. QED
  BY <1>1, <1>2, <1>3, <1>4

\* A bucket that is not among the m next ones is no further ahead m ticks later.
LEMMA StillAhead ==
  ASSUME NEW n \in Nat \ {0}, NEW i \in 0 .. n - 1, NEW b \in 0 .. n - 1, NEW m \in Nat,
         \A k \in 0 .. m - 1 : (i + k) % n # b
  PROVE  (b + n - ((i + m) % n)) % n <= (b + n - i) % n
<1>1. PICK x \in Int, y \in Int : x = b + n - i /\ y = i + m
  OBVIOUS
<1> DEFINE d == x % n
<1> DEFINE j == y % n
<1>2. PICK f \in Int : d \in 0 .. n - 1 /\ x = n * f + d
  BY DivMod
<1>3. PICK e \in Int : j \in 0 .. n - 1 /\ y = n * e + j
  BY DivMod
<1>a. (i + d) % n = b
  <2>1. (d + i) % n = (x + i) % n
    <3>1. i \in Int
      OBVIOUS
    <3>2. QED
      BY <3>1, ModSum, Zenon
  <2>2. d + i = i + d /\ x + i = b + n
    BY <1>1, <1>2
  <2>3. (b + n) % n = b % n /\ b % n = b
    <3>1. b \in Int
      OBVIOUS
    <3>2. QED
      BY <3>1, ModAddOnce, ModSmall, Zenon
  <2>4. QED
    BY <2>1, <2>2, <2>3
<1> HIDE DEF d, j
<1>4. d >= m
  BY <1>2, <1>a
<1>5. PICK a \in Int : a = b + n - j
  BY <1>3
<1>6. PICK g \in Int : g = f + e
  OBVIOUS
<1>7. PICK r \in 0 .. n - 1 : r = d - m
  BY <1>2, <1>4
<1>8. a = n * g + r
  <2>1. a = x - m + n * e
    BY <1>1, <1>3, <1>5
  <2>2. n * g = n * f + n * e
    BY <1>6
  <2>3. QED
    BY <1>2, <1>3, <1>7, <2>1, <2>2
<1>9. a % n = r
  BY <1>8, DivModUnique
<1>10. r <= d
  BY <1>2, <1>7
<1>11. QED
  BY <1>1, <1>5, <1>9, <1>10 DEF d, j

\* NoSourceSkipped is inductive by itself.
LEMMA StepNotSkipped == TypeOK /\ NoSourceSkipped /\ [Next]_vars => NoSourceSkipped'
<1> SUFFICES ASSUME TypeOK, NoSourceSkipped, [Next]_vars
             PROVE  NoSourceSkipped'
  OBVIOUS
<1> USE TimingWheelAssumption DEF TypeOK, WheelTypeOK
<1>1. ASSUME UNCHANGED <<wheel, current_wheel_index>>
      PROVE  NoSourceSkipped'
  BY <1>1 DEF NoSourceSkipped
<1>2. ASSUME NEW s \in Sources, NEW d \in Nat, d <= Frequency[s], ScheduleIn(d, s)
      PROVE  NoSourceSkipped'
  <2>1. d \div TickSize \in Nat /\ d \div TickSize <= Frequency[s] \div TickSize
    <3>1. Frequency[s] \in Nat
      BY PollThreadAssumption
    <3>2. QED
      BY <1>2, <3>1, DivAtMost
  <2>2. WheelIndex(d) \in 0 .. NumTicks - 1
    BY WheelIndexType
  <2>3. (WheelIndex(d) + NumTicks - current_wheel_index) % NumTicks <= d \div TickSize
    BY <2>1, TicksAhead DEF WheelIndex
  <2>4. ASSUME NEW u \in Sources, NEW b \in DOMAIN wheel, u \in wheel'[b]
        PROVE  (b + NumTicks - current_wheel_index) % NumTicks <= Frequency[u] \div TickSize
    <3>1. CASE u \in wheel[b]
      BY <3>1 DEF NoSourceSkipped
    <3>2. CASE u = s /\ b = WheelIndex(d)
      <4>1. (b + NumTicks - current_wheel_index) % NumTicks \in Int
        BY DivMod
      <4>2. Frequency[u] \div TickSize \in Int
        <5>1. Frequency[u] \in Int
          BY PollThreadAssumption
        <5>2. QED
          BY <5>1, DivMod
      <4>3. QED
        BY <2>1, <2>3, <3>2, <4>1, <4>2
    <3>3. QED
      BY <1>2, <2>2, <2>4, <3>1, <3>2 DEF ScheduleIn
  <2>5. QED
    BY <1>2, <2>4 DEF ScheduleIn, NoSourceSkipped
<1>3. ASSUME AdvanceWheel
      PROVE  NoSourceSkipped'
  <2> DEFINE m == elapsed \div TickSize
  <2>1. m \in Nat
    BY ModAtMost
  <2>2. ASSUME NEW u \in Sources, NEW b \in DOMAIN wheel', u \in wheel'[b]
        PROVE  (b + NumTicks - current_wheel_index') % NumTicks <= Frequency[u] \div TickSize
    <3>1. b \in 0 .. NumTicks - 1 /\ b \notin Completed /\ u \in wheel[b]
      BY <1>3, <2>2 DEF AdvanceWheel
    <3>2. \A k \in 0 .. m - 1 : (current_wheel_index + k) % NumTicks # b
      BY <3>1 DEF Completed
    <3>3. current_wheel_index' = (current_wheel_index + m) % NumTicks
      BY <1>3 DEF AdvanceWheel, WheelIndex
    <3> HIDE DEF m
    <3>4. (b + NumTicks - ((current_wheel_index + m) % NumTicks)) % NumTicks
             <= (b + NumTicks - current_wheel_index) % NumTicks
      BY <2>1, <3>1, <3>2, StillAhead
    <3>5. (b + NumTicks - current_wheel_index) % NumTicks <= Frequency[u] \div TickSize
      BY <3>1 DEF NoSourceSkipped
    <3>6. /\ (b + NumTicks - current_wheel_index) % NumTicks \in Int
          /\ (b + NumTicks - current_wheel_index') % NumTicks \in Int
          /\ Frequency[u] \div TickSize \in Int
      <4>1. current_wheel_index' \in Int
        BY <3>3, <2>1, DivMod
      <4>2. /\ b + NumTicks - current_wheel_index \in Int
            /\ b + NumTicks - current_wheel_index' \in Int
            /\ Frequency[u] \in Int
        BY <3>1, <4>1, PollThreadAssumption
      <4>3. \A a \in Int, n \in Nat \ {0} : a % n \in Int /\ a \div n \in Int
        BY DivMod
      <4>4. QED
        BY <4>2, <4>3, Zenon
    <3>7. QED
      BY <3>3, <3>4, <3>5, <3>6
  <2>3. QED
    BY <2>2 DEF NoSourceSkipped
<1>4. ASSUME NEW s \in Sources, ScheduleFirst(s) \/ Reschedule(s)
      PROVE  NoSourceSkipped'
  <2>1. Frequency[s] \in Nat
    BY PollThreadAssumption
  <2>2. QED
    BY <1>2, <1>4, <2>1 DEF ScheduleFirst, Reschedule
<1>5. QED
  BY <1>1, <1>3, <1>4
     DEF Next, Thread, AtRest, vars, wheelVars, Advance, Exit, Poll, TimePasses, PassTime,
         RequestStop, DestroyPool, UseIO, ReadEnds, RunReadJob, After, RunTimerJob

\* However late advance() is called, and across the end of the wheel, no source is
\* further ahead than its poll_frequency().
THEOREM NoSourceSkippedHolds == Safety => []NoSourceSkipped
<1>1. Init => NoSourceSkipped
  BY DEF Init, WheelInit, NoSourceSkipped
<1>2. QED
  BY <1>1, TypeCorrect, StepNotSkipped, PTL DEF Safety

-----------------------------------------------------------------------------
(* Each source is in one place                                             *)

\* The buckets that source s is in.
In(s) == {b \in DOMAIN wheel : s \in wheel[b]}

\* A source is about to be polled, or polled, or in one bucket of the wheel; and one
\* source is polled at a time.
SourceInv ==
  /\ \A s \in Sources :
       \/ s \in ready_polls /\ s \notin polled /\ In(s) = {}
       \/ s \notin ready_polls /\ s \in polled /\ In(s) = {}
       \/ s \notin ready_polls /\ s \notin polled /\ \E b \in DOMAIN wheel : In(s) = {b}
  /\ \A s, u \in polled : s = u

\* Scheduling a source that is in no bucket puts it into one.
LEMMA ScheduleInPlace ==
  ASSUME TypeOK, NEW d \in Nat, NEW s \in Sources, ScheduleIn(d, s), In(s) = {}
  PROVE  /\ \E b \in DOMAIN wheel' : In(s)' = {b}
         /\ \A u \in Sources \ {s} : In(u)' = In(u)
         /\ DOMAIN wheel' = DOMAIN wheel
<1>1. WheelIndex(d) \in DOMAIN wheel
  BY WheelIndexType DEF TypeOK, WheelTypeOK
<1>2. PICK b \in DOMAIN wheel : wheel' = [wheel EXCEPT ![b] = @ \cup {s}]
  BY <1>1 DEF ScheduleIn
<1>3. In(s)' = {b}
  BY <1>2 DEF In, TypeOK, WheelTypeOK
<1>4. \A u \in Sources \ {s} : In(u)' = In(u)
  BY <1>2 DEF In, TypeOK, WheelTypeOK
<1>5. QED
  BY <1>2, <1>3, <1>4

\* Every step of the poll thread preserves SourceInv.
LEMMA StepSource == TypeOK /\ SourceInv /\ [Next]_vars => SourceInv'
<1> SUFFICES ASSUME TypeOK, SourceInv, [Next]_vars
             PROVE  SourceInv'
  OBVIOUS
<1>1. ASSUME UNCHANGED <<wheel, ready_polls, polled>>
      PROVE  SourceInv'
  BY <1>1 DEF SourceInv, In
<1>2. ASSUME NEW s \in Sources, ScheduleFirst(s)
      PROVE  SourceInv'
  <2>1. s \in ready_polls /\ ready_polls' = ready_polls \ {s} /\ polled' = polled
    BY <1>2 DEF ScheduleFirst
  <2>2. s \notin polled /\ In(s) = {}
    BY <2>1 DEF SourceInv
  <2>3. /\ \E b \in DOMAIN wheel' : In(s)' = {b}
        /\ \A u \in Sources \ {s} : In(u)' = In(u)
        /\ DOMAIN wheel' = DOMAIN wheel
    BY <1>2, <2>2, ScheduleInPlace DEF ScheduleFirst
  <2>4. QED
    BY <2>1, <2>2, <2>3 DEF SourceInv
<1>3. ASSUME NEW s \in Sources, Reschedule(s)
      PROVE  SourceInv'
  <2>1. s \in polled /\ polled' = {} /\ ready_polls' = ready_polls /\ polled = {s}
    BY <1>3 DEF Reschedule, SourceInv
  <2>2. s \notin ready_polls /\ In(s) = {} /\ Frequency[s] \in Nat
    BY <2>1, PollThreadAssumption DEF SourceInv
  <2>3. /\ \E b \in DOMAIN wheel' : In(s)' = {b}
        /\ \A u \in Sources \ {s} : In(u)' = In(u)
        /\ DOMAIN wheel' = DOMAIN wheel
    BY <1>3, <2>2, ScheduleInPlace DEF Reschedule
  <2>4. QED
    BY <2>1, <2>2, <2>3 DEF SourceInv
<1>4. ASSUME Advance
      PROVE  SourceInv'
  <2>1. /\ ready_polls = {} /\ polled = {} /\ polled' = {}
        /\ ready_polls' = Resolved
        /\ wheel' = [b \in DOMAIN wheel |-> IF b \in Completed THEN {} ELSE wheel[b]]
    BY <1>4 DEF Advance, RoundOver, AdvanceWheel
  <2>2. Completed \subseteq DOMAIN wheel
    <3>1. \A k \in 0 .. (elapsed \div TickSize) - 1 :
            (current_wheel_index + k) % NumTicks \in 0 .. NumTicks - 1
      BY TimingWheelAssumption, DivMod DEF TypeOK, WheelTypeOK
    <3>2. QED
      BY <3>1 DEF Completed, TypeOK, WheelTypeOK
  <2>3. ASSUME NEW s \in Sources
        PROVE  \/ s \in Resolved /\ In(s)' = {}
               \/ s \notin Resolved /\ \E b \in DOMAIN wheel : In(s)' = {b}
    <3>1. PICK b \in DOMAIN wheel : In(s) = {b}
      BY <2>1 DEF SourceInv
    <3>2. CASE b \in Completed
      <4>1. s \in Resolved
        BY <3>1, <3>2 DEF Resolved, In
      <4>2. In(s)' = {}
        BY <2>1, <3>1, <3>2 DEF In
      <4>3. QED
        BY <4>1, <4>2
    <3>3. CASE b \notin Completed
      <4>1. s \notin Resolved
        BY <2>2, <3>1, <3>3 DEF Resolved, In
      <4>2. In(s)' = {b}
        BY <2>1, <3>1, <3>3 DEF In
      <4>3. QED
        BY <4>1, <4>2
    <3>4. QED
      BY <3>2, <3>3
  <2>4. DOMAIN wheel' = DOMAIN wheel
    BY <2>1
  <2>5. QED
    BY <2>1, <2>3, <2>4 DEF SourceInv
<1>5. ASSUME NEW s \in Sources, Poll(s)
      PROVE  SourceInv'
  <2>1. /\ s \in ready_polls /\ polled = {} /\ polled' = {s}
        /\ ready_polls' = ready_polls \ {s} /\ wheel' = wheel
    BY <1>5 DEF Poll, wheelVars
  <2>2. \A u \in Sources : In(u)' = In(u)
    BY <2>1 DEF In
  <2>3. QED
    BY <2>1, <2>2 DEF SourceInv
<1>6. QED
  BY <1>1, <1>2, <1>3, <1>4, <1>5
     DEF Next, Thread, AtRest, vars, wheelVars, threadVars, Exit, TimePasses, PassTime,
         RequestStop, DestroyPool, UseIO, ReadEnds, RunReadJob, After, RunTimerJob

\* SourceInv holds in every reachable state.
LEMMA SourceInvariant == Safety => []SourceInv
<1>1. Init => SourceInv
  BY DEF Init, WheelInit, SourceInv, In
<1>2. QED
  BY <1>1, TypeCorrect, StepSource, PTL DEF Safety

\* Counting in places that one of them at most holds x.
LEMMA CountsTwo ==
  ASSUME NEW x, NEW A, NEW B
  PROVE  /\ x \notin A /\ x \notin B => Count(x, <<A, B>>) = 0
         /\ (x \in A /\ x \notin B) \/ (x \notin A /\ x \in B) => Count(x, <<A, B>>) = 1
<1> DEFINE C == {i \in DOMAIN <<A, B>> : x \in <<A, B>>[i]}
<1>1. ASSUME x \notin A, x \notin B PROVE C = {}
  BY <1>1
<1>2. ASSUME x \in A, x \notin B PROVE C = {1}
  BY <1>2
<1>3. ASSUME x \notin A, x \in B PROVE C = {2}
  BY <1>3
<1>4. Cardinality({}) = 0 /\ Cardinality({1}) = 1 /\ Cardinality({2}) = 1
  BY FS_EmptySet, FS_Singleton
<1>5. Count(x, <<A, B>>) = Cardinality(C)
  BY DEF Count
<1> HIDE DEF C
<1>6. QED
  BY <1>1, <1>2, <1>3, <1>4, <1>5

\* No poll source is ever lost or scheduled twice, whatever its frequency and
\* however late the wheel is advanced.
THEOREM SourcesConservedHolds == Safety => []SourcesConserved
<1>1. SourceInv => SourcesConserved
  <2> SUFFICES ASSUME SourceInv, NEW s \in Sources
               PROVE  Cardinality(In(s)) + Count(s, <<ready_polls, polled>>) = 1
    BY DEF SourcesConserved, In
  <2>1. CASE In(s) = {}
    <3>1. Cardinality(In(s)) = 0
      BY <2>1, FS_EmptySet
    <3>2. Count(s, <<ready_polls, polled>>) = 1
      BY <2>1, CountsTwo DEF SourceInv
    <3>3. QED
      BY <3>1, <3>2
  <2>2. CASE \E b \in DOMAIN wheel : In(s) = {b}
    <3>1. Cardinality(In(s)) = 1
      BY <2>2, FS_Singleton
    <3>2. Count(s, <<ready_polls, polled>>) = 0
      BY <2>2, CountsTwo DEF SourceInv
    <3>3. QED
      BY <3>1, <3>2
  <2>3. QED
    BY <2>1, <2>2 DEF SourceInv
<1>2. QED
  BY <1>1, SourceInvariant, PTL

-----------------------------------------------------------------------------
(* Each task is in one place                                               *)

\* A read that was not started is nowhere; one that was is starting, listed, a job or
\* resolved, and only one of these, unless it went with the pool.
ReadInv ==
  \A r \in Reads :
    /\ status[r] = "none" => /\ r \notin starting /\ r \notin in_flight_requests
                             /\ r \notin jobs /\ outcome[r] = "pending"
    /\ r \in starting => /\ r \notin in_flight_requests /\ r \notin jobs
                         /\ outcome[r] = "pending"
    /\ r \in in_flight_requests => r \notin jobs /\ outcome[r] = "pending"
    /\ r \in jobs => outcome[r] = "pending"
    /\ status[r] # "none" /\ pool = "running" =>
         \/ r \in starting \/ r \in in_flight_requests \/ r \in jobs
         \/ outcome[r] # "pending"

\* The same for a timer: it waits in the source, is a job, or completed.
TimerInv ==
  \A t \in Timers :
    /\ t \in waiting => t \notin expired
    /\ t \in jobs \/ t \in completed => t \in expired
    /\ t \in jobs => t \notin completed
    /\ t \in expired /\ pool = "running" => t \in jobs \/ t \in completed

\* Every step preserves ReadInv and TimerInv.
LEMMA StepTasks == TypeOK /\ ReadInv /\ TimerInv /\ [Next]_vars => ReadInv' /\ TimerInv'
<1> SUFFICES ASSUME TypeOK, ReadInv, TimerInv, [Next]_vars
             PROVE  ReadInv' /\ TimerInv'
  OBVIOUS
<1> USE PollThreadAssumption DEF sourceVars, threadVars, ioVars, timerVars, wheelVars
<1>1. ASSUME UNCHANGED <<sourceVars, jobs, pool>>
      PROVE  ReadInv' /\ TimerInv'
  BY <1>1 DEF ReadInv, TimerInv
<1>2. ASSUME Poll(IOSource), jobs' = jobs \cup PollReads, EvictCompleted,
             UNCHANGED <<timerVars, completed, pool>>
      PROVE  ReadInv' /\ TimerInv'
  <2>1. PollReads \subseteq in_flight_requests /\ PollReads \subseteq Reads
    BY DEF PollReads, TypeOK, IOTypeOK
  <2>2. ReadInv'
    BY <1>2, <2>1 DEF EvictCompleted, ReadInv, TypeOK, IOTypeOK
  <2>3. TimerInv'
    BY <1>2, <2>1 DEF TimerInv
  <2>4. QED
    BY <2>2, <2>3
<1>3. ASSUME NEW S \in SUBSET waiting, Expire(S), jobs' = jobs \cup S,
             UNCHANGED <<ioVars, completed, pool>>
      PROVE  ReadInv' /\ TimerInv'
  <2>1. S \subseteq Timers
    BY DEF TypeOK
  <2>2. ReadInv'
    BY <1>3, <2>1 DEF ReadInv
  <2>3. TimerInv'
    BY <1>3, <2>1 DEF Expire, TimerInv
  <2>4. QED
    BY <2>2, <2>3
<1>4. ASSUME NEW s \in Sources, Poll(s)
      PROVE  ReadInv' /\ TimerInv'
  BY <1>2, <1>3, <1>4 DEF Poll
<1>5. ASSUME NEW r \in Reads, UseIO(r)
      PROVE  ReadInv' /\ TimerInv'
  <2>1. CASE StartRead(r)
    BY <1>5, <2>1 DEF UseIO, StartRead, ReadInv, TimerInv, TypeOK, IOTypeOK
  <2>2. CASE ListRead(r)
    BY <1>5, <2>2 DEF UseIO, ListRead, ReadInv, TimerInv, TypeOK, IOTypeOK
  <2>3. QED
    BY <1>5, <2>1, <2>2 DEF UseIO
<1>6. ASSUME NEW r \in Reads, ReadEnds(r)
      PROVE  ReadInv' /\ TimerInv'
  BY <1>6 DEF ReadEnds, EndRead, ReadInv, TimerInv, TypeOK, IOTypeOK
<1>7. ASSUME NEW r \in Reads, RunReadJob(r)
      PROVE  ReadInv' /\ TimerInv'
  <2>1. r \notin Timers
    OBVIOUS
  <2>2. ReadInv'
    BY <1>7 DEF RunReadJob, ResolveRead, ReadInv, TypeOK, IOTypeOK
  <2>3. TimerInv'
    BY <1>7, <2>1 DEF RunReadJob, TimerInv
  <2>4. QED
    BY <2>2, <2>3
<1>8. ASSUME NEW t \in Timers, After(t)
      PROVE  ReadInv' /\ TimerInv'
  BY <1>8 DEF After, Schedule, ReadInv, TimerInv
<1>9. ASSUME NEW t \in Timers, RunTimerJob(t)
      PROVE  ReadInv' /\ TimerInv'
  BY <1>9 DEF RunTimerJob, ReadInv, TimerInv
<1>10. ASSUME DestroyPool
      PROVE  ReadInv' /\ TimerInv'
  BY <1>10 DEF DestroyPool, ReadInv, TimerInv
<1>11. QED
  BY <1>1, <1>4, <1>5, <1>6, <1>7, <1>8, <1>9, <1>10
     DEF Next, Thread, AtRest, vars, ScheduleFirst, Advance, Exit, Reschedule, TimePasses,
         RequestStop

\* ReadInv and TimerInv hold in every reachable state.
LEMMA TaskInvariant == Safety => [](ReadInv /\ TimerInv)
<1>1. Init => ReadInv /\ TimerInv
  BY DEF Init, IOInit, TimersInit, ReadInv, TimerInv
<1>2. QED
  BY <1>1, TypeCorrect, StepTasks, PTL DEF Safety

\* Counting x in three or four places, none of which it shares with another.
LEMMA CountsThree ==
  ASSUME NEW x, NEW A, NEW B, NEW C,
         x \in A => x \notin B /\ x \notin C, x \in B => x \notin C
  PROVE  Count(x, <<A, B, C>>) = IF x \in A \/ x \in B \/ x \in C THEN 1 ELSE 0
<1> DEFINE P == {i \in DOMAIN <<A, B, C>> : x \in <<A, B, C>>[i]}
<1>1. x \in A => P = {1}
  OBVIOUS
<1>2. x \in B => P = {2}
  OBVIOUS
<1>3. x \in C => P = {3}
  OBVIOUS
<1>4. ~(x \in A \/ x \in B \/ x \in C) => P = {}
  OBVIOUS
<1>5. Cardinality({}) = 0 /\ \A i \in 1 .. 3 : Cardinality({i}) = 1
  BY FS_EmptySet, FS_Singleton
<1>6. Count(x, <<A, B, C>>) = Cardinality(P)
  BY DEF Count
<1> HIDE DEF P
<1>7. QED
  BY <1>1, <1>2, <1>3, <1>4, <1>5, <1>6

\* An element of at most one of four sets is counted once or not at all.
LEMMA CountsFour ==
  ASSUME NEW x, NEW A, NEW B, NEW C, NEW D,
         x \in A => x \notin B /\ x \notin C /\ x \notin D,
         x \in B => x \notin C /\ x \notin D, x \in C => x \notin D
  PROVE  Count(x, <<A, B, C, D>>) =
           IF x \in A \/ x \in B \/ x \in C \/ x \in D THEN 1 ELSE 0
<1> DEFINE P == {i \in DOMAIN <<A, B, C, D>> : x \in <<A, B, C, D>>[i]}
<1>1. x \in A => P = {1}
  OBVIOUS
<1>2. x \in B => P = {2}
  OBVIOUS
<1>3. x \in C => P = {3}
  OBVIOUS
<1>4. x \in D => P = {4}
  OBVIOUS
<1>5. ~(x \in A \/ x \in B \/ x \in C \/ x \in D) => P = {}
  OBVIOUS
<1>6. Cardinality({}) = 0 /\ \A i \in 1 .. 4 : Cardinality({i}) = 1
  BY FS_EmptySet, FS_Singleton
<1>7. Count(x, <<A, B, C, D>>) = Cardinality(P)
  BY DEF Count
<1> HIDE DEF P
<1>8. QED
  BY <1>1, <1>2, <1>3, <1>4, <1>5, <1>6, <1>7

\* No read and no timer is ever lost or handed to the pool twice, however reads that
\* end race with queue_read() and with poll().
THEOREM TasksConservedHolds == Safety => []TasksConserved
<1>1. TypeOK /\ ReadInv /\ TimerInv => TasksConserved
  <2> SUFFICES ASSUME TypeOK, ReadInv, TimerInv
               PROVE  TasksConserved
    OBVIOUS
  <2> DEFINE resolved == {q \in Reads : outcome[q] # "pending"}
  <2>1. ASSUME NEW r \in Reads
        PROVE  Count(r, <<starting, in_flight_requests, jobs, resolved>>)
                 \in IF status[r] = "none" THEN {0}
                     ELSE IF pool = "running" THEN {1} ELSE {0, 1}
    <3>1. r \in resolved <=> outcome[r] # "pending"
      OBVIOUS
    <3> HIDE DEF resolved
    <3>2. Count(r, <<starting, in_flight_requests, jobs, resolved>>) =
            IF r \in starting \/ r \in in_flight_requests \/ r \in jobs \/ r \in resolved
            THEN 1 ELSE 0
      BY <3>1, CountsFour DEF ReadInv
    <3>3. QED
      BY <3>1, <3>2 DEF ReadInv
  <2>2. ASSUME NEW t \in Timers
        PROVE  Count(t, <<waiting, jobs, completed>>)
                 \in IF t \notin waiting \cup expired THEN {0}
                     ELSE IF pool = "running" THEN {1} ELSE {0, 1}
    <3>1. Count(t, <<waiting, jobs, completed>>) =
            IF t \in waiting \/ t \in jobs \/ t \in completed THEN 1 ELSE 0
      BY CountsThree DEF TimerInv
    <3>2. QED
      BY <3>1 DEF TimerInv
  <2>3. QED
    BY <2>1, <2>2 DEF TasksConserved
<1>2. QED
  BY <1>1, TypeCorrect, TaskInvariant, PTL
=============================================================================
