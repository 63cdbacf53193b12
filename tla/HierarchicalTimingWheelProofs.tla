-------------------- MODULE HierarchicalTimingWheelProofs --------------------
(***************************************************************************)
(* Proofs about HierarchicalTimingWheel, for any number of wheels of any   *)
(* sizes.  The index of a wheel is a digit of the number of ticks, so each *)
(* entry of a bucket says in which tick its timer will be resolved; a tick *)
(* moves entries from wheel to wheel and changes none of these numbers.    *)
(***************************************************************************)
EXTENDS HierarchicalTimingWheel, WellFoundedInduction, TLAPS

-----------------------------------------------------------------------------
(* Induction, stated for sets of numbers, and division with remainder.     *)

\* A set of natural numbers has a least one.
LEMMA LeastNatural ==
  ASSUME NEW T \in SUBSET Nat, T # {}
  PROVE  \E x \in T : \A y \in T : x <= y
<1> DEFINE R == OpToRel(<, Nat)
<1>1. IsWellFoundedOn(R, Nat)
  BY NatLessThanWellFounded
<1>2. R = {ss \in Nat \X Nat : ss[1] < ss[2]}
  BY DEF OpToRel
<1> HIDE DEF R
<1>3. PICK x \in T : \A y \in T : ~(<<y, x>> \in R)
  BY <1>1, WFMin
<1>4. \A y, z \in Nat : y < z => <<y, z>> \in R
  BY <1>2
<1>5. ASSUME NEW y \in T PROVE x <= y
  <2>1. x \in Nat /\ y \in Nat
    OBVIOUS
  <2>2. ~(<<y, x>> \in R)
    BY <1>3
  <2>3. ~(y < x)
    BY <2>1, <2>2, <1>4, Zenon
  <2>4. QED
    BY <2>1, <2>3
<1>6. QED
  BY <1>5

\* Induction: what holds of 0, and of n + 1 whenever it holds of n, holds of all.
LEMMA SetInduction ==
  ASSUME NEW S \in SUBSET Nat, 0 \in S, \A n \in S : n + 1 \in S
  PROVE  S = Nat
<1> SUFFICES ASSUME S # Nat PROVE FALSE
  OBVIOUS
<1> DEFINE T == Nat \ S
<1>1. T \in SUBSET Nat /\ T # {}
  OBVIOUS
<1> HIDE DEF T
<1>2. PICK x \in T : \A y \in T : x <= y
  BY <1>1, LeastNatural
<1>3. x \in Nat \ {0}
  BY <1>2 DEF T
<1>4. x - 1 \in S
  <2>1. x - 1 \in Nat /\ ~(x <= x - 1)
    BY <1>3
  <2>2. x - 1 \notin T
    BY <2>1, <1>2
  <2>3. QED
    BY <2>1, <2>2 DEF T
<1>5. QED
  BY <1>3, <1>4 DEF T

\* a \div n and a % n are the quotient and the remainder of a.
LEMMA DivMod ==
  ASSUME NEW a \in Int, NEW n \in Nat \ {0}
  PROVE  a \div n \in Int /\ a % n \in 0 .. n - 1 /\ a = n * (a \div n) + (a % n)
BY Z3

\* A positive multiple of n is at least n, and a negative one at most -n.
LEMMA Multiple ==
  ASSUME NEW q \in Int, NEW n \in Nat \ {0}
  PROVE  (q >= 1 => n * q >= n) /\ (q <= -1 => n * q <= -n)
<1>1. ASSUME q >= 1 PROVE n * q >= n
  BY <1>1, Z3
<1>2. ASSUME q <= -1 PROVE n * q <= -n
  BY <1>2, Z3
<1>3. QED
  BY <1>1, <1>2

\* ... and they are the only ones.
LEMMA DivModUnique ==
  ASSUME NEW a \in Int, NEW n \in Nat \ {0}, NEW q \in Int, NEW r \in 0 .. n - 1,
         a = n * q + r
  PROVE  a \div n = q /\ a % n = r
<1> DEFINE d == a \div n
<1> DEFINE m == a % n
<1>1. d \in Int /\ m \in 0 .. n - 1 /\ a = n * d + m
  BY DivMod
<1> HIDE DEF d, m
<1>2. n * (d - q) = r - m /\ d - q \in Int
  BY <1>1
<1>3. ~(d - q >= 1) /\ ~(d - q <= -1)
  BY <1>1, <1>2, Multiple
<1>4. d = q
  BY <1>1, <1>3
<1>5. m = r
  BY <1>1, <1>4
<1>6. QED
  BY <1>4, <1>5 DEF d, m

\* Remainders may be taken before an addition.
LEMMA ModSum ==
  ASSUME NEW a \in Int, NEW b \in Int, NEW n \in Nat \ {0}
  PROVE  ((a % n) + b) % n = (a + b) % n
<1> DEFINE d == a \div n
<1> DEFINE m == a % n
<1> DEFINE e == (m + b) \div n
<1> DEFINE r == (m + b) % n
<1>1. d \in Int /\ m \in 0 .. n - 1 /\ a = n * d + m
  BY DivMod
<1>2. e \in Int /\ r \in 0 .. n - 1 /\ m + b = n * e + r
  BY <1>1, DivMod
<1> HIDE DEF d, m, e, r
<1>3. a + b = n * (d + e) + r /\ a + b \in Int /\ d + e \in Int
  BY <1>1, <1>2
<1>4. (a + b) % n = r
  <2> DEFINE s == a + b
  <2> DEFINE t == d + e
  <2> HIDE DEF s, t
  <2>1. s \in Int /\ t \in Int /\ s = n * t + r
    BY <1>3 DEF s, t
  <2>2. s % n = r
    BY <1>2, <2>1, DivModUnique
  <2>3. QED
    BY <2>2 DEF s
<1>5. QED
  BY <1>4 DEF r, m

\* A natural number is at least its remainder, and its quotient is natural too.
LEMMA ModAtMost ==
  ASSUME NEW a \in Nat, NEW n \in Nat \ {0}
  PROVE  a \div n \in Nat /\ a % n <= a
<1> DEFINE d == a \div n
<1> DEFINE m == a % n
<1>1. d \in Int /\ m \in 0 .. n - 1 /\ a = n * d + m
  BY DivMod
<1> HIDE DEF d, m
<1>2. ~(d <= -1)
  BY <1>1, Multiple
<1>3. d \in Nat
  BY <1>1, <1>2
<1>4. n * d >= 0
  BY <1>3, Z3
<1>5. m <= a
  BY <1>1, <1>4
<1>6. QED
  BY <1>3, <1>5 DEF d, m

\* Both at once, with names for them.
LEMMA Divided ==
  ASSUME NEW a \in Nat, NEW n \in Nat \ {0}
  PROVE  \E q \in Nat, r \in 0 .. n - 1 : q = a \div n /\ r = a % n /\ a = n * q + r
<1>1. a \in Int
  OBVIOUS
<1>2. a \div n \in Nat /\ a % n \in 0 .. n - 1 /\ a = n * (a \div n) + (a % n)
  BY <1>1, DivMod, ModAtMost, Zenon
<1>3. QED
  BY <1>2, Zenon

\* A number below n is its own remainder.
LEMMA ModSmall ==
  ASSUME NEW n \in Nat \ {0}, NEW a \in 0 .. n - 1
  PROVE  a % n = a /\ a \div n = 0
<1>1. a = n * 0 + a
  OBVIOUS
<1>2. QED
  BY <1>1, DivModUnique

\* Adding n changes no remainder.
LEMMA ModAddOnce ==
  ASSUME NEW a \in Int, NEW n \in Nat \ {0}
  PROVE  (a + n) % n = a % n
<1> DEFINE d == a \div n
<1> DEFINE m == a % n
<1>1. d \in Int /\ m \in 0 .. n - 1 /\ a = n * d + m
  BY DivMod
<1> HIDE DEF d, m
<1>2. PICK e \in Int : e = d + 1
  BY <1>1
<1>3. PICK b \in Int : b = a + n
  OBVIOUS
<1>4. b = n * e + m
  BY <1>1, <1>2, <1>3
<1>5. b % n = m
  BY <1>1, <1>4, DivModUnique
<1>6. QED
  BY <1>3, <1>5 DEF m

-----------------------------------------------------------------------------
N == Len(WheelSizes)

Buckets(w) == 0 .. WheelSizes[w] - 1

-----------------------------------------------------------------------------
(* The functions of the wheels that are defined by recursion.              *)

\* What holds of 1, and of n + 1 whenever it holds of n, holds up to m.
LEMMA RangeInduction ==
  ASSUME NEW m \in Nat, NEW S, 1 \in S, \A n \in 1 .. m - 1 : n \in S => n + 1 \in S
  PROVE  \A n \in 1 .. m : n \in S
<1> DEFINE P == {n \in Nat : n + 1 \in 1 .. m => n + 1 \in S}
<1>1. P \in SUBSET Nat /\ 0 \in P
  OBVIOUS
<1>2. ASSUME NEW n \in P PROVE n + 1 \in P
  <2>1. n \in Nat /\ (n + 1 \in 1 .. m => n + 1 \in S)
    BY <1>2
  <2> SUFFICES ASSUME n + 1 + 1 \in 1 .. m PROVE n + 1 + 1 \in S
    BY <2>1
  <2>2. PICK k \in 1 .. m - 1 : k = n + 1
    BY <2>1
  <2>3. QED
    BY <2>1, <2>2
<1> HIDE DEF P
<1>3. P = Nat
  BY <1>1, <1>2, SetInduction
<1>4. ASSUME NEW n \in 1 .. m PROVE n \in S
  <2>1. n - 1 \in P
    BY <1>3
  <2>2. QED
    BY <2>1 DEF P
<1>5. QED
  BY <1>4

\* f starts with v, and D says how it goes on.
BuiltUp(f, m, v, D) == \A w \in 1 .. m : f[w] = IF w = 1 THEN v ELSE D[w][f[w - 1]]

\* There is such a function of 1 .. m.
LEMMA Recursion ==
  ASSUME NEW m \in Nat, NEW V, NEW v \in V, NEW D \in [1 .. m -> [V -> V]]
  PROVE  \E f \in [1 .. m -> V] : BuiltUp(f, m, v, D)
<1> DEFINE Q(n, f) ==
      /\ f \in [1 .. n -> V]
      /\ \A w \in 1 .. n : f[w] = IF w = 1 THEN v ELSE D[w][f[w - 1]]
<1> DEFINE S == {n \in Nat : n <= m => \E f : Q(n, f)}
<1>1. 0 \in S
  <2>1. Q(0, [w \in 1 .. 0 |-> v])
    OBVIOUS
  <2>2. QED
    BY <2>1, Zenon
<1>2. ASSUME NEW n \in S PROVE n + 1 \in S
  <2>1. n \in Nat /\ n + 1 \in Nat
    OBVIOUS
  <2> SUFFICES ASSUME n + 1 <= m PROVE \E f : Q(n + 1, f)
    BY <2>1, Zenon
  <2>2. PICK f : Q(n, f)
    BY <2>1
  <2> DEFINE g == [w \in 1 .. n + 1 |->
                     IF w <= n THEN f[w] ELSE IF w = 1 THEN v ELSE D[w][f[w - 1]]]
  <2>3. g \in [1 .. n + 1 -> V]
    <3> SUFFICES ASSUME NEW w \in 1 .. n + 1
                 PROVE  (IF w <= n THEN f[w] ELSE IF w = 1 THEN v ELSE D[w][f[w - 1]]) \in V
      OBVIOUS
    <3>1. CASE w <= n
      BY <3>1, <2>1, <2>2
    <3>2. CASE ~(w <= n) /\ w # 1
      <4>1. w - 1 \in 1 .. n /\ w \in 1 .. m
        BY <3>2, <2>1
      <4>2. f[w - 1] \in V /\ D[w] \in [V -> V]
        BY <4>1, <2>2
      <4>3. QED
        BY <3>2, <4>2
    <3>3. QED
      BY <3>1, <3>2
  <2>4. ASSUME NEW w \in 1 .. n + 1
        PROVE  g[w] = IF w = 1 THEN v ELSE D[w][g[w - 1]]
    <3>1. w # 1 => w - 1 \in 1 .. n + 1 /\ w - 1 <= n
      BY <2>1
    <3>2. w # 1 => g[w - 1] = f[w - 1]
      BY <3>1
    <3>3. w <= n => w \in 1 .. n
      BY <2>1
    <3>4. QED
      BY <3>2, <3>3, <2>2
  <2>5. QED
    BY <2>3, <2>4
<1>3. m \in S
  <2> HIDE DEF S
  <2>1. S \in SUBSET Nat
    BY DEF S
  <2>2. QED
    BY <1>1, <1>2, <2>1, SetInduction
<1>4. QED
  BY <1>3 DEF BuiltUp

\* There is a wheel, and each has a bucket.
LEMMA WheelsFacts ==
  /\ N \in Nat \ {0} /\ Wheels = 1 .. N
  /\ \A w \in Wheels : WheelSizes[w] \in Nat \ {0} /\ w \in Nat
BY WheelAssumption DEF N, Wheels

\* A product of positive numbers is positive, and no less than they are.
LEMMA Product ==
  ASSUME NEW a \in Nat \ {0}, NEW b \in Nat \ {0}
  PROVE  a * b \in Nat \ {0} /\ a * b >= a /\ a * b >= b
<1>1. a * b \in Int /\ a * b = b * a /\ a >= 1 /\ b >= 1
  OBVIOUS
<1>2. a * b >= a /\ b * a >= b
  BY <1>1, Multiple
<1>3. QED
  BY <1>1, <1>2

\* A bucket of a wheel holds as many ticks as the wheel below does.
LEMMA TicksPerBucketFacts ==
  /\ \A w \in Wheels : TicksPerBucket[w] \in Nat \ {0}
  /\ TicksPerBucket[1] = 1
  /\ \A w \in 1 .. N - 1 : TicksPerBucket[w + 1] = WheelSizes[w] * TicksPerBucket[w]
<1> DEFINE V == Nat \ {0}
<1> DEFINE D == [w \in 1 .. N |-> [x \in V |-> IF w = 1 THEN x ELSE WheelSizes[w - 1] * x]]
<1> DEFINE Def(f) == [w \in Wheels |-> IF w = 1 THEN 1 ELSE WheelSizes[w - 1] * f[w - 1]]
<1>1. D \in [1 .. N -> [V -> V]]
  <2> SUFFICES ASSUME NEW w \in 1 .. N, NEW x \in V
               PROVE  (IF w = 1 THEN x ELSE WheelSizes[w - 1] * x) \in V
    OBVIOUS
  <2>1. CASE w # 1
    <3>1. w - 1 \in Wheels
      BY <2>1, WheelsFacts
    <3>2. PICK s \in Nat \ {0} : s = WheelSizes[w - 1]
      BY <3>1, WheelsFacts
    <3>3. QED
      BY <2>1, <3>2, Product
  <2>2. QED
    BY <2>1
<1>2. PICK f \in [1 .. N -> V] : BuiltUp(f, N, 1, D)
  <2> HIDE DEF D
  <2>1. 1 \in V /\ N \in Nat
    BY WheelsFacts
  <2> HIDE DEF V
  <2>2. QED
    BY <1>1, <2>1, Recursion, Zenon
<1>3. \A w \in 1 .. N : f[w] = IF w = 1 THEN 1 ELSE WheelSizes[w - 1] * f[w - 1]
  <2> SUFFICES ASSUME NEW w \in 1 .. N, w # 1
               PROVE  D[w][f[w - 1]] = WheelSizes[w - 1] * f[w - 1]
    BY <1>2 DEF BuiltUp
  <2>1. w - 1 \in 1 .. N
    BY WheelsFacts
  <2>2. f[w - 1] \in V
    BY <2>1
  <2>3. QED
    BY <2>2
<1>4. f = Def(f)
  BY <1>3, WheelsFacts
<1> HIDE DEF Def
<1>5. TicksPerBucket = Def(TicksPerBucket)
  <2>1. TicksPerBucket = CHOOSE g : g = Def(g)
    BY DEF TicksPerBucket, Def
  <2>2. QED
    BY <2>1, <1>4
<1>6. \A w \in Wheels : TicksPerBucket[w] = IF w = 1 THEN 1 ELSE WheelSizes[w - 1] * TicksPerBucket[w - 1]
  BY <1>5 DEF Def
<1>7. ASSUME NEW w \in 1 .. N - 1
      PROVE  w + 1 \in Wheels /\ w \in Wheels /\ TicksPerBucket[w + 1] = WheelSizes[w] * TicksPerBucket[w]
  <2>1. w + 1 \in Wheels /\ w + 1 # 1 /\ (w + 1) - 1 = w /\ w \in Wheels
    BY WheelsFacts
  <2>2. QED
    BY <2>1, <1>6
<1>8. TicksPerBucket[1] = 1
  BY <1>6, WheelsFacts
<1> DEFINE S == {w \in Wheels : TicksPerBucket[w] \in V}
<1>9. 1 \in S
  BY <1>8, WheelsFacts
<1>10. ASSUME NEW w \in 1 .. N - 1, w \in S PROVE w + 1 \in S
  <2>1. PICK x \in V : x = TicksPerBucket[w]
    BY <1>10
  <2>2. PICK s \in V : s = WheelSizes[w]
    BY <1>10, WheelsFacts
  <2>3. s * x \in V
    BY Product
  <2>4. QED
    BY <1>7, <2>1, <2>2, <2>3
<1> HIDE DEF S
<1>11. \A w \in 1 .. N : w \in S
  BY <1>9, <1>10, WheelsFacts, RangeInduction
<1>12. QED
  BY <1>7, <1>8, <1>11, WheelsFacts DEF S

\* What the wheels below w hold together, which is not less than a bucket of w does.
LEMMA TicksBelowFacts ==
  /\ \A w \in 1 .. N + 1 : TicksBelow[w] \in Nat
  /\ TicksBelow[1] = 0
  /\ \A w \in Wheels :
       /\ w + 1 \in 1 .. N + 1
       /\ TicksBelow[w + 1] = TicksBelow[w] + WheelSizes[w] * TicksPerBucket[w]
<1> DEFINE Step(w, x) == x + WheelSizes[w - 1] * TicksPerBucket[w - 1]
<1> DEFINE D == [w \in 1 .. N + 1 |-> [x \in Nat |-> IF w = 1 THEN x ELSE Step(w, x)]]
<1> DEFINE Def(f) == [w \in 1 .. N + 1 |-> IF w = 1 THEN 0 ELSE Step(w, f[w - 1])]
<1>1. ASSUME NEW w \in 2 .. N + 1, NEW x \in Nat PROVE Step(w, x) \in Nat
  <2>1. w - 1 \in Wheels
    BY WheelsFacts
  <2>2. PICK t \in Nat \ {0} : t = TicksPerBucket[w - 1]
    BY <2>1, TicksPerBucketFacts
  <2>3. PICK s \in Nat \ {0} : s = WheelSizes[w - 1]
    BY <2>1, WheelsFacts
  <2>4. s * t \in Nat
    BY Product
  <2>5. QED
    BY <2>2, <2>3, <2>4
<1>2. N + 1 \in Nat /\ \A w \in 1 .. N + 1 : w # 1 => w \in 2 .. N + 1 /\ w - 1 \in 1 .. N + 1
  BY WheelsFacts
<1> HIDE DEF Step
<1>3. D \in [1 .. N + 1 -> [Nat -> Nat]]
  BY <1>1, <1>2
<1>4. PICK f \in [1 .. N + 1 -> Nat] : BuiltUp(f, N + 1, 0, D)
  <2> HIDE DEF D
  <2>1. 0 \in Nat
    OBVIOUS
  <2>2. QED
    BY <1>2, <1>3, <2>1, Recursion, Zenon
<1>5. f = Def(f)
  <2>1. ASSUME NEW w \in 1 .. N + 1 PROVE f[w] = IF w = 1 THEN 0 ELSE Step(w, f[w - 1])
    <3>1. w # 1 => f[w - 1] \in Nat
      BY <1>2
    <3>2. QED
      BY <1>4, <3>1 DEF BuiltUp
  <2>2. QED
    BY <2>1
<1> HIDE DEF Def
<1>6. TicksBelow = Def(TicksBelow)
  <2>1. TicksBelow = CHOOSE g : g = Def(g)
    BY DEF TicksBelow, Def, Step, N
  <2>2. QED
    BY <2>1, <1>5
<1>7. \A w \in 1 .. N + 1 :
        TicksBelow[w] = IF w = 1 THEN 0 ELSE Step(w, TicksBelow[w - 1])
  BY <1>6 DEF Def
<1>8. TicksBelow[1] = 0
  BY <1>7, WheelsFacts
<1>9. ASSUME NEW w \in Wheels
      PROVE  /\ w + 1 \in 1 .. N + 1
             /\ TicksBelow[w + 1] = TicksBelow[w] + WheelSizes[w] * TicksPerBucket[w]
             /\ TicksBelow[w + 1] = Step(w + 1, TicksBelow[w])
             /\ w + 1 \in 2 .. N + 1
  <2>1. w + 1 \in 2 .. N + 1 /\ (w + 1) - 1 = w /\ w + 1 # 1 /\ w + 1 \in 1 .. N + 1
    BY WheelsFacts
  <2>2. QED
    BY <2>1, <1>7 DEF Step
<1> DEFINE S == {w \in 1 .. N + 1 : TicksBelow[w] \in Nat}
<1>10. 1 \in S
  BY <1>8, WheelsFacts
<1>11. ASSUME NEW w \in 1 .. (N + 1) - 1, w \in S PROVE w + 1 \in S
  <2>1. w \in Wheels
    BY WheelsFacts
  <2>2. QED
    BY <1>11, <2>1, <1>9, <1>1
<1> HIDE DEF S
<1>12. \A w \in 1 .. N + 1 : w \in S
  BY <1>2, <1>10, <1>11, RangeInduction
<1>13. QED
  BY <1>8, <1>9, <1>12 DEF S

\* The ticks left to fit start with n, and subtractions wrap around at the width.
LEMMA TicksToFitFacts ==
  ASSUME NEW n \in 0 .. 2 ^ Width - 1
  PROVE  /\ \A w \in Wheels : TicksToFit(n)[w] \in 0 .. 2 ^ Width - 1
         /\ TicksToFit(n)[1] = n
         /\ \A w \in 1 .. N - 1 :
              TicksToFit(n)[w + 1] = Minus(TicksToFit(n)[w], WheelSizes[w] * TicksPerBucket[w])
<1> DEFINE V == 0 .. 2 ^ Width - 1
<1> DEFINE Step(w, x) == Minus(x, WheelSizes[w - 1] * TicksPerBucket[w - 1])
<1> DEFINE D == [w \in 1 .. N |-> [x \in V |-> IF w = 1 THEN x ELSE Step(w, x)]]
<1> DEFINE Def(f) == [w \in Wheels |-> IF w = 1 THEN n ELSE Step(w, f[w - 1])]
<1>1. ASSUME NEW w \in 2 .. N, NEW x \in V PROVE Step(w, x) \in V
  <2>1. w - 1 \in Wheels
    BY WheelsFacts
  <2>2. PICK t \in Nat \ {0} : t = TicksPerBucket[w - 1]
    BY <2>1, TicksPerBucketFacts
  <2>3. PICK s \in Nat \ {0} : s = WheelSizes[w - 1]
    BY <2>1, WheelsFacts
  <2>4. PICK m \in Nat \ {0} : m = 2 ^ Width
    BY WheelAssumption
  <2>5. PICK y \in Int : y = x + m - s * t
    BY <2>4
  <2>6. y % m \in 0 .. m - 1
    BY DivMod, Zenon
  <2>7. QED
    BY <2>2, <2>3, <2>4, <2>5, <2>6 DEF Minus
<1>2. N \in Nat /\ Wheels = 1 .. N /\ \A w \in Wheels : w # 1 => w \in 2 .. N /\ w - 1 \in Wheels
  BY WheelsFacts
<1> HIDE DEF Step, V
<1>3. D \in [1 .. N -> [V -> V]]
  BY <1>1, <1>2
<1>4. PICK f \in [1 .. N -> V] : BuiltUp(f, N, n, D)
  <2> HIDE DEF D
  <2>1. n \in V
    BY DEF V
  <2>2. QED
    BY <1>2, <1>3, <2>1, Recursion, Zenon
<1>5. f = Def(f)
  <2>1. ASSUME NEW w \in Wheels PROVE f[w] = IF w = 1 THEN n ELSE Step(w, f[w - 1])
    <3>1. w # 1 => f[w - 1] \in V
      BY <1>2
    <3>2. QED
      BY <1>2, <1>4, <3>1 DEF BuiltUp
  <2>2. QED
    BY <2>1, <1>2
<1> DEFINE g == TicksToFit(n)
<1> HIDE DEF Def
<1>6. g = Def(g)
  <2>1. g = CHOOSE h : h = Def(h)
    BY DEF TicksToFit, Def, Step
  <2>2. QED
    BY <2>1, <1>5
<1> HIDE DEF g
<1>7. \A w \in Wheels : g[w] = IF w = 1 THEN n ELSE Step(w, g[w - 1])
  BY <1>6 DEF Def
<1>8. g[1] = n
  BY <1>7, WheelsFacts
<1>9. ASSUME NEW w \in 1 .. N - 1
      PROVE  /\ g[w + 1] = Minus(g[w], WheelSizes[w] * TicksPerBucket[w])
             /\ g[w + 1] = Step(w + 1, g[w])
             /\ w + 1 \in 2 .. N /\ w + 1 \in Wheels
  <2>1. w + 1 \in 2 .. N /\ (w + 1) - 1 = w /\ w + 1 # 1 /\ w + 1 \in Wheels
    BY WheelsFacts
  <2>2. QED
    BY <2>1, <1>7 DEF Step
<1> DEFINE S == {w \in Wheels : g[w] \in V}
<1>10. 1 \in S
  BY <1>8, WheelsFacts DEF V
<1>11. ASSUME NEW w \in 1 .. N - 1, w \in S PROVE w + 1 \in S
  BY <1>11, <1>9, <1>1
<1> HIDE DEF S
<1>12. \A w \in 1 .. N : w \in S
  BY <1>2, <1>10, <1>11, RangeInduction
<1>13. QED
  BY <1>2, <1>8, <1>9, <1>12 DEF S, V, g

\* No wheel holds more than all do, and the bucket of a wheel no more than the
\* wheels below it.
LEMMA CapacityFacts ==
  /\ Capacity \in Nat
  /\ \A w \in Wheels : /\ TicksBelow[w + 1] <= Capacity
                       /\ WheelSizes[w] * TicksPerBucket[w] \in Nat \ {0}
                       /\ WheelSizes[w] * TicksPerBucket[w] <= Capacity
  /\ \A w \in Wheels : w # 1 => TicksPerBucket[w] <= TicksBelow[w]
<1>1. ASSUME NEW w \in Wheels
      PROVE  WheelSizes[w] * TicksPerBucket[w] \in Nat \ {0}
  BY WheelsFacts, TicksPerBucketFacts, Product
<1>2. Capacity = TicksBelow[N + 1] /\ Capacity \in Nat
  BY WheelsFacts, TicksBelowFacts DEF Capacity, N
<1>3. ASSUME NEW w \in Wheels
      PROVE  /\ TicksBelow[w + 1] \in Nat /\ TicksBelow[w] \in Nat
             /\ TicksBelow[w] <= TicksBelow[w + 1]
             /\ WheelSizes[w] * TicksPerBucket[w] <= TicksBelow[w + 1]
  <2>1. PICK x \in Nat \ {0} : x = WheelSizes[w] * TicksPerBucket[w]
    BY <1>1
  <2>2. w \in 1 .. N + 1 /\ w + 1 \in 1 .. N + 1
    BY WheelsFacts
  <2>3. PICK y \in Nat : y = TicksBelow[w]
    BY <2>2, TicksBelowFacts
  <2>4. TicksBelow[w + 1] = y + x
    BY <2>1, <2>3, TicksBelowFacts
  <2>5. QED
    BY <2>1, <2>3, <2>4
<1> DEFINE S == {k \in Nat : \A w \in Wheels : w + k = N => TicksBelow[w + 1] <= Capacity}
<1>4. 0 \in S
  BY <1>2, WheelsFacts
<1>5. ASSUME NEW k \in S PROVE k + 1 \in S
  <2> SUFFICES ASSUME NEW w \in Wheels, w + (k + 1) = N PROVE TicksBelow[w + 1] <= Capacity
    OBVIOUS
  <2>1. w + 1 \in Wheels /\ (w + 1) + k = N
    BY WheelsFacts
  <2>2. TicksBelow[(w + 1) + 1] <= Capacity
    BY <2>1
  <2>3. TicksBelow[w + 1] \in Nat /\ TicksBelow[(w + 1) + 1] \in Nat
        /\ TicksBelow[w + 1] <= TicksBelow[(w + 1) + 1]
    BY <2>1, <1>3
  <2>4. QED
    BY <2>2, <2>3, <1>2
<1> HIDE DEF S
<1>6. S = Nat
  <2>1. S \in SUBSET Nat
    BY DEF S
  <2>2. QED
    BY <2>1, <1>4, <1>5, SetInduction
<1>7. ASSUME NEW w \in Wheels PROVE TicksBelow[w + 1] <= Capacity
  <2>1. N - w \in S /\ w + (N - w) = N
    BY <1>6, WheelsFacts
  <2>2. QED
    BY <2>1 DEF S
<1>8. ASSUME NEW w \in Wheels, w # 1 PROVE TicksPerBucket[w] <= TicksBelow[w]
  <2>1. PICK v \in 1 .. N - 1 : v + 1 = w /\ v \in Wheels
    <3>1. w - 1 \in 1 .. N - 1 /\ (w - 1) + 1 = w /\ w - 1 \in Wheels
      BY <1>8, WheelsFacts
    <3>2. QED
      BY <3>1
  <2>2. TicksPerBucket[w] = WheelSizes[v] * TicksPerBucket[v]
    BY <2>1, TicksPerBucketFacts
  <2>3. QED
    BY <2>1, <2>2, <1>3
<1>9. ASSUME NEW w \in Wheels PROVE WheelSizes[w] * TicksPerBucket[w] <= Capacity
  <2>1. PICK x \in Nat \ {0} : x = WheelSizes[w] * TicksPerBucket[w]
    BY <1>1
  <2>2. x <= TicksBelow[w + 1] /\ TicksBelow[w + 1] \in Nat /\ TicksBelow[w + 1] <= Capacity
    BY <1>3, <1>7, <2>1
  <2>3. x <= Capacity
    BY <2>2, <1>2
  <2>4. QED
    BY <2>1, <2>3
<1>10. QED
  BY <1>1, <1>2, <1>7, <1>8, <1>9

\* A subtraction of no more than there is does not wrap around.
LEMMA MinusSmall ==
  ASSUME NEW a \in 0 .. 2 ^ Width - 1, NEW b \in 0 .. a
  PROVE  Minus(a, b) = a - b
<1>1. PICK m \in Nat \ {0} : m = 2 ^ Width
  BY WheelAssumption
<1>2. PICK x \in 0 .. m - 1 : x = a - b
  BY <1>1
<1>3. (x + m) % m = x % m /\ x % m = x
  <2>1. x \in Int
    OBVIOUS
  <2>2. QED
    BY <2>1, ModAddOnce, ModSmall, Zenon
<1>4. a + m - b = x + m
  BY <1>1, <1>2
<1>5. QED
  BY <1>1, <1>2, <1>3, <1>4 DEF Minus

\* As long as the ticks left to fit do not wrap around, they are what the wheels
\* below have no room for.
LEMMA TicksLeft ==
  ASSUME NEW n \in 0 .. 2 ^ Width - 1, NEW w \in Wheels, TicksBelow[w] <= n
  PROVE  TicksToFit(n)[w] = n - TicksBelow[w]
<1> DEFINE S == {v \in Wheels : TicksBelow[v] <= n => TicksToFit(n)[v] = n - TicksBelow[v]}
<1>0. n \in Int
  BY WheelAssumption
<1>1. 1 \in S
  BY <1>0, WheelsFacts, TicksToFitFacts, TicksBelowFacts
<1>2. ASSUME NEW v \in 1 .. N - 1, v \in S PROVE v + 1 \in S
  <2>1. v \in Wheels /\ v + 1 \in Wheels /\ v \in 1 .. N + 1
    BY WheelsFacts
  <2> SUFFICES ASSUME TicksBelow[v + 1] <= n
               PROVE  TicksToFit(n)[v + 1] = n - TicksBelow[v + 1]
    BY <2>1
  <2>2. PICK x \in Nat \ {0} : x = WheelSizes[v] * TicksPerBucket[v]
    BY <2>1, CapacityFacts
  <2>3. PICK y \in Nat : y = TicksBelow[v]
    BY <2>1, TicksBelowFacts
  <2>4. TicksBelow[v + 1] = y + x
    BY <2>1, <2>2, <2>3, TicksBelowFacts
  <2>5. TicksToFit(n)[v] = n - y
    BY <2>3, <2>4, <1>0, <1>2
  <2>6. PICK a \in 0 .. 2 ^ Width - 1 : a = n - y
    BY <2>4, WheelAssumption
  <2>7. PICK b \in 0 .. a : b = x
    BY <2>4, <2>6, <1>0
  <2>8. TicksToFit(n)[v + 1] = Minus(a, b)
    BY <2>2, <2>5, <2>6, <2>7, TicksToFitFacts
  <2>9. TicksToFit(n)[v + 1] = a - b
    BY <2>8, MinusSmall
  <2>10. QED
    BY <2>4, <2>6, <2>7, <2>9, <1>0
<1> HIDE DEF S
<1>3. \A v \in 1 .. N : v \in S
  BY <1>1, <1>2, WheelsFacts, RangeInduction
<1>4. QED
  BY <1>3, WheelsFacts DEF S

\* determine_timer_wheel finds a wheel, the highest at the latest.
LEMMA TimerWheelFacts ==
  ASSUME NEW n
  PROVE  TimerWheel(n) \in Wheels /\ CanFit(n, TimerWheel(n))
<1> DEFINE F == {w \in Wheels : CanFit(n, w)}
<1>1. F \in SUBSET Nat /\ N \in F
  BY WheelsFacts DEF CanFit, N
<1>2. PICK x \in F : \A y \in F : x <= y
  <2> HIDE DEF F
  <2>1. F # {}
    BY <1>1
  <2>2. QED
    BY <1>1, <2>1, LeastNatural
<1>3. ASSUME NEW v \in 1 .. x - 1 PROVE ~CanFit(n, v)
  <2>1. v \in Wheels /\ ~(x <= v)
    BY WheelsFacts
  <2>2. QED
    BY <2>1, <1>2
<1>4. QED
  BY <1>2, <1>3 DEF TimerWheel

-----------------------------------------------------------------------------
(* The wheels are a clock.                                                 *)

\* The digits of a number to the mixed base of the wheels: from t to s * t.
LEMMA NextDigit ==
  ASSUME NEW a \in Nat, NEW s \in Nat \ {0}, NEW t \in Nat \ {0}
  PROVE  /\ a % (s * t) = t * ((a \div t) % s) + (a % t)
         /\ a \div (s * t) = (a \div t) \div s
<1>1. PICK q \in Nat, r \in 0 .. t - 1 : q = a \div t /\ r = a % t /\ a = t * q + r
  BY Divided, Zenon
<1>2. PICK k \in Nat, d \in 0 .. s - 1 : k = q \div s /\ d = q % s /\ q = s * k + d
  BY Divided, Zenon
<1>3. PICK u \in Nat \ {0} : u = s * t
  BY Product
<1>4. PICK x \in 0 .. u - 1 : x = t * d + r
  <2>1. PICK j \in Nat : j = s - 1 - d
    OBVIOUS
  <2>2. t * j >= 0 /\ t * d >= 0 /\ t * d \in Int /\ t * j \in Int
    BY Z3
  <2>3. s * t = t * j + t * d + t
    BY <2>1, Z3
  <2>4. t * d + r \in 0 .. u - 1
    BY <1>3, <2>2, <2>3
  <2>5. QED
    BY <2>4
<1>5. a = u * k + x
  <2>1. t * q = t * (s * k) + t * d
    BY <1>2, Z3
  <2>2. t * (s * k) = (s * t) * k
    BY Z3
  <2>3. PICK z \in Int : z = (s * t) * k
    OBVIOUS
  <2>4. PICK y \in Int : y = t * d
    OBVIOUS
  <2>5. t * q = z + y
    BY <2>1, <2>2, <2>3, <2>4
  <2>6. a = z + (y + r)
    BY <1>1, <2>5
  <2>7. QED
    BY <1>3, <1>4, <2>3, <2>4, <2>6
<1>6. a \div u = k /\ a % u = x
  BY <1>5, DivModUnique
<1>7. QED
  BY <1>1, <1>2, <1>3, <1>4, <1>6

\* The quotient of the next number is the next one only after the last remainder.
LEMMA NextQuotient ==
  ASSUME NEW a \in Nat, NEW n \in Nat \ {0}
  PROVE  /\ a % n = n - 1 => (a + 1) \div n = (a \div n) + 1
         /\ a % n # n - 1 => (a + 1) \div n = a \div n
<1>1. PICK q \in Nat, r \in 0 .. n - 1 : q = a \div n /\ r = a % n /\ a = n * q + r
  BY Divided, Zenon
<1>2. PICK b \in Int : b = a + 1
  OBVIOUS
<1>3. ASSUME r = n - 1 PROVE b \div n = q + 1
  <2>1. PICK k \in Int : k = q + 1
    OBVIOUS
  <2>2. PICK z \in 0 .. n - 1 : z = 0
    OBVIOUS
  <2>3. b = n * k + z
    BY <1>1, <1>2, <1>3, <2>1, <2>2
  <2>4. b \div n = k
    BY <2>3, DivModUnique
  <2>5. QED
    BY <2>1, <2>4
<1>4. ASSUME r # n - 1 PROVE b \div n = q
  <2>1. PICK z \in 0 .. n - 1 : z = r + 1
    BY <1>4
  <2>2. b = n * q + z
    BY <1>1, <1>2, <2>1
  <2>3. QED
    BY <2>2, DivModUnique
<1>5. QED
  BY <1>1, <1>2, <1>3, <1>4

\* The index of each wheel is a digit of the number of ticks.
Digits == \A w \in Wheels : index[w] = (ticks \div TicksPerBucket[w]) % WheelSizes[w]

\* A wheel turns when a bucket of it has passed.
LEMMA TurnsAtLastTick ==
  ASSUME ticks \in Nat, Digits, NEW w \in Wheels
  PROVE  Turns(w) <=> ticks % TicksPerBucket[w] = TicksPerBucket[w] - 1
<1> DEFINE S == {v \in Wheels : Turns(v) <=> ticks % TicksPerBucket[v] = TicksPerBucket[v] - 1}
<1>1. 1 \in S
  <2>1. Turns(1) /\ 1 \in Wheels
    BY WheelsFacts DEF Turns
  <2>2. ticks % 1 = 0
    OBVIOUS
  <2>3. QED
    BY <2>1, <2>2, TicksPerBucketFacts
<1>2. ASSUME NEW v \in 1 .. N - 1, v \in S PROVE v + 1 \in S
  <2>1. v \in Wheels /\ v + 1 \in Wheels
    BY WheelsFacts
  <2>2. PICK t \in Nat \ {0} : t = TicksPerBucket[v]
    BY <2>1, TicksPerBucketFacts
  <2>3. PICK s \in Nat \ {0} : s = WheelSizes[v]
    BY <2>1, WheelsFacts
  <2>4. PICK q \in Nat, r \in 0 .. t - 1 : q = ticks \div t /\ r = ticks % t
    BY Divided, Zenon
  <2>6. PICK d \in 0 .. s - 1 : d = q % s
    BY Divided, Zenon
  <2>7. index[v] = d
    BY <2>1, <2>2, <2>3, <2>4, <2>6 DEF Digits
  <2>8. Turns(v + 1) <=> Turns(v) /\ d = s - 1
    <3>1. \A u : u \in 1 .. (v + 1) - 1 <=> u \in 1 .. v - 1 \/ u = v
      BY <2>1, WheelsFacts
    <3>2. QED
      BY <3>1, <2>3, <2>7 DEF Turns
  <2>9. TicksPerBucket[v + 1] = s * t
    BY <2>2, <2>3, TicksPerBucketFacts
  <2>10. ticks % (s * t) = t * d + r
    BY <2>4, <2>6, NextDigit
  <2>11. t * d + r = s * t - 1 <=> d = s - 1 /\ r = t - 1
    <3>1. PICK k \in Int : k = s - 1
      OBVIOUS
    <3>2. PICK z \in 0 .. t - 1 : z = t - 1
      OBVIOUS
    <3>3. s * t - 1 = t * k + z
      BY <3>1, <3>2, Z3
    <3>4. PICK x \in Int : x = t * k + z
      OBVIOUS
    <3>5. x \div t = k /\ x % t = z
      BY <3>4, DivModUnique
    <3>6. PICK y \in Int : y = t * d + r
      OBVIOUS
    <3>7. y \div t = d /\ y % t = r
      BY <3>6, DivModUnique
    <3>8. x = y <=> k = d /\ z = r
      BY <3>4, <3>5, <3>6, <3>7
    <3>9. QED
      BY <3>1, <3>2, <3>3, <3>4, <3>6, <3>8
  <2>12. Turns(v) <=> r = t - 1
    BY <1>2, <2>2, <2>4
  <2>13. QED
    BY <2>1, <2>8, <2>9, <2>10, <2>11, <2>12
<1> HIDE DEF S
<1>3. \A v \in 1 .. N : v \in S
  BY <1>1, <1>2, WheelsFacts, RangeInduction
<1>4. QED
  BY <1>3, WheelsFacts DEF S

\* The ticks counted so far keep between the time and half of it.
ClockOK ==
  /\ now \in 0 .. MaxTime /\ last_advancement_time \in 0 .. now
  /\ now <= last_advancement_time + MaxLag
  /\ completed_buckets \in 0 .. MaxLag /\ ticks \in Nat
  /\ (ticks + completed_buckets) * TickSize <= last_advancement_time
  /\ last_advancement_time <= (ticks + completed_buckets) * (2 * TickSize - 1)

KeepsTime == ClockOK /\ Digits

\* KeepsTime is inductive.
LEMMA KeepsTimeStep == KeepsTime /\ [Next]_vars => KeepsTime'
<1> SUFFICES ASSUME KeepsTime, [Next]_vars PROVE KeepsTime'
  OBVIOUS
<1> USE DEF KeepsTime
<1>0. MaxTime \in Nat /\ MaxLag \in Nat /\ TickSize \in Nat \ {0}
  BY WheelAssumption
<1>1. CASE PassTime
  BY <1>0, <1>1 DEF PassTime, ClockOK, Digits, history
<1>2. CASE Advance
  <2>1. PICK d \in Nat : d = now - last_advancement_time /\ d >= TickSize /\ d <= MaxLag
    BY <1>0, <1>2 DEF Advance, ClockOK
  <2>2. PICK E \in Nat, r \in 0 .. TickSize - 1 :
          E = d \div TickSize /\ r = d % TickSize /\ d = TickSize * E + r
    BY <1>0, Divided, Zenon
  <2>3. PICK c \in Nat : c = ticks /\ completed_buckets = 0
    BY <1>2 DEF Advance, Idle, ClockOK
  <2>4. E >= 1
    <3>1. E = 0 => TickSize * E = 0
      BY <1>0
    <3>2. QED
      BY <1>0, <2>1, <2>2, <3>1
  <2>5. E <= MaxLag
    <3>1. E \in Nat \ {0}
      BY <2>4
    <3>2. TickSize * E >= E /\ TickSize * E \in Int
      BY <1>0, <3>1, Product
    <3>3. QED
      BY <1>0, <2>1, <2>2, <3>2
  <2>6. /\ now' = now /\ last_advancement_time' = now /\ completed_buckets' = E
        /\ ticks' = c /\ index' = index
    BY <1>2, <2>1, <2>2, <2>3 DEF Advance, Elapsed, history
  <2>7. c * TickSize <= last_advancement_time /\ last_advancement_time <= c * (2 * TickSize - 1)
    BY <2>3 DEF ClockOK
  <2>8. now = last_advancement_time + d /\ last_advancement_time \in Nat /\ now \in 0 .. MaxTime
    BY <2>1, <1>0 DEF ClockOK
  <2>9. (c + E) * TickSize <= now
    <3>1. (c + E) * TickSize = c * TickSize + TickSize * E
      BY <1>0, Z3
    <3>2. PICK x \in Int, y \in Int : x = c * TickSize /\ y = TickSize * E
      BY <1>0
    <3>3. QED
      BY <1>0, <2>2, <2>7, <2>8, <3>1, <3>2
  <2>10. now <= (c + E) * (2 * TickSize - 1)
    <3>1. PICK k \in Nat : k = TickSize - 1
      BY <1>0
    <3>2. (c + E) * (2 * TickSize - 1) = c * (2 * TickSize - 1) + TickSize * E + E * k
      BY <1>0, <3>1, Z3
    <3>3. E * k >= k
      <4>1. k = 0 => E * k = 0
        OBVIOUS
      <4>2. k # 0 => E * k >= k
        BY <2>4, Product
      <4>3. QED
        BY <4>1, <4>2
    <3>4. PICK x \in Int, y \in Int, z \in Int :
            x = c * (2 * TickSize - 1) /\ y = TickSize * E /\ z = E * k
      BY <1>0
    <3>5. QED
      BY <1>0, <2>2, <2>7, <2>8, <3>1, <3>2, <3>3, <3>4
  <2>11. Digits'
    BY <2>3, <2>6 DEF Digits
  <2>12. now <= now + MaxLag /\ now \in 0 .. now /\ E \in 0 .. MaxLag
    BY <1>0, <2>5, <2>8
  <2>13. ClockOK'
    BY <2>6, <2>8, <2>9, <2>10, <2>12 DEF ClockOK
  <2>14. QED
    BY <2>11, <2>13
<1>3. CASE Tick
  <2>1. /\ now' = now /\ last_advancement_time' = last_advancement_time
        /\ completed_buckets' = completed_buckets - 1 /\ completed_buckets # 0
        /\ ticks' = ticks + 1
    BY <1>3 DEF Tick, Idle, clock
  <2>2. ClockOK'
    <3>1. completed_buckets' \in 0 .. MaxLag /\ ticks' \in Nat
          /\ ticks' + completed_buckets' = ticks + completed_buckets
      BY <2>1, <1>0 DEF ClockOK
    <3>2. QED
      BY <2>1, <3>1 DEF ClockOK
  <2>3. ASSUME NEW w \in Wheels
        PROVE  index'[w] = (ticks' \div TicksPerBucket[w]) % WheelSizes[w]
    <3>1. PICK t \in Nat \ {0} : t = TicksPerBucket[w]
      BY TicksPerBucketFacts
    <3>2. PICK s \in Nat \ {0} : s = WheelSizes[w]
      BY WheelsFacts
    <3>3. PICK a \in Nat : a = ticks
      BY DEF ClockOK
    <3>4. PICK q \in Nat : q = a \div t
      BY ModAtMost
    <3>5. index[w] = q % s
      BY <3>1, <3>2, <3>3, <3>4 DEF Digits
    <3>6. Turns(w) <=> a % t = t - 1
      BY <3>1, <3>3, TurnsAtLastTick
    <3>7. (a + 1) \div t = IF Turns(w) THEN q + 1 ELSE q
      BY <3>4, <3>6, NextQuotient
    <3>8. index'[w] = IF Turns(w) THEN (index[w] + 1) % s ELSE index[w]
      BY <1>3, <3>2 DEF Tick
    <3>9. ((q % s) + 1) % s = (q + 1) % s
      <4>1. q \in Int /\ 1 \in Int
        OBVIOUS
      <4>2. QED
        BY <4>1, ModSum, Zenon
    <3>10. QED
      BY <2>1, <3>1, <3>2, <3>3, <3>5, <3>7, <3>8, <3>9
  <2>4. QED
    BY <2>2, <2>3 DEF Digits
<1>4. CASE Stop \/ UNCHANGED vars
  BY <1>4 DEF Stop, vars, ClockOK, Digits, clock, history
<1>5. CASE \E t \in Timers, d \in Durations : Schedule(t, d)
  BY <1>5 DEF Schedule, ClockOK, Digits, clock
<1>6. QED
  BY <1>1, <1>2, <1>3, <1>4, <1>5 DEF Next

-----------------------------------------------------------------------------
(* The entries of the buckets.                                             *)

\* The turns of wheel w until bucket b is its current one.
Ahead(w, b) == (b + WheelSizes[w] - index[w]) % WheelSizes[w]

\* The tick in which the timer of entry e in bucket b of wheel w will be resolved.
Expiry(w, b, e) ==
  TicksPerBucket[w] * ((ticks \div TicksPerBucket[w]) + Ahead(w, b)) + e.offset + TicksBelow[w]

BucketsOK ==
  /\ buckets = [w \in Wheels |-> [b \in Buckets(w) |-> buckets[w][b]]]
  /\ \A w \in Wheels : \A b \in Buckets(w) :
       buckets[w][b] \subseteq [timer : Timers, offset : 0 .. TicksPerBucket[w] - 1]

HistoryOK ==
  /\ asked \in [Timers -> Asked \cup {Never}]
  /\ resolved \in [Timers -> Nat \cup {Never}]

\* x is the tick that all entries of timer t expire in.
ExpiresIn(t, x) ==
  \A w \in Wheels : \A b \in Buckets(w) : \A e \in buckets[w][b] :
    e.timer = t => Expiry(w, b, e) = x

\* A timer is in the wheels exactly while it is pending; all its entries agree on
\* when it expires, which is what EarlyByTicksTurned and LateByLessThanCapacity say.
TimerOK(t) ==
  /\ asked[t] = Never => resolved[t] = Never /\ t \notin Waiting
  /\ resolved[t] # Never =>
       /\ t \notin Waiting /\ asked[t] # Never
       /\ Fits(t) => resolved[t] = asked[t].due - asked[t].turned + 1
  /\ t \in Pending =>
       /\ t \in Waiting
       /\ \E x \in Nat : /\ ExpiresIn(t, x) /\ x < asked[t].due + Capacity
                         /\ Fits(t) => x = asked[t].due - asked[t].turned

WheelInv == KeepsTime /\ BucketsOK /\ HistoryOK /\ \A t \in Timers : TimerOK(t)

\* A number below 2 * s is taken to its remainder by one subtraction, if any.
LEMMA Wrap ==
  ASSUME NEW s \in Nat \ {0}, NEW x \in 0 .. 2 * s - 1
  PROVE  x % s = IF x < s THEN x ELSE x - s
<1>1. CASE x < s
  <2>1. x \in 0 .. s - 1
    BY <1>1
  <2>2. QED
    BY <1>1, <2>1, ModSmall
<1>2. CASE ~(x < s)
  <2>1. PICK y \in 0 .. s - 1 : x = y + s
    <3>1. x - s \in 0 .. s - 1 /\ x = (x - s) + s
      BY <1>2
    <3>2. QED
      BY <3>1
  <2>2. y \in Int
    OBVIOUS
  <2>3. (y + s) % s = y % s /\ y % s = y
    BY <2>2, ModAddOnce, ModSmall, Zenon
  <2>4. QED
    BY <1>2, <2>1, <2>3
<1>3. QED
  BY <1>1, <1>2

\* The index of a wheel is a bucket of it.
LEMMA IndexInRange ==
  ASSUME KeepsTime, NEW w \in Wheels
  PROVE  index[w] \in Buckets(w)
<1>1. PICK s \in Nat \ {0} : s = WheelSizes[w]
  BY WheelsFacts
<1>2. PICK t \in Nat \ {0} : t = TicksPerBucket[w]
  BY TicksPerBucketFacts
<1>3. ticks \in Nat
  BY DEF KeepsTime, ClockOK
<1>4. PICK q \in Nat : q = ticks \div t
  BY <1>3, Divided, Zenon
<1>5. PICK d \in 0 .. s - 1 : d = q % s
  BY Divided, Zenon
<1>6. QED
  BY <1>1, <1>2, <1>4, <1>5 DEF KeepsTime, Digits, Buckets

\* Nothing expires in the past, and only the current bucket of the lowest wheel now.
LEMMA ExpiryNotPast ==
  ASSUME KeepsTime, BucketsOK,
         NEW w \in Wheels, NEW b \in Buckets(w), NEW e \in buckets[w][b]
  PROVE  /\ Expiry(w, b, e) \in Nat /\ ticks <= Expiry(w, b, e)
         /\ Expiry(w, b, e) = ticks <=> w = 1 /\ b = index[1]
<1>1. PICK s \in Nat \ {0} : s = WheelSizes[w]
  BY WheelsFacts
<1>2. PICK t \in Nat \ {0} : t = TicksPerBucket[w]
  BY TicksPerBucketFacts
<1>3. PICK a \in Nat : a = ticks
  BY DEF KeepsTime, ClockOK
<1>4. PICK q \in Nat, r \in 0 .. t - 1 : q = a \div t /\ r = a % t /\ a = t * q + r
  BY Divided, Zenon
<1>5. PICK i \in 0 .. s - 1 : i = index[w]
  BY <1>1, IndexInRange DEF Buckets
<1>6. b \in 0 .. s - 1
  BY <1>1 DEF Buckets
<1>7. PICK h \in 0 .. s - 1 : h = Ahead(w, b) /\ (h = 0 <=> b = i)
  <2>1. PICK x \in 0 .. 2 * s - 1 : x = b + s - i
    BY <1>6
  <2>2. x % s = IF x < s THEN x ELSE x - s
    BY Wrap
  <2>3. x % s \in 0 .. s - 1 /\ (x % s = 0 <=> b = i)
    BY <1>6, <2>1, <2>2
  <2>4. QED
    BY <1>1, <1>5, <2>1, <2>3 DEF Ahead
<1>8. PICK o \in 0 .. t - 1 : o = e.offset
  BY <1>2 DEF BucketsOK
<1>9. PICK B \in Nat : B = TicksBelow[w] /\ (w = 1 => B = 0 /\ t = 1) /\ (w # 1 => t <= B)
  <2>1. w \in 1 .. N + 1
    BY WheelsFacts
  <2>2. TicksBelow[w] \in Nat
    BY <2>1, TicksBelowFacts
  <2>3. QED
    BY <2>2, <1>2, TicksBelowFacts, TicksPerBucketFacts, CapacityFacts
<1>10. Expiry(w, b, e) = t * (q + h) + o + B
  BY <1>2, <1>3, <1>4, <1>7, <1>8, <1>9 DEF Expiry
<1>11. PICK g \in Nat : t * h = g /\ (h = 0 => g = 0) /\ (h # 0 => g >= t)
  <2>1. t * h \in Nat /\ (h = 0 => t * h = 0)
    BY Z3
  <2>2. h # 0 => t * h >= t
    BY Product
  <2>3. QED
    BY <2>1, <2>2
<1>12. PICK X \in Int : X = Expiry(w, b, e) /\ X = (a - r) + g + o + B
  <2>1. t * (q + h) = t * q + t * h
    BY Z3
  <2>2. PICK y \in Int, z \in Int : y = t * q /\ z = t * (q + h)
    OBVIOUS
  <2>3. z = y + g /\ a = y + r /\ Expiry(w, b, e) = z + o + B
    BY <1>4, <1>10, <1>11, <2>1, <2>2
  <2>4. QED
    BY <2>3
<1>13. a - r >= 0
  <2>1. t * q >= 0 /\ t * q \in Int
    BY Z3
  <2>2. QED
    BY <1>4, <2>1
<1>14. CASE w = 1
  BY <1>14, <1>3, <1>5, <1>7, <1>9, <1>11, <1>12, <1>13
<1>15. CASE w # 1
  BY <1>15, <1>3, <1>9, <1>11, <1>12, <1>13
<1>16. QED
  BY <1>14, <1>15

\* What stays in its bucket expires when it did.
LEMMA ExpiryOfKept ==
  ASSUME KeepsTime, BucketsOK, Tick,
         NEW w \in Wheels, NEW b \in Buckets(w), NEW e, ~(Turns(w) /\ b = index[w])
  PROVE  Expiry(w, b, e)' = Expiry(w, b, e)
<1>1. PICK s \in Nat \ {0} : s = WheelSizes[w]
  BY WheelsFacts
<1>2. PICK t \in Nat \ {0} : t = TicksPerBucket[w]
  BY TicksPerBucketFacts
<1>3. PICK a \in Nat : a = ticks
  BY DEF KeepsTime, ClockOK
<1>4. ticks' = a + 1
  BY <1>3 DEF Tick
<1>5. PICK q \in Nat : q = a \div t
  BY Divided, Zenon
<1>6. (a + 1) \div t = IF Turns(w) THEN q + 1 ELSE q
  <2>1. Turns(w) <=> a % t = t - 1
    BY <1>2, <1>3, TurnsAtLastTick DEF KeepsTime
  <2>2. QED
    BY <1>5, <2>1, NextQuotient
<1>7. index'[w] = IF Turns(w) THEN (index[w] + 1) % s ELSE index[w]
  BY <1>1 DEF Tick
<1>8. CASE ~Turns(w)
  <2>1. Ahead(w, b)' = Ahead(w, b)
    BY <1>7, <1>8 DEF Ahead
  <2>2. QED
    BY <1>2, <1>3, <1>4, <1>5, <1>6, <1>8, <2>1 DEF Expiry
<1>9. CASE Turns(w)
  <2>1. PICK i \in 0 .. s - 1 : i = index[w] /\ b # i
    BY <1>1, <1>9, IndexInRange DEF Buckets
  <2>2. b \in 0 .. s - 1
    BY <1>1 DEF Buckets
  <2>3. PICK j \in 0 .. s - 1 : j = index'[w] /\ j = IF i = s - 1 THEN 0 ELSE i + 1
    <3>1. PICK x \in 0 .. 2 * s - 1 : x = i + 1
      OBVIOUS
    <3>2. x % s = IF x < s THEN x ELSE x - s
      BY Wrap
    <3>3. index'[w] = x % s
      BY <1>7, <1>9, <2>1, <3>1
    <3>4. QED
      BY <3>1, <3>2, <3>3
  <2>4. PICK h \in Nat : h = Ahead(w, b) /\ h = IF b >= i THEN b - i ELSE b + s - i
    <3>1. PICK x \in 0 .. 2 * s - 1 : x = b + s - i
      BY <2>2
    <3>2. x % s = IF x < s THEN x ELSE x - s
      BY Wrap
    <3>3. Ahead(w, b) = x % s
      BY <1>1, <2>1, <3>1 DEF Ahead
    <3>4. QED
      BY <2>2, <3>1, <3>2, <3>3
  <2>5. PICK k \in Nat : k = Ahead(w, b)' /\ k = IF b >= j THEN b - j ELSE b + s - j
    <3>1. PICK x \in 0 .. 2 * s - 1 : x = b + s - j
      BY <2>2
    <3>2. x % s = IF x < s THEN x ELSE x - s
      BY Wrap
    <3>3. Ahead(w, b)' = x % s
      BY <1>1, <2>3, <3>1 DEF Ahead
    <3>4. QED
      BY <2>2, <3>1, <3>2, <3>3
  <2>6. (q + 1) + k = q + h
    BY <2>1, <2>2, <2>3, <2>4, <2>5
  <2>7. Expiry(w, b, e) = t * (q + h) + e.offset + TicksBelow[w]
    BY <1>2, <1>3, <1>5, <2>4 DEF Expiry
  <2>8. Expiry(w, b, e)' = t * ((q + 1) + k) + e.offset + TicksBelow[w]
    BY <1>2, <1>4, <1>6, <1>9, <2>5 DEF Expiry
  <2>9. QED
    BY <2>6, <2>7, <2>8
<1>10. QED
  BY <1>8, <1>9

\* A number below s * t has less than s times t in it.
LEMMA QuotientBelow ==
  ASSUME NEW s \in Nat \ {0}, NEW t \in Nat \ {0}, NEW T \in Nat, T = s * t,
         NEW q \in Nat, NEW r \in Nat, t * q + r < T
  PROVE  q \in 0 .. s - 1
<1>1. PICK k \in Int : k = q - s
  OBVIOUS
<1>2. t * k = t * q - s * t
  BY <1>1, Z3
<1>3. PICK y \in Int, u \in Int : y = t * q /\ u = t * k
  OBVIOUS
<1>4. u < 0
  BY <1>2, <1>3
<1>5. k >= 0 => t * k >= 0
  BY Z3
<1>6. QED
  BY <1>1, <1>3, <1>4, <1>5

\* What is loaded into bucket b of wheel w, without the arithmetic of size_t.
LEMMA LoadedIs ==
  ASSUME KeepsTime, BucketsOK,
         NEW w \in Wheels, w + 1 \in Wheels, NEW b \in Buckets(w)
  PROVE  Loaded(w, b) =
           {[timer |-> e.timer, offset |-> e.offset % TicksPerBucket[w]] :
              e \in {x \in buckets[w + 1][index[w + 1]] : x.offset \div TicksPerBucket[w] = b}}
<1>1. PICK s \in Nat \ {0} : s = WheelSizes[w]
  BY WheelsFacts
<1>2. PICK t \in Nat \ {0} : t = TicksPerBucket[w]
  BY TicksPerBucketFacts
<1>3. TicksPerBucket[w + 1] = s * t
  <2>1. w \in 1 .. N - 1
    BY WheelsFacts
  <2>2. QED
    BY <1>1, <1>2, <2>1, TicksPerBucketFacts
<1>4. PICK m \in Nat, T \in Nat : m = 2 ^ Width /\ T = s * t /\ T < m
  BY <1>1, <1>2, CapacityFacts, WheelAssumption
<1> DEFINE From == buckets[w + 1][index[w + 1]]
<1>5. ASSUME NEW e \in From
      PROVE  /\ (e.offset \div t) % s = e.offset \div t
             /\ e.offset \div t = b => Minus(e.offset, b * t) = e.offset % t
  <2>1. index[w + 1] \in Buckets(w + 1)
    BY IndexInRange
  <2>2. PICK o \in 0 .. T - 1 : o = e.offset
    BY <1>3, <1>4, <2>1 DEF BucketsOK
  <2>3. PICK q \in Nat, r \in 0 .. t - 1 : q = o \div t /\ r = o % t /\ o = t * q + r
    <3>1. o \in Nat
      BY <1>4
    <3>2. QED
      BY <3>1, Divided, Zenon
  <2>4. q \in 0 .. s - 1
    BY <1>4, <2>3, QuotientBelow
  <2>5. q % s = q
    BY <2>4, ModSmall
  <2>6. ASSUME q = b PROVE Minus(o, b * t) = r
    <3>1. PICK y \in Int : y = b * t /\ y = t * q /\ y >= 0
      <4>1. b * t = t * q /\ t * q >= 0 /\ t * q \in Int
        BY <2>6, Z3
      <4>2. QED
        BY <4>1
    <3>2. o \in 0 .. 2 ^ Width - 1 /\ y \in 0 .. o
      BY <1>4, <2>3, <3>1
    <3>3. Minus(o, y) = o - y
      BY <3>2, MinusSmall
    <3>4. o - y = r
      BY <2>3, <3>1
    <3>5. QED
      BY <3>1, <3>3, <3>4
  <2>7. QED
    BY <2>2, <2>3, <2>5, <2>6
<1>6. QED
  BY <1>1, <1>2, <1>5 DEF Loaded

\* What is loaded expires when it did in the wheel above.
LEMMA ExpiryOfLoaded ==
  ASSUME KeepsTime, BucketsOK, Tick,
         NEW w \in Wheels, w + 1 \in Wheels, Turns(w + 1),
         NEW e \in buckets[w + 1][index[w + 1]], NEW f,
         f.offset = e.offset % TicksPerBucket[w], NEW b, b = e.offset \div TicksPerBucket[w]
  PROVE  /\ b \in Buckets(w)
         /\ Expiry(w, b, f)' = Expiry(w + 1, index[w + 1], e)
<1>1. PICK s \in Nat \ {0} : s = WheelSizes[w]
  BY WheelsFacts
<1>2. PICK t \in Nat \ {0} : t = TicksPerBucket[w]
  BY TicksPerBucketFacts
<1>3. PICK T \in Nat \ {0} : T = TicksPerBucket[w + 1] /\ T = s * t
  <2>1. w \in 1 .. N - 1
    BY WheelsFacts
  <2>2. QED
    BY <1>1, <1>2, <2>1, TicksPerBucketFacts, Product
<1>4. PICK a \in Nat : a = ticks /\ ticks' = a + 1
  BY DEF KeepsTime, ClockOK, Tick
<1>5. PICK Q \in Nat : Q = a \div T /\ a = T * Q + (T - 1)
  <2>1. PICK Q \in Nat, R \in 0 .. T - 1 : Q = a \div T /\ R = a % T /\ a = T * Q + R
    BY Divided, Zenon
  <2>2. R = T - 1
    BY <1>3, <1>4, <2>1, TurnsAtLastTick DEF KeepsTime
  <2>3. QED
    BY <2>1, <2>2
<1>6. PICK o \in 0 .. T - 1 : o = e.offset
  <2>1. index[w + 1] \in Buckets(w + 1)
    BY IndexInRange
  <2>2. QED
    BY <1>3, <2>1 DEF BucketsOK
<1>7. PICK q \in Nat, r \in 0 .. t - 1 : q = b /\ r = f.offset /\ o = t * q + r
  <2>1. o \in Nat
    OBVIOUS
  <2>2. PICK q \in Nat, r \in 0 .. t - 1 : q = o \div t /\ r = o % t /\ o = t * q + r
    BY <2>1, Divided, Zenon
  <2>3. QED
    BY <1>2, <1>6, <2>2
<1>8. q \in 0 .. s - 1
  BY <1>3, <1>7, QuotientBelow
<1>9. Ahead(w + 1, index[w + 1]) = 0
  <2>1. PICK S \in Nat \ {0} : S = WheelSizes[w + 1]
    BY WheelsFacts
  <2>2. PICK i \in 0 .. S - 1 : i = index[w + 1]
    BY <2>1, IndexInRange DEF Buckets
  <2>3. PICK x \in 0 .. 2 * S - 1 : x = i + S - i /\ x = S
    OBVIOUS
  <2>4. x % S = 0
    BY <2>3, Wrap
  <2>5. QED
    BY <2>1, <2>2, <2>3, <2>4 DEF Ahead
<1>10. index'[w] = 0
  <2>1. index[w] = s - 1 /\ Turns(w)
    BY <1>1, WheelsFacts DEF Turns
  <2>2. index'[w] = (index[w] + 1) % s
    BY <1>1, <2>1 DEF Tick
  <2>3. PICK x \in 0 .. 2 * s - 1 : x = index[w] + 1 /\ x = s
    BY <2>1
  <2>4. x % s = 0
    BY <2>3, Wrap
  <2>5. QED
    BY <2>2, <2>3, <2>4
<1>11. Ahead(w, b)' = q
  <2>1. PICK x \in 0 .. 2 * s - 1 : x = q + s - 0
    BY <1>8
  <2>2. x % s = q
    BY <1>8, <2>1, Wrap
  <2>3. QED
    BY <1>1, <1>7, <1>10, <2>1, <2>2 DEF Ahead
<1>12. (a + 1) \div t = s * (Q + 1)
  <2>1. PICK x \in Int : x = a + 1
    OBVIOUS
  <2>2. PICK d \in Int : d = s * (Q + 1)
    OBVIOUS
  <2>3. t * d = (s * t) * (Q + 1)
    BY <2>2, Z3
  <2>4. x = T * (Q + 1)
    BY <1>5, <2>1
  <2>5. PICK z \in 0 .. t - 1 : z = 0
    OBVIOUS
  <2>6. x = t * d + z
    BY <1>3, <2>3, <2>4, <2>5
  <2>7. x \div t = d
    BY <2>6, DivModUnique
  <2>8. QED
    BY <2>1, <2>2, <2>7
<1>13. PICK B \in Nat : B = TicksBelow[w] /\ TicksBelow[w + 1] = B + T
  <2>1. w \in 1 .. N + 1
    BY WheelsFacts
  <2>2. QED
    BY <2>1, <1>1, <1>2, <1>3, TicksBelowFacts
<1>14. Expiry(w, b, f)' = t * (s * (Q + 1) + q) + r + B
  BY <1>2, <1>4, <1>7, <1>11, <1>12, <1>13 DEF Expiry
<1>15. Expiry(w + 1, index[w + 1], e) = T * (Q + 0) + o + (B + T)
  BY <1>3, <1>4, <1>5, <1>6, <1>9, <1>13 DEF Expiry
<1>16. t * (s * (Q + 1) + q) = (s * t) * Q + (s * t) + t * q
  BY Z3
<1>17. PICK y \in Int, z \in Int, u \in Int :
         y = t * q /\ z = T * Q /\ u = t * (s * (Q + 1) + q)
  OBVIOUS
<1>18. u = z + T + y /\ o = y + r
  BY <1>3, <1>7, <1>16, <1>17
<1>19. u + r + B = z + o + (B + T)
  BY <1>18
<1>20. T * (Q + 0) = z
  BY <1>17
<1>21. QED
  BY <1>1, <1>7, <1>8, <1>14, <1>15, <1>17, <1>19, <1>20 DEF Buckets

\* Each entry after a tick was one before it, with the same timer and expiry.
LEMMA EntryBefore ==
  ASSUME KeepsTime, BucketsOK, Tick,
         NEW w \in Wheels, NEW b \in Buckets(w), NEW f \in buckets'[w][b]
  PROVE  /\ f \in [timer : Timers, offset : 0 .. TicksPerBucket[w] - 1]
         /\ \E v \in Wheels : \E c \in Buckets(v) : \E e \in buckets[v][c] :
              e.timer = f.timer /\ ~(v = 1 /\ c = index[1]) /\ Expiry(v, c, e) = Expiry(w, b, f)'
<1>1. \/ f \in Kept(w, b)
      \/ w + 1 \in Wheels /\ Turns(w + 1) /\ f \in Loaded(w, b)
  <2>1. w < Len(WheelSizes) => w + 1 \in Wheels
    BY WheelsFacts DEF N
  <2>2. QED
    BY <2>1 DEF Tick, Buckets
<1>2. CASE f \in Kept(w, b)
  <2>1. f \in buckets[w][b] /\ ~(Turns(w) /\ b = index[w])
    BY <1>2 DEF Kept
  <2>2. Turns(1)
    BY DEF Turns
  <2>3. Expiry(w, b, f) = Expiry(w, b, f)'
    BY <2>1, ExpiryOfKept
  <2>4. f \in [timer : Timers, offset : 0 .. TicksPerBucket[w] - 1]
    BY <2>1 DEF BucketsOK
  <2>5. QED
    BY <2>1, <2>2, <2>3, <2>4
<1>3. CASE w + 1 \in Wheels /\ Turns(w + 1) /\ f \in Loaded(w, b)
  <2>1. PICK e \in buckets[w + 1][index[w + 1]] :
          /\ e.offset \div TicksPerBucket[w] = b
          /\ f = [timer |-> e.timer, offset |-> e.offset % TicksPerBucket[w]]
    BY <1>3, LoadedIs
  <2>2. index[w + 1] \in Buckets(w + 1) /\ w + 1 # 1
    BY <1>3, IndexInRange, WheelsFacts
  <2>3. Expiry(w + 1, index[w + 1], e) = Expiry(w, b, f)'
    <3>1. f.offset = e.offset % TicksPerBucket[w] /\ b = e.offset \div TicksPerBucket[w]
      BY <2>1
    <3>2. QED
      BY <1>3, <3>1, ExpiryOfLoaded
  <2>4. e \in [timer : Timers, offset : 0 .. TicksPerBucket[w + 1] - 1]
    BY <1>3, <2>2 DEF BucketsOK
  <2>5. e.offset % TicksPerBucket[w] \in 0 .. TicksPerBucket[w] - 1
    <3>1. PICK o \in Nat : o = e.offset
      BY <1>3, <2>4, TicksPerBucketFacts
    <3>2. PICK t \in Nat \ {0} : t = TicksPerBucket[w]
      BY TicksPerBucketFacts
    <3>3. o % t \in 0 .. t - 1
      BY Divided, Zenon
    <3>4. QED
      BY <3>1, <3>2, <3>3
  <2>6. QED
    BY <1>3, <2>1, <2>2, <2>3, <2>4, <2>5
<1>4. QED
  BY <1>1, <1>2, <1>3

\* Each entry that is not resolved by a tick has one after it, with the same timer.
LEMMA EntryAfter ==
  ASSUME KeepsTime, BucketsOK, Tick,
         NEW w \in Wheels, NEW b \in Buckets(w), NEW e \in buckets[w][b],
         ~(w = 1 /\ b = index[1])
  PROVE  \E v \in Wheels : \E c \in Buckets(v) : \E f \in buckets'[v][c] : f.timer = e.timer
<1>1. CASE ~(Turns(w) /\ b = index[w])
  <2>1. e \in buckets'[w][b]
    BY <1>1 DEF Tick, Kept, Buckets
  <2>2. QED
    BY <2>1
<1>2. CASE Turns(w) /\ b = index[w]
  <2>1. PICK v \in Wheels : v + 1 = w
    <3>1. w # 1
      BY <1>2
    <3>2. w - 1 \in Wheels /\ (w - 1) + 1 = w
      BY <3>1, WheelsFacts
    <3>3. QED
      BY <3>2
  <2>2. PICK f : f = [timer |-> e.timer, offset |-> e.offset % TicksPerBucket[v]]
    OBVIOUS
  <2>3. PICK c : c = e.offset \div TicksPerBucket[v]
    OBVIOUS
  <2>4. v + 1 \in Wheels /\ Turns(v + 1) /\ e \in buckets[v + 1][index[v + 1]]
        /\ f.offset = e.offset % TicksPerBucket[v]
    BY <1>2, <2>1, <2>2
  <2>5. c \in Buckets(v)
    BY <2>3, <2>4, ExpiryOfLoaded
  <2>6. f \in Loaded(v, c)
    BY <2>2, <2>3, <2>4, <2>5, LoadedIs
  <2>7. v < Len(WheelSizes)
    BY <2>1, WheelsFacts DEF N
  <2>8. f \in buckets'[v][c]
    BY <2>4, <2>5, <2>6, <2>7 DEF Tick, Buckets
  <2>9. QED
    BY <2>2, <2>5, <2>8
<1>3. QED
  BY <1>1, <1>2

\* The timers that a tick resolves.
Expiring == {t \in Timers : \E e \in buckets[1][index[1]] : e.timer = t}

\* ... are those that leave the wheels with it.
LEMMA TickWaiting ==
  ASSUME WheelInv, Tick
  PROVE  Waiting' = Waiting \ Expiring /\ Expiring \subseteq Waiting
<1> USE DEF WheelInv
<1>1. 1 \in Wheels /\ index[1] \in Buckets(1)
  BY WheelsFacts, IndexInRange
<1>2. ASSUME NEW t \in Waiting' PROVE t \in Waiting \ Expiring
  <2>1. PICK w, b, f :
          w \in Wheels /\ b \in Buckets(w) /\ f \in buckets'[w][b] /\ f.timer = t
    BY <1>2 DEF Waiting, Holds, Buckets
  <2>2. PICK v, c, e :
          v \in Wheels /\ c \in Buckets(v) /\ e \in buckets[v][c] /\ e.timer = f.timer /\ ~(v = 1 /\ c = index[1])
    BY <2>1, EntryBefore
  <2>3. t \in Waiting /\ t \in Timers
    BY <1>2, <2>1, <2>2 DEF Waiting, Holds, Buckets
  <2>4. PICK x \in Nat : ExpiresIn(t, x)
    BY <2>3 DEF TimerOK, Pending, Scheduled
  <2>5. Expiry(v, c, e) = x /\ x # ticks
    BY <2>1, <2>2, <2>4, ExpiryNotPast DEF ExpiresIn
  <2>6. ASSUME NEW g \in buckets[1][index[1]], g.timer = t PROVE FALSE
    <3>1. Expiry(1, index[1], g) = x
      BY <1>1, <2>4, <2>6 DEF ExpiresIn
    <3>2. Expiry(1, index[1], g) = ticks
      BY <1>1, ExpiryNotPast
    <3>3. QED
      BY <2>5, <3>1, <3>2
  <2>7. QED
    BY <2>3, <2>6 DEF Expiring
<1>3. ASSUME NEW t \in Waiting, t \notin Expiring PROVE t \in Waiting'
  <2>1. PICK w, b, e :
          w \in Wheels /\ b \in Buckets(w) /\ e \in buckets[w][b] /\ e.timer = t
    BY <1>3 DEF Waiting, Holds, Buckets
  <2>2. ~(w = 1 /\ b = index[1])
    BY <1>3, <2>1 DEF Expiring, Waiting
  <2>3. PICK v, c, f :
          v \in Wheels /\ c \in Buckets(v) /\ f \in buckets'[v][c] /\ f.timer = e.timer
    BY <2>1, <2>2, EntryAfter
  <2>4. QED
    BY <1>3, <2>1, <2>3 DEF Waiting, Holds, Buckets
<1>4. Expiring \subseteq Waiting
  BY <1>1 DEF Expiring, Waiting, Holds, Buckets
<1>5. QED
  BY <1>2, <1>3, <1>4

\* What is left of n ticks beyond B, counted from y instead of y + r.
LEMMA EarlyBy ==
  ASSUME NEW a \in Nat, NEW n \in Nat, NEW r \in Nat, NEW y \in Nat, NEW g \in Nat,
         NEW o \in Nat, NEW B \in Nat, NEW X \in Nat, NEW left \in Nat,
         a = y + r, left = n - B, left = g + o, X = y + g + o + B
  PROVE  X = (a + n) - r
OBVIOUS

\* The entry that schedule() makes: its bucket exists, and it expires early by the
\* ticks turned if it fits, and within the capacity of the wheels if it does not.
LEMMA ScheduledEntry ==
  ASSUME KeepsTime, NEW duration \in Durations,
         NEW n, n = duration \div TickSize, NEW w, w = TimerWheel(n),
         NEW left, left = TicksToFit(n)[w],
         NEW b, b = (index[w] + left \div TicksPerBucket[w]) % WheelSizes[w],
         NEW e, e.offset = left % TicksPerBucket[w]
  PROVE  /\ n \in Nat /\ w \in Wheels /\ b \in Buckets(w)
         /\ e.offset \in 0 .. TicksPerBucket[w] - 1
         /\ ticks % TicksPerBucket[w] \in Nat
         /\ Expiry(w, b, e) \in Nat /\ Expiry(w, b, e) < (ticks + n) + Capacity
         /\ n \in TicksBelow[w] .. Capacity - 1 =>
              Expiry(w, b, e) = (ticks + n) - (ticks % TicksPerBucket[w])
<1>1. PICK m \in Nat \ {0} : m = 2 ^ Width /\ duration \in 0 .. m - 1
  <2>1. Capacity \in Nat
    BY CapacityFacts
  <2>2. PICK m : m = 2 ^ Width
    OBVIOUS
  <2>3. m \in Nat /\ m > Capacity /\ Durations \subseteq 0 .. m - 1
    BY <2>2, WheelAssumption
  <2>4. QED
    BY <2>1, <2>2, <2>3
<1>2. n \in 0 .. m - 1 /\ n \in Nat
  <2>1. TickSize \in Nat \ {0} /\ duration \in Nat
    BY WheelAssumption, <1>1
  <2>2. PICK q \in Nat, r \in 0 .. TickSize - 1 :
          q = duration \div TickSize /\ r = duration % TickSize /\ duration = TickSize * q + r
    BY <2>1, Divided, Zenon
  <2>3. q <= TickSize * q /\ TickSize * q \in Int
    <3>1. q = 0 => TickSize * q = 0
      BY <2>1
    <3>2. q # 0 => TickSize * q >= q
      BY <2>1, Product
    <3>3. QED
      BY <2>1, <3>1, <3>2
  <2>4. QED
    BY <1>1, <2>1, <2>2, <2>3
<1>3. w \in Wheels /\ CanFit(n, w)
  BY TimerWheelFacts
<1>4. PICK s \in Nat \ {0} : s = WheelSizes[w]
  BY <1>3, WheelsFacts
<1>5. PICK t \in Nat \ {0} : t = TicksPerBucket[w]
  BY <1>3, TicksPerBucketFacts
<1>6. left \in Nat
  <2>1. left \in 0 .. 2 ^ Width - 1
    BY <1>1, <1>2, <1>3, TicksToFitFacts
  <2>2. QED
    BY <1>1, <2>1
<1>7. PICK l \in Nat, o \in 0 .. t - 1 : l = left \div t /\ o = left % t /\ left = t * l + o
  BY <1>6, Divided, Zenon
<1>8. PICK k \in Nat, h \in 0 .. s - 1 : k = l \div s /\ h = l % s /\ l = s * k + h
  BY Divided, Zenon
<1>9. PICK i \in 0 .. s - 1 : i = index[w]
  BY <1>3, <1>4, IndexInRange DEF Buckets
<1>10. PICK x \in Nat : x = i + l
  OBVIOUS
<1>11. b = x % s /\ b \in 0 .. s - 1
  <2>1. b = x % s
    BY <1>4, <1>5, <1>7, <1>9, <1>10
  <2>2. x % s \in 0 .. s - 1
    BY Divided, Zenon
  <2>3. QED
    BY <2>1, <2>2
<1>12. Ahead(w, b) = h
  <2>1. PICK y \in Int : y = s - i
    OBVIOUS
  <2>2. x \in Int /\ l \in Int
    OBVIOUS
  <2>3. ((x % s) + y) % s = (x + y) % s
    BY <2>1, <2>2, ModSum, Zenon
  <2>4. x + y = l + s
    BY <1>10, <2>1
  <2>5. (l + s) % s = l % s
    BY <2>2, ModAddOnce, Zenon
  <2>6. (x % s) + y = b + s - i
    BY <1>11, <2>1
  <2>7. Ahead(w, b) = (b + s - i) % s
    BY <1>4, <1>9 DEF Ahead
  <2>8. QED
    BY <1>8, <2>3, <2>4, <2>5, <2>6, <2>7
<1>13. PICK a \in Nat : a = ticks
  BY DEF KeepsTime, ClockOK
<1>14. PICK q \in Nat, r \in 0 .. t - 1 : q = a \div t /\ r = a % t /\ a = t * q + r
  BY Divided, Zenon
<1>15. PICK B \in Nat, T \in Nat :
         /\ B = TicksBelow[w] /\ T = s * t /\ B + T <= Capacity
         /\ w = Len(WheelSizes) => B + T = Capacity
  <2>1. w \in 1 .. N + 1
    BY <1>3, WheelsFacts
  <2>2. TicksBelow[w] \in Nat /\ s * t \in Nat
    BY <2>1, TicksBelowFacts, Product
  <2>3. TicksBelow[w + 1] = TicksBelow[w] + s * t /\ TicksBelow[w + 1] <= Capacity
    BY <1>3, <1>4, <1>5, TicksBelowFacts, CapacityFacts
  <2>4. w = Len(WheelSizes) => TicksBelow[w + 1] = Capacity
    BY DEF Capacity
  <2>5. QED
    BY <2>2, <2>3, <2>4
<1>16. Capacity \in Nat
  BY CapacityFacts
<1>17. PICK y \in Nat, g \in Nat, z \in Nat : y = t * q /\ g = t * h /\ z = t * (q + h) /\ z = y + g
  <2>1. t * q \in Nat /\ t * h \in Nat /\ t * (q + h) = t * q + t * h
    BY Z3
  <2>2. QED
    BY <2>1
<1>18. g + o < T
  <2>1. PICK j \in Nat : j = s - 1 - h
    OBVIOUS
  <2>2. t * j >= 0 /\ t * j \in Int
    BY Z3
  <2>3. s * t = t * j + t * h + t
    BY <2>1, Z3
  <2>4. PICK u \in Int : u = t * j
    BY <2>2
  <2>5. T = u + g + t /\ u >= 0
    BY <1>15, <1>17, <2>2, <2>3, <2>4
  <2>6. QED
    BY <2>5
<1>19. PICK X \in Nat : X = Expiry(w, b, e) /\ X = y + g + o + B
  <2>1. Expiry(w, b, e) = z + o + B
    BY <1>5, <1>7, <1>12, <1>13, <1>14, <1>15, <1>17 DEF Expiry
  <2>2. QED
    BY <1>17, <2>1
<1>20. X < (a + n) + Capacity
  <2>1. a = y + r
    BY <1>14, <1>17
  <2>2. B + T <= Capacity
    BY <1>15
  <2>3. QED
    BY <1>2, <1>16, <1>18, <1>19, <2>1, <2>2
<1>21. ASSUME n \in B .. Capacity - 1 PROVE X = (a + n) - r
  <2>1. left = n - B
    <3>1. n \in 0 .. 2 ^ Width - 1 /\ TicksBelow[w] <= n
      BY <1>1, <1>2, <1>15, <1>16, <1>21
    <3>2. QED
      BY <1>3, <1>15, <3>1, TicksLeft
  <2>2. l \in 0 .. s - 1
    <3>1. CASE w = Len(WheelSizes)
      <4>1. B + T = Capacity /\ n < Capacity
        BY <1>2, <1>15, <1>16, <1>21, <3>1
      <4>2. left < T
        BY <1>2, <1>16, <2>1, <4>1
      <4>3. t * l + o < T
        BY <1>7, <4>2, Zenon
      <4>4. T = s * t
        BY <1>15
      <4>5. o \in Nat
        OBVIOUS
      <4>6. QED
        BY <4>3, <4>4, <4>5, QuotientBelow, Zenon
    <3>2. CASE w # Len(WheelSizes)
      <4>1. i + l < s
        BY <1>3, <1>4, <1>5, <1>7, <1>9, <3>2 DEF CanFit
      <4>2. QED
        BY <4>1
    <3>3. QED
      BY <3>1, <3>2
  <2>3. h = l
    BY <1>8, <2>2, ModSmall
  <2>4. left = g + o
    BY <1>7, <1>17, <2>3
  <2>5. a = y + r
    BY <1>14, <1>17
  <2>6. X = y + g + o + B
    BY <1>19
  <2>7. o \in Nat /\ r \in Nat
    OBVIOUS
  <2>8. QED
    BY <1>2, <1>6, <2>1, <2>4, <2>5, <2>6, <2>7, EarlyBy
<1>22. b \in Buckets(w) /\ e.offset \in 0 .. TicksPerBucket[w] - 1 /\ ticks % TicksPerBucket[w] = r
  BY <1>4, <1>5, <1>7, <1>11, <1>13, <1>14 DEF Buckets
<1>23. Expiry(w, b, e) < (ticks + n) + Capacity
  BY <1>13, <1>19, <1>20
<1>24. n \in TicksBelow[w] .. Capacity - 1 =>
         Expiry(w, b, e) = (ticks + n) - (ticks % TicksPerBucket[w])
  <2>1. TicksBelow[w] = B
    BY <1>15
  <2>2. QED
    BY <1>13, <1>19, <1>21, <1>22, <2>1
<1>25. Expiry(w, b, e) \in Nat /\ ticks % TicksPerBucket[w] \in Nat
  <2>1. r \in Nat
    OBVIOUS
  <2>2. QED
    BY <1>19, <1>22, <2>1, Zenon
<1>26. QED
  BY <1>2, <1>3, <1>22, <1>23, <1>24, <1>25

-----------------------------------------------------------------------------
(* WheelInv is inductive.                                                  *)

\* The wheels begin empty, at tick 0.
LEMMA WheelInvInit == Init => WheelInv
<1> SUFFICES ASSUME Init PROVE WheelInv
  OBVIOUS
<1>0. MaxTime \in Nat /\ MaxLag \in Nat /\ TickSize \in Nat \ {0}
  BY WheelAssumption
<1>1. ClockOK
  BY <1>0 DEF Init, ClockOK
<1>2. Digits
  <2> SUFFICES ASSUME NEW w \in Wheels
               PROVE  0 = (0 \div TicksPerBucket[w]) % WheelSizes[w]
    BY DEF Init, Digits
  <2>1. PICK t \in Nat \ {0} : t = TicksPerBucket[w]
    BY TicksPerBucketFacts
  <2>2. PICK s \in Nat \ {0} : s = WheelSizes[w]
    BY WheelsFacts
  <2>3. 0 \in 0 .. t - 1 /\ 0 \in 0 .. s - 1
    OBVIOUS
  <2>4. 0 \div t = 0 /\ 0 % s = 0
    BY <2>3, ModSmall
  <2>5. QED
    BY <2>1, <2>2, <2>4
<1>3. \A w \in Wheels : \A b \in Buckets(w) : buckets[w][b] = {}
  BY DEF Init, Buckets
<1>4. BucketsOK
  <2>1. buckets = [w \in Wheels |-> [b \in Buckets(w) |-> buckets[w][b]]]
    BY DEF Init, Buckets
  <2>2. QED
    BY <1>3, <2>1 DEF BucketsOK
<1>5. HistoryOK
  BY DEF Init, HistoryOK
<1>6. Waiting = {}
  BY <1>3 DEF Waiting, Holds, Buckets
<1>7. \A t \in Timers : TimerOK(t)
  BY <1>6 DEF Init, TimerOK, Pending, Scheduled
<1>8. QED
  BY <1>1, <1>2, <1>4, <1>5, <1>7 DEF WheelInv, KeepsTime

\* A step that leaves buckets, indices and history alone.
LEMMA WheelInvIdle ==
  ASSUME WheelInv, UNCHANGED <<index, buckets, ticks, asked, resolved>>
  PROVE  BucketsOK' /\ HistoryOK' /\ Waiting' = Waiting /\ \A t \in Timers : TimerOK(t)'
<1>1. BucketsOK' /\ HistoryOK' /\ Waiting' = Waiting /\ Pending' = Pending
  BY DEF WheelInv, BucketsOK, HistoryOK, Waiting, Holds, Pending, Scheduled
<1>2. \A t, x : ExpiresIn(t, x)' <=> ExpiresIn(t, x)
  BY DEF ExpiresIn, Expiry, Ahead
<1>3. \A t \in Timers : Fits(t)' <=> Fits(t)
  BY DEF Fits
<1>4. ASSUME NEW t \in Timers PROVE TimerOK(t)'
  <2>1. TimerOK(t) /\ asked'[t] = asked[t] /\ resolved'[t] = resolved[t]
    BY DEF WheelInv
  <2>2. QED
    BY <1>1, <1>2, <1>3, <2>1 DEF TimerOK
<1>5. QED
  BY <1>1, <1>4

\* A tick completes or moves every entry in its time.
LEMMA TickStep ==
  ASSUME WheelInv, Tick
  PROVE  BucketsOK' /\ HistoryOK' /\ \A t \in Timers : TimerOK(t)'
<1>1. KeepsTime /\ BucketsOK /\ HistoryOK
  BY DEF WheelInv
<1>2. BucketsOK'
  <2>1. buckets' = [w \in Wheels |-> [b \in Buckets(w) |-> buckets'[w][b]]]
    BY DEF Tick, Buckets
  <2>2. ASSUME NEW w \in Wheels, NEW b \in Buckets(w)
        PROVE  buckets'[w][b] \subseteq [timer : Timers, offset : 0 .. TicksPerBucket[w] - 1]
    BY <1>1, EntryBefore
  <2>3. QED
    BY <2>1, <2>2 DEF BucketsOK
<1>3. PICK a \in Nat : a = ticks /\ ticks' = a + 1 /\ asked' = asked
  BY <1>1 DEF KeepsTime, ClockOK, Tick
<1>4. resolved' = [t \in Timers |-> IF t \in Expiring THEN a + 1 ELSE resolved[t]]
  BY <1>3 DEF Tick, Expiring
<1>5. HistoryOK'
  BY <1>1, <1>3, <1>4 DEF HistoryOK
<1>6. Waiting' = Waiting \ Expiring /\ Expiring \subseteq Waiting
  BY TickWaiting
<1>7. ASSUME NEW t \in Timers PROVE TimerOK(t)'
  <2>1. TimerOK(t)
    BY DEF WheelInv
  <2>2. Fits(t)' <=> Fits(t)
    BY <1>3 DEF Fits
  <2>3. CASE t \in Expiring
    <3>1. t \in Waiting /\ asked[t] # Never /\ resolved[t] = Never
      BY <1>6, <2>1, <2>3 DEF TimerOK
    <3>2. PICK x \in Nat :
            ExpiresIn(t, x) /\ (Fits(t) => x = asked[t].due - asked[t].turned)
      BY <2>1, <3>1 DEF TimerOK, Pending, Scheduled
    <3>3. x = a
      <4>1. 1 \in Wheels /\ index[1] \in Buckets(1)
        BY <1>1, WheelsFacts, IndexInRange
      <4>2. PICK e \in buckets[1][index[1]] : e.timer = t
        BY <2>3 DEF Expiring
      <4>3. Expiry(1, index[1], e) = x
        BY <3>2, <4>1, <4>2 DEF ExpiresIn
      <4>4. QED
        BY <1>1, <1>3, <4>1, <4>2, <4>3, ExpiryNotPast
    <3>4. resolved'[t] = a + 1 /\ resolved'[t] # Never
      <4>1. a + 1 # Never
        BY WheelAssumption
      <4>2. QED
        BY <1>4, <2>3, <4>1
    <3>5. t \notin Waiting' /\ t \notin Pending'
      BY <1>6, <2>3, <3>4 DEF Pending
    <3>6. Fits(t) => resolved'[t] = asked[t].due - asked[t].turned + 1
      BY <3>2, <3>3, <3>4
    <3>7. QED
      BY <1>3, <2>2, <3>1, <3>4, <3>5, <3>6 DEF TimerOK
  <2>4. CASE t \notin Expiring
    <3>1. resolved'[t] = resolved[t] /\ asked'[t] = asked[t]
      BY <1>3, <1>4, <2>4
    <3>2. (t \in Waiting' <=> t \in Waiting) /\ (t \in Pending' <=> t \in Pending)
      BY <1>6, <2>4, <3>1 DEF Pending, Scheduled
    <3>3. ASSUME NEW x \in Nat, ExpiresIn(t, x) PROVE ExpiresIn(t, x)'
      <4> SUFFICES ASSUME NEW w \in Wheels, NEW b \in Buckets(w), NEW f \in buckets'[w][b],
                          f.timer = t
                   PROVE  Expiry(w, b, f)' = x
        BY DEF ExpiresIn
      <4>1. PICK v, c, e :
              v \in Wheels /\ c \in Buckets(v) /\ e \in buckets[v][c] /\ e.timer = t
              /\ Expiry(v, c, e) = Expiry(w, b, f)'
        BY <1>1, EntryBefore
      <4>2. QED
        BY <3>3, <4>1 DEF ExpiresIn
    <3>4. QED
      BY <1>3, <2>1, <2>2, <3>1, <3>2, <3>3 DEF TimerOK
  <2>5. QED
    BY <2>3, <2>4
<1>8. QED
  BY <1>2, <1>5, <1>7

\* schedule() puts the timer into the wheels, and changes nothing for the others.
LEMMA ScheduleStep ==
  ASSUME WheelInv, NEW t \in Timers, NEW duration \in Durations, Schedule(t, duration)
  PROVE  /\ BucketsOK' /\ HistoryOK' /\ \A u \in Timers : TimerOK(u)'
         /\ t \notin Waiting /\ Waiting' = Waiting \cup {t}
         /\ resolved' = resolved /\ resolved[t] = Never
<1>1. KeepsTime /\ BucketsOK /\ HistoryOK /\ TimerOK(t)
  BY DEF WheelInv
<1>2. PICK n : n = duration \div TickSize
  OBVIOUS
<1>3. PICK w : w = TimerWheel(n)
  OBVIOUS
<1>4. PICK left : left = TicksToFit(n)[w]
  OBVIOUS
<1>5. PICK b : b = (index[w] + left \div TicksPerBucket[w]) % WheelSizes[w]
  OBVIOUS
<1>6. PICK entry : entry = [timer |-> t, offset |-> left % TicksPerBucket[w]]
  OBVIOUS
<1>7. PICK record : record = [length |-> n, due |-> ticks + n, wheel |-> w,
                              turned |-> ticks % TicksPerBucket[w]]
  OBVIOUS
<1>8. /\ asked[t] = Never
      /\ buckets' = [buckets EXCEPT ![w][b] = @ \cup {entry}]
      /\ asked' = [asked EXCEPT ![t] = record]
      /\ index' = index /\ ticks' = ticks /\ resolved' = resolved
  BY <1>2, <1>3, <1>4, <1>5, <1>6, <1>7 DEF Schedule
<1>9. entry.timer = t /\ entry.offset = left % TicksPerBucket[w]
  BY <1>6
<1>10. /\ n \in Nat /\ w \in Wheels /\ b \in Buckets(w)
       /\ entry.offset \in 0 .. TicksPerBucket[w] - 1
       /\ ticks % TicksPerBucket[w] \in Nat
       /\ Expiry(w, b, entry) \in Nat /\ Expiry(w, b, entry) < (ticks + n) + Capacity
       /\ n \in TicksBelow[w] .. Capacity - 1 =>
            Expiry(w, b, entry) = (ticks + n) - (ticks % TicksPerBucket[w])
  BY <1>1, <1>2, <1>3, <1>4, <1>5, <1>9, ScheduledEntry
<1>11. \A v \in Wheels : \A c \in Buckets(v) :
         buckets'[v][c] = IF v = w /\ c = b THEN buckets[v][c] \cup {entry} ELSE buckets[v][c]
  BY <1>1, <1>8, <1>10 DEF BucketsOK
<1>12. BucketsOK'
  <2>1. buckets' = [v \in Wheels |-> [c \in Buckets(v) |-> buckets'[v][c]]]
    BY <1>1, <1>8, <1>10 DEF BucketsOK
  <2>2. entry \in [timer : Timers, offset : 0 .. TicksPerBucket[w] - 1]
    BY <1>6, <1>9, <1>10
  <2>3. ASSUME NEW v \in Wheels, NEW c \in Buckets(v)
        PROVE  buckets'[v][c] \subseteq [timer : Timers, offset : 0 .. TicksPerBucket[v] - 1]
    <3>1. buckets[v][c] \subseteq [timer : Timers, offset : 0 .. TicksPerBucket[v] - 1]
      BY <1>1 DEF BucketsOK
    <3>2. CASE v = w /\ c = b
      <4>1. buckets'[v][c] = buckets[v][c] \cup {entry}
        BY <1>11, <3>2
      <4>2. QED
        BY <2>2, <3>1, <3>2, <4>1, Zenon
    <3>3. CASE ~(v = w /\ c = b)
      <4>1. buckets'[v][c] = buckets[v][c]
        BY <1>11, <3>3
      <4>2. QED
        BY <3>1, <4>1
    <3>4. QED
      BY <3>2, <3>3
  <2>4. QED
    BY <2>1, <2>3 DEF BucketsOK
<1>13. record \in Asked /\ record # Never
  <2>1. ticks \in Nat
    BY <1>1 DEF KeepsTime, ClockOK
  <2>2. QED
    BY <1>7, <1>10, <2>1, WheelAssumption DEF Asked
<1>14. HistoryOK'
  BY <1>1, <1>8, <1>13 DEF HistoryOK
<1>15. t \notin Waiting /\ resolved[t] = Never
  BY <1>1, <1>8 DEF TimerOK
<1>16. \A v, c, e : Expiry(v, c, e)' = Expiry(v, c, e)
  BY <1>8 DEF Expiry, Ahead
<1>17. Waiting' = Waiting \cup {t}
  <2>1. ASSUME NEW u \in Timers
        PROVE  u \in Waiting' <=> u \in Waiting \/ u = t
    <3>1. \A v \in Wheels : \A c \in Buckets(v) :
            Holds(u, v, c)' <=> Holds(u, v, c) \/ (v = w /\ c = b /\ u = t)
      BY <1>9, <1>11 DEF Holds
    <3>2. QED
      BY <1>10, <3>1 DEF Waiting, Buckets
  <2>2. QED
    BY <2>1 DEF Waiting
<1>18. ASSUME NEW u \in Timers PROVE TimerOK(u)'
  <2>1. CASE u = t
    <3>1. asked'[t] = record /\ resolved'[t] = Never /\ t \in Waiting'
      BY <1>1, <1>8, <1>15, <1>17 DEF HistoryOK
    <3>2. ExpiresIn(t, Expiry(w, b, entry))'
      <4> SUFFICES ASSUME NEW v \in Wheels, NEW c \in Buckets(v), NEW e \in buckets'[v][c],
                          e.timer = t
                   PROVE  Expiry(v, c, e)' = Expiry(w, b, entry)'
        BY DEF ExpiresIn
      <4>1. e \notin buckets[v][c]
        BY <1>15 DEF Waiting, Holds, Buckets
      <4>2. v = w /\ c = b /\ e = entry
        BY <1>11, <4>1
      <4>3. QED
        BY <4>2
    <3>3. PICK x \in Nat : x = Expiry(w, b, entry) /\ ExpiresIn(t, x)'
      BY <1>10, <1>16, <3>2 DEF ExpiresIn
    <3>4. record.due = ticks + n /\ record.length = n /\ record.wheel = w
          /\ record.turned = ticks % TicksPerBucket[w]
      BY <1>7
    <3>5. x < asked'[t].due + Capacity /\ (Fits(t)' => x = asked'[t].due - asked'[t].turned)
      BY <1>10, <3>1, <3>3, <3>4 DEF Fits
    <3>6. QED
      BY <1>13, <2>1, <3>1, <3>3, <3>5 DEF TimerOK
  <2>2. CASE u # t
    <3>1. asked'[u] = asked[u] /\ resolved'[u] = resolved[u] /\ (u \in Waiting' <=> u \in Waiting)
      BY <1>1, <1>8, <1>17, <2>2 DEF HistoryOK
    <3>2. (u \in Pending' <=> u \in Pending) /\ (Fits(u)' <=> Fits(u))
      BY <3>1 DEF Pending, Scheduled, Fits
    <3>3. ASSUME NEW x \in Nat, ExpiresIn(u, x) PROVE ExpiresIn(u, x)'
      BY <1>9, <1>11, <1>16, <2>2, <3>3 DEF ExpiresIn
    <3>4. TimerOK(u)
      BY DEF WheelInv
    <3>5. QED
      BY <3>1, <3>2, <3>3, <3>4 DEF TimerOK
  <2>3. QED
    BY <2>1, <2>2
<1>19. QED
  BY <1>8, <1>12, <1>14, <1>15, <1>17, <1>18

\* Every step keeps the invariant.
LEMMA WheelInvStep == WheelInv /\ [Next]_vars => WheelInv'
<1> SUFFICES ASSUME WheelInv, [Next]_vars PROVE WheelInv'
  OBVIOUS
<1>1. KeepsTime'
  BY KeepsTimeStep DEF WheelInv
<1>2. CASE PassTime \/ Advance \/ Stop \/ UNCHANGED vars
  <2>1. UNCHANGED <<index, buckets, ticks, asked, resolved>>
    BY <1>2 DEF PassTime, Advance, Stop, vars, history
  <2>2. QED
    BY <1>1, <2>1, WheelInvIdle DEF WheelInv
<1>3. CASE Tick
  BY <1>1, <1>3, TickStep DEF WheelInv
<1>4. CASE \E t \in Timers, d \in Durations : Schedule(t, d)
  BY <1>1, <1>4, ScheduleStep DEF WheelInv
<1>5. QED
  BY <1>2, <1>3, <1>4 DEF Next

\* So it holds in every reachable state.
LEMMA WheelInvAlways == Spec => []WheelInv
BY WheelInvInit, WheelInvStep, PTL DEF Spec

-----------------------------------------------------------------------------
(* What follows from WheelInv.                                             *)

\* The state keeps its types: in particular every offset lies within its bucket,
\* so that load_timers_from_wheel never subtracts more than there is.
THEOREM TypeCorrect == Spec => []TypeOK
<1>1. WheelInv => TypeOK
  <2> SUFFICES ASSUME WheelInv PROVE TypeOK
    OBVIOUS
  <2> USE DEF WheelInv, KeepsTime
  <2>1. ticks \in 0 .. MaxTime
    <3>1. PICK c \in Nat : c = ticks + completed_buckets /\ ticks <= c /\ c * TickSize <= MaxTime
      BY WheelAssumption DEF ClockOK
    <3>2. TickSize \in Nat \ {0} /\ MaxTime \in Nat /\ ticks \in Nat
      BY WheelAssumption DEF ClockOK
    <3>3. c <= c * TickSize /\ c * TickSize \in Int
      <4>1. c = 0 => c * TickSize = 0
        BY <3>2
      <4>2. c # 0 => c * TickSize >= c
        BY <3>2, Product
      <4>3. QED
        BY <3>2, <4>1, <4>2
    <3>4. QED
      BY <3>1, <3>2, <3>3
  <2>2. ASSUME NEW w \in Wheels
        PROVE  /\ index[w] \in 0 .. WheelSizes[w] - 1
               /\ \A b \in 0 .. WheelSizes[w] - 1 :
                    buckets[w][b] \subseteq [timer : Timers, offset : 0 .. TicksPerBucket[w] - 1]
    BY IndexInRange DEF Buckets, BucketsOK
  <2>3. \A t \in Timers : resolved[t] # Never => asked[t] # Never
    BY DEF TimerOK
  <2>4. QED
    BY <2>1, <2>2, <2>3 DEF TypeOK, ClockOK
<1>2. QED
  BY <1>1, WheelInvAlways, PTL

\* The wheels turn as the digits of the number of ticks do, for any number of
\* wheels; and the ticks counted lie between half the time and all of it.
THEOREM WheelsKeepTimeHolds == Spec => []WheelsKeepTime
<1>1. WheelInv => WheelsKeepTime
  BY DEF WheelInv, KeepsTime, ClockOK, Digits, WheelsKeepTime
<1>2. QED
  BY <1>1, WheelInvAlways, PTL

\* A pending timer has an entry, which does not expire in the past.
LEMMA PendingEntry ==
  ASSUME WheelInv, NEW t \in Pending
  PROVE  \E x \in Nat : /\ ticks <= x /\ x < asked[t].due + Capacity
                        /\ Fits(t) => x = asked[t].due - asked[t].turned
<1>1. t \in Timers /\ TimerOK(t)
  BY DEF WheelInv, Pending, Scheduled
<1>2. t \in Waiting
  BY <1>1 DEF TimerOK
<1>3. PICK x \in Nat : /\ ExpiresIn(t, x) /\ x < asked[t].due + Capacity
                       /\ Fits(t) => x = asked[t].due - asked[t].turned
  BY <1>1 DEF TimerOK
<1>4. PICK w, b, e : w \in Wheels /\ b \in Buckets(w) /\ e \in buckets[w][b] /\ e.timer = t
  BY <1>2 DEF Waiting, Holds, Buckets
<1>5. Expiry(w, b, e) = x
  BY <1>3, <1>4 DEF ExpiresIn
<1>6. ticks <= Expiry(w, b, e)
  BY <1>4, ExpiryNotPast DEF WheelInv
<1>7. QED
  BY <1>3, <1>5, <1>6

\* A timer that fits is resolved early by exactly the ticks that the wheels below its
\* own had turned, however many wheels it moves down through.
THEOREM EarlyByTicksTurnedHolds == Spec => []EarlyByTicksTurned
<1>1. WheelInv => EarlyByTicksTurned
  <2> SUFFICES ASSUME WheelInv, NEW t \in Scheduled, Fits(t)
               PROVE  LET tick == asked[t].due - asked[t].turned
                      IN  IF t \in Pending THEN ticks <= tick ELSE resolved[t] = tick + 1
    BY DEF EarlyByTicksTurned
  <2>1. CASE t \in Pending
    BY <2>1, PendingEntry
  <2>2. CASE t \notin Pending
    <3>1. t \in Timers /\ resolved[t] # Never /\ TimerOK(t)
      BY <2>2 DEF Pending, Scheduled, WheelInv
    <3>2. QED
      BY <2>2, <3>1 DEF TimerOK
  <2>3. QED
    BY <2>1, <2>2
<1>2. QED
  BY <1>1, WheelInvAlways, PTL

\* Whatever wheel determine_timer_wheel picks, and though the ticks left to fit may
\* wrap around, no timer is late by as much as the wheels hold together.
THEOREM LateByLessThanCapacityHolds == Spec => []LateByLessThanCapacity
<1>1. WheelInv => LateByLessThanCapacity
  <2> SUFFICES ASSUME WheelInv, NEW t \in Pending
               PROVE  ticks < asked[t].due + Capacity
    BY DEF LateByLessThanCapacity
  <2>1. PICK x \in Nat : ticks <= x /\ x < asked[t].due + Capacity
    BY PendingEntry
  <2>2. ticks \in Nat /\ Capacity \in Nat
    BY CapacityFacts DEF WheelInv, KeepsTime, ClockOK
  <2>3. asked[t].due \in Nat
    BY DEF WheelInv, HistoryOK, Pending, Scheduled, Asked
  <2>4. QED
    BY <2>1, <2>2, <2>3
<1>2. QED
  BY <1>1, WheelInvAlways, PTL

\* The wheels implement the store of timers that the poll thread relies on: a timer
\* that moves from wheel to wheel is neither lost nor resolved twice.
THEOREM RefinesPollSource == Spec => ImplementsPollSource
<1> DEFINE Expired == {t \in Timers : resolved[t] # Never}
<1>1. Init => Store!TimersInit
  <2> SUFFICES ASSUME Init PROVE Waiting = {} /\ Expired = {}
    BY DEF Store!TimersInit
  <2>1. Expired = {}
    BY DEF Init
  <2>2. Waiting = {}
    BY DEF Init, Waiting, Holds
  <2>3. QED
    BY <2>1, <2>2
<1>2. WheelInv /\ [Next]_vars => [Store!TimersNext]_(Store!timerVars)
  <2> SUFFICES ASSUME WheelInv, [Next]_vars PROVE [Store!TimersNext]_(Store!timerVars)
    OBVIOUS
  <2>1. CASE PassTime \/ Advance \/ Stop \/ UNCHANGED vars
    <3>1. UNCHANGED <<index, buckets, ticks, asked, resolved>>
      BY <2>1 DEF PassTime, Advance, Stop, vars, history
    <3>2. Waiting' = Waiting /\ Expired' = Expired
      BY <3>1, WheelInvIdle
    <3>3. QED
      BY <3>2 DEF Store!timerVars
  <2>2. CASE Tick
    <3>1. Waiting' = Waiting \ Expiring /\ Expiring \subseteq Waiting
      BY <2>2, TickWaiting
    <3>2. Expired' = Expired \cup Expiring
      <4>1. ticks + 1 # Never
        BY WheelAssumption DEF WheelInv, KeepsTime, ClockOK
      <4>2. resolved' = [t \in Timers |-> IF t \in Expiring THEN ticks + 1 ELSE resolved[t]]
        BY <2>2 DEF Tick, Expiring
      <4>3. QED
        BY <4>1, <4>2 DEF Expiring
    <3>3. PICK S \in SUBSET Timers : S = Expiring
      BY DEF Expiring
    <3>4. Store!Expire(S)
      BY <3>1, <3>2, <3>3 DEF Store!Expire
    <3>5. QED
      BY <3>4 DEF Store!TimersNext
  <2>3. CASE \E t \in Timers, d \in Durations : Schedule(t, d)
    <3>1. PICK t \in Timers, d \in Durations : Schedule(t, d)
      BY <2>3
    <3>2. t \notin Waiting /\ Waiting' = Waiting \cup {t}
          /\ resolved' = resolved /\ resolved[t] = Never
      BY <3>1, ScheduleStep
    <3>3. Store!Schedule(t)
      BY <3>2 DEF Store!Schedule
    <3>4. QED
      BY <3>3 DEF Store!TimersNext
  <2>4. QED
    BY <2>1, <2>2, <2>3 DEF Next
<1>3. QED
  BY <1>1, <1>2, WheelInvAlways, PTL DEF Spec, ImplementsPollSource, Store!TimersSpec
=============================================================================
