----------------------------- MODULE TasksProofs -----------------------------
(***************************************************************************)
(* Proofs about Tasks, for any graph of tasks.  Tasks are ordered by their *)
(* creation: what the recursion of CellOf computes is proved by induction  *)
(* along this order.  The invariant says where each callback is, and that  *)
(* a job carries what its argument resolved to, which never changes again. *)
(* All of it holds for overlapping calls of await() too; that no callback  *)
(* is lost is proved for the calls that do not overlap.                    *)
(***************************************************************************)
EXTENDS Tasks, FiniteSetTheorems, SequenceTheorems, WellFoundedInduction, TLAPS

USE DEF build, combine

-----------------------------------------------------------------------------
(* Induction, stated for sets of numbers.                                  *)

\* A set of natural numbers has a least one.
LEMMA LeastNatural ==
  ASSUME NEW T \in SUBSET Nat, T # {}
  PROVE  \E x \in T : \A y \in T : x <= y
<1> DEFINE R == OpToRel(<, Nat)
<1>1. IsWellFoundedOn(R, Nat)
  BY NatLessThanWellFounded
<1>2. R = {ss \in Nat \X Nat : ss[1] < ss[2]}
  BY DEF OpToRel
<1> HIDE DEF R
<1>3. PICK x \in T : \A y \in T : ~(<<y, x>> \in R)
  BY <1>1, WFMin
<1>4. \A y, z \in Nat : y < z => <<y, z>> \in R
  BY <1>2
<1>5. ASSUME NEW y \in T PROVE x <= y
  <2>1. x \in Nat /\ y \in Nat
    OBVIOUS
  <2>2. ~(<<y, x>> \in R)
    BY <1>3
  <2>3. ~(y < x)
    BY <2>1, <2>2, <1>4, Zenon
  <2>4. QED
    BY <2>1, <2>3
<1>6. QED
  BY <1>5

\* Induction: what holds of 0, and of n + 1 whenever it holds of n, holds of all.
LEMMA SetInduction ==
  ASSUME NEW S \in SUBSET Nat, 0 \in S, \A n \in S : n + 1 \in S
  PROVE  S = Nat
<1> SUFFICES ASSUME S # Nat PROVE FALSE
  OBVIOUS
<1> DEFINE T == Nat \ S
<1>1. T \in SUBSET Nat /\ T # {}
  OBVIOUS
<1> HIDE DEF T
<1>2. PICK x \in T : \A y \in T : x <= y
  BY <1>1, LeastNatural
<1>3. x \in Nat \ {0}
  BY <1>2 DEF T
<1>4. x - 1 \in S
  <2>1. x - 1 \in Nat /\ ~(x <= x - 1)
    BY <1>3
  <2>2. x - 1 \notin T
    BY <2>1, <1>2
  <2>3. QED
    BY <2>1, <2>2 DEF T
<1>5. QED
  BY <1>3, <1>4 DEF T

-----------------------------------------------------------------------------
(* Tasks are ordered by their creation.                                    *)

Pos(t) == CHOOSE i \in DOMAIN Program : Program[i] = t

\* Each task has its place in Program.
LEMMA PosOfTask ==
  /\ DOMAIN Program = 1 .. Len(Program) /\ Len(Program) \in Nat
  /\ \A t \in Tasks : Pos(t) \in 1 .. Len(Program) /\ Program[Pos(t)] = t
  /\ \A i \in 1 .. Len(Program) : Program[i] \in Tasks /\ Pos(Program[i]) = i
<1>1. DOMAIN Program = 1 .. Len(Program) /\ Len(Program) \in Nat
  BY TasksAssumption
<1>2. \A t \in Tasks : Pos(t) \in DOMAIN Program /\ Program[Pos(t)] = t
  BY DEF Pos, Tasks, ToSet
<1>3. \A i \in DOMAIN Program : Program[i] \in Tasks
  BY DEF Tasks, ToSet
<1>4. \A i, k \in DOMAIN Program : Program[i] = Program[k] => i = k
  BY TasksAssumption DEF IsInjective
<1>5. QED
  BY <1>1, <1>2, <1>3, <1>4

\* The tasks before a task are those with a lower place.
LEMMA EarlierPos ==
  \A t \in Tasks : Earlier(t) = {u \in Tasks : Pos(u) < Pos(t)}
<1> SUFFICES ASSUME NEW t \in Tasks, NEW u
             PROVE  u \in Earlier(t) <=> u \in Tasks /\ Pos(u) < Pos(t)
  OBVIOUS
<1>1. ASSUME u \in Earlier(t) PROVE u \in Tasks /\ Pos(u) < Pos(t)
  <2>1. PICK i \in DOMAIN Program : u = Program[i] /\ \E k \in DOMAIN Program : i < k /\ Program[k] = t
    BY <1>1 DEF Earlier
  <2>2. PICK k \in DOMAIN Program : i < k /\ Program[k] = t
    BY <2>1
  <2>3. Pos(u) = i /\ Pos(t) = k /\ u \in Tasks
    BY <2>1, <2>2, PosOfTask
  <2>4. QED
    BY <2>2, <2>3
<1>2. ASSUME u \in Tasks, Pos(u) < Pos(t) PROVE u \in Earlier(t)
  BY <1>2, PosOfTask DEF Earlier
<1>3. QED
  BY <1>1, <1>2

\* A task differs from those before it, and has those before them before it.
LEMMA EarlierOrder ==
  ASSUME NEW t \in Tasks, NEW u \in Earlier(t)
  PROVE  u \in Tasks /\ u # t /\ Earlier(u) \subseteq Earlier(t) /\ t \notin Earlier(u)
<1>1. u \in Tasks /\ Pos(u) < Pos(t) /\ Pos(u) \in Nat /\ Pos(t) \in Nat
  BY EarlierPos, PosOfTask
<1>2. ASSUME NEW v \in Earlier(u) PROVE v \in Earlier(t)
  <2>1. v \in Tasks /\ Pos(v) < Pos(u) /\ Pos(v) \in Nat
    BY <1>1, EarlierPos, PosOfTask
  <2>2. QED
    BY <1>1, <2>1, EarlierPos
<1>3. t \notin Earlier(u)
  BY <1>1, EarlierPos
<1>4. QED
  BY <1>1, <1>2, <1>3

\* What holds of a task whenever it holds of all before it holds of all tasks.
LEMMA TaskInduction ==
  ASSUME NEW S, \A t \in Tasks : (\A u \in Earlier(t) : u \in S) => t \in S
  PROVE  \A t \in Tasks : t \in S
<1> SUFFICES ASSUME NEW t0 \in Tasks, t0 \notin S PROVE FALSE
  OBVIOUS
<1> DEFINE T == {n \in Nat : \E t \in Tasks : t \notin S /\ Pos(t) = n}
<1>1. T \in SUBSET Nat
  OBVIOUS
<1>2. T # {}
  BY PosOfTask
<1> HIDE DEF T
<1>3. PICK x \in T : \A y \in T : x <= y
  BY <1>1, <1>2, LeastNatural
<1>4. PICK t \in Tasks : t \notin S /\ Pos(t) = x /\ x \in Nat
  BY <1>3 DEF T
<1>5. ASSUME NEW u \in Earlier(t) PROVE u \in S
  <2>1. u \in Tasks /\ Pos(u) < x /\ Pos(u) \in Nat
    BY <1>4, EarlierPos, PosOfTask
  <2>2. Pos(u) \notin T
    BY <1>3, <1>4, <2>1
  <2>3. QED
    BY <2>1, <2>2 DEF T
<1>6. QED
  BY <1>4, <1>5

-----------------------------------------------------------------------------
(* The cell that a task leads to.  Follow(tr, f) is one step of the        *)
(* recursion of CellOf, when each task t tracks tr[t].                     *)

Tracks(tr) == \A t \in Tasks : tr[t] \in Earlier(t) \cup {NoTask, t}

Follow(tr, f) == [t \in Tasks |-> IF tr[t] \in {NoTask, t} THEN t ELSE f[tr[t]]]

FollowUpTo(tr, f, n) ==
  \A t \in Tasks : Pos(t) <= n =>
    f[t] = IF tr[t] \in {NoTask, t} THEN t ELSE f[tr[t]]

\* The recursion has a solution, found task by task along Program.
LEMMA FollowExists ==
  ASSUME NEW tr, Tracks(tr)
  PROVE  \E f : f = Follow(tr, f)
<1> DEFINE S == {n \in Nat : \E f \in [Tasks -> Tasks] : FollowUpTo(tr, f, n)}
<1>1. S \in SUBSET Nat
  OBVIOUS
<1>2. 0 \in S
  <2>1. [t \in Tasks |-> t] \in [Tasks -> Tasks]
    OBVIOUS
  <2>2. FollowUpTo(tr, [t \in Tasks |-> t], 0)
    BY PosOfTask DEF FollowUpTo
  <2>3. QED
    BY <2>1, <2>2
<1>3. ASSUME NEW n \in S PROVE n + 1 \in S
  <2>1. n \in Nat
    OBVIOUS
  <2>2. PICK f \in [Tasks -> Tasks] : FollowUpTo(tr, f, n)
    OBVIOUS
  <2> DEFINE g == [t \in Tasks |-> IF Pos(t) <= n \/ tr[t] \in {NoTask, t} THEN
                                     IF Pos(t) <= n THEN f[t] ELSE t
                                   ELSE f[tr[t]]]
  <2>3. g \in [Tasks -> Tasks]
    BY EarlierOrder DEF Tracks
  <2>4. ASSUME NEW t \in Tasks, Pos(t) <= n + 1
        PROVE  g[t] = IF tr[t] \in {NoTask, t} THEN t ELSE g[tr[t]]
    <3>1. Pos(t) \in Nat
      BY PosOfTask
    <3>2. CASE tr[t] \in {NoTask, t}
      BY <3>2, <2>2 DEF FollowUpTo
    <3>3. CASE tr[t] \notin {NoTask, t}
      <4>1. tr[t] \in Tasks /\ Pos(tr[t]) < Pos(t) /\ Pos(tr[t]) \in Nat
        BY <3>3, EarlierPos, PosOfTask DEF Tracks
      <4>2. Pos(tr[t]) <= n
        BY <2>1, <2>4, <3>1, <4>1
      <4>3. g[tr[t]] = f[tr[t]]
        BY <4>1, <4>2
      <4>4. g[t] = f[tr[t]]
        BY <2>2, <3>3 DEF FollowUpTo
      <4>5. QED
        BY <3>3, <4>3, <4>4
    <3>4. QED
      BY <3>2, <3>3
  <2> HIDE DEF g
  <2>5. FollowUpTo(tr, g, n + 1)
    BY <2>4 DEF FollowUpTo
  <2>6. QED
    BY <2>1, <2>3, <2>5
<1> HIDE DEF S
<1>4. S = Nat
  BY <1>1, <1>2, <1>3, SetInduction
<1>5. PICK f \in [Tasks -> Tasks] : FollowUpTo(tr, f, Len(Program))
  BY <1>4, PosOfTask DEF S
<1>6. \A t \in Tasks : f[t] = IF tr[t] \in {NoTask, t} THEN t ELSE f[tr[t]]
  BY <1>5, PosOfTask DEF FollowUpTo
<1>7. f = Follow(tr, f)
  BY <1>6 DEF Follow
<1>8. QED
  BY <1>7

\* A task leads to itself or to one before it, and no further.
LEMMA FollowRoot ==
  ASSUME NEW tr, Tracks(tr), NEW f, f = Follow(tr, f)
  PROVE  \A t \in Tasks : f[t] \in Earlier(t) \cup {t} /\ tr[f[t]] \in {NoTask, f[t]}
<1> DEFINE S == {t \in Tasks : f[t] \in Earlier(t) \cup {t} /\ tr[f[t]] \in {NoTask, f[t]}}
<1>1. ASSUME NEW t \in Tasks, \A u \in Earlier(t) : u \in S PROVE t \in S
  <2>1. f[t] = IF tr[t] \in {NoTask, t} THEN t ELSE f[tr[t]]
    BY DEF Follow
  <2>2. CASE tr[t] \in {NoTask, t}
    BY <2>1, <2>2
  <2>3. CASE tr[t] \notin {NoTask, t}
    <3>1. tr[t] \in Earlier(t) /\ tr[t] \in S
      BY <1>1, <2>3 DEF Tracks
    <3>2. QED
      BY <2>1, <2>3, <3>1, EarlierOrder
  <2>4. QED
    BY <2>2, <2>3
<1> HIDE DEF S
<1>2. \A t \in Tasks : t \in S
  BY <1>1, TaskInduction
<1>3. QED
  BY <1>2 DEF S

\* A cell that tracks nothing and then itself leads nowhere else.
LEMMA FollowSame ==
  ASSUME NEW tr, NEW tq, Tracks(tr), Tracks(tq), NEW f, f = Follow(tr, f),
         NEW g, g = Follow(tq, g),
         \A t \in Tasks : tq[t] = tr[t] \/ (tq[t] \in {NoTask, t} /\ tr[t] \in {NoTask, t})
  PROVE  f = g
<1> DEFINE S == {t \in Tasks : f[t] = g[t]}
<1>1. ASSUME NEW t \in Tasks, \A u \in Earlier(t) : u \in S PROVE t \in S
  <2>1. /\ f[t] = IF tr[t] \in {NoTask, t} THEN t ELSE f[tr[t]]
        /\ g[t] = IF tq[t] \in {NoTask, t} THEN t ELSE g[tq[t]]
    BY DEF Follow
  <2>2. CASE tr[t] \in {NoTask, t}
    BY <2>1, <2>2
  <2>3. CASE tr[t] \notin {NoTask, t}
    <3>1. tr[t] \in S /\ tq[t] = tr[t]
      BY <1>1, <2>3 DEF Tracks
    <3>2. QED
      BY <2>1, <2>3, <3>1
  <2>4. QED
    BY <2>2, <2>3
<1> HIDE DEF S
<1>2. \A t \in Tasks : t \in S
  BY <1>1, TaskInduction
<1>3. \A t \in Tasks : f[t] = g[t]
  BY <1>2 DEF S
<1>4. DOMAIN f = Tasks /\ DOMAIN g = Tasks
  BY DEF Follow
<1>5. f = [t \in Tasks |-> f[t]] /\ g = [t \in Tasks |-> g[t]]
  BY DEF Follow
<1>6. QED
  BY <1>3, <1>5

\* When t0 begins to track u, all that led to t0 lead where u leads.
LEMMA FollowTracked ==
  ASSUME NEW tr, NEW tq, Tracks(tr), Tracks(tq), NEW f, f = Follow(tr, f),
         NEW g, g = Follow(tq, g), NEW t0 \in Tasks, NEW u \in Earlier(t0),
         tr[t0] = NoTask, tq[t0] = u, \A t \in Tasks \ {t0} : tq[t] = tr[t]
  PROVE  \A t \in Tasks : g[t] = IF f[t] = t0 THEN f[u] ELSE f[t]
<1> DEFINE S == {t \in Tasks : g[t] = IF f[t] = t0 THEN f[u] ELSE f[t]}
<1>1. ASSUME NEW t \in Tasks, \A v \in Earlier(t) : v \in S PROVE t \in S
  <2>1. /\ f[t] = IF tr[t] \in {NoTask, t} THEN t ELSE f[tr[t]]
        /\ g[t] = IF tq[t] \in {NoTask, t} THEN t ELSE g[tq[t]]
    BY DEF Follow
  <2>2. CASE t = t0
    <3>1. f[t] = t0
      BY <2>1, <2>2
    <3>2. u \in S /\ u # t0 /\ u # NoTask /\ u \in Tasks
      BY <1>1, <2>2, EarlierOrder, TasksAssumption
    <3>3. f[u] # t0
      <4>1. f[u] \in Earlier(u) \cup {u}
        BY <3>2, FollowRoot
      <4>2. QED
        BY <3>2, <4>1, EarlierOrder
    <3>4. g[t] = g[u]
      BY <2>1, <2>2, <3>2
    <3>5. QED
      BY <3>1, <3>2, <3>3, <3>4
  <2>3. CASE t # t0 /\ tr[t] \in {NoTask, t}
    BY <2>1, <2>3
  <2>4. CASE t # t0 /\ tr[t] \notin {NoTask, t}
    <3>1. tr[t] \in S /\ tq[t] = tr[t]
      BY <1>1, <2>4 DEF Tracks
    <3>2. QED
      BY <2>1, <2>4, <3>1
  <2>5. QED
    BY <2>2, <2>3, <2>4
<1> HIDE DEF S
<1>2. \A t \in Tasks : t \in S
  BY <1>1, TaskInduction
<1>3. QED
  BY <1>2 DEF S

\* CellOf is what its definition says.
LEMMA CellOfFollows == Tracks(tracked) => CellOf = Follow(tracked, CellOf)
<1> SUFFICES ASSUME Tracks(tracked) PROVE CellOf = Follow(tracked, CellOf)
  OBVIOUS
<1>1. CellOf = CHOOSE f : f = Follow(tracked, f)
  BY DEF CellOf, Follow
<1>2. \E f : f = Follow(tracked, f)
  BY FollowExists
<1>3. QED
  BY <1>1, <1>2

-----------------------------------------------------------------------------
(* The invariant.                                                          *)

AnyResult == {NoResult} \cup UNION {ResultsOf(t) : t \in Tasks}

Stages == {"start", "passing", "committed", "last"}

Total(f) == f = [t \in Tasks |-> f[t]]

Shape ==
  /\ Total(result) /\ Total(tracked) /\ Total(callbacks) /\ Total(values) /\ Total(count)
  /\ \A t \in Tasks : values[t] = [i \in DOMAIN Args[t] |-> values[t][i]]
  /\ created \in 0 .. Len(Program) /\ awaited \in Nat
  /\ created < Len(Program) => awaited <= Len(Args[New])
  /\ \A t \in Tasks :
       /\ result[t] \in {NoResult} \cup ResultsOf(t)
       /\ \A i \in DOMAIN Args[t] : values[t][i] \in Type[Args[t][i]] \cup {NoResult}
       /\ Kind[t] \notin {"all", "any"} => count[t] = 0
  /\ jobs \subseteq [callback : CallbackSet, result : AnyResult, stage : Stages]
  /\ pushing \subseteq [callback : CallbackSet, cell : Tasks, by : Tasks \cup {NoTask}]
  /\ finished \subseteq CallbackSet /\ lost \subseteq CallbackSet

\* What a bind() tracks is what its argument says.
TrackOK(t) ==
  /\ Kind[t] # "bind" => tracked[t] = NoTask
  /\ Kind[t] = "bind" =>
       /\ result[t] # NoResult <=> tracked[t] = t
       /\ tracked[t] # NoTask <=> Callback(t, 1) \in finished \/ Passing(t)
       /\ tracked[t] = t => IsErr(Arg(t, 1)) /\ result[t] = Arg(t, 1)
       /\ tracked[t] \notin {NoTask, t} =>
            /\ IsOk(Arg(t, 1)) /\ tracked[t] = BindTo[t][Arg(t, 1).of]
            /\ Type[tracked[t]] = Type[t]

Tracking ==
  \A t \in Tasks : tracked[t] \in Earlier(t) \cup {NoTask, t} /\ TrackOK(t)

InPush(c) == \E p \in pushing : p.callback = c

\* A callback waits in the cell that its argument leads to, or in one that leads to
\* it and is passing its callbacks on; and nowhere else.
WaitsIn(u, c) ==
  /\ c \in CallbackSet /\ c.arg \in DOMAIN Args[c.task]
  /\ CellOf[Args[c.task][c.arg]] = CellOf[u] /\ result[u] = NoResult
  /\ tracked[u] # NoTask => Passing(u)
  /\ ~InPush(c) /\ c \notin lost /\ \A v \in Tasks : c \in callbacks[v] => v = u

\* A callback is appended to the vector of the cell that its argument leads to, by
\* one await().
PushOK(p) ==
  /\ p.callback.arg \in DOMAIN Args[p.callback.task]
  /\ CellOf[Args[p.callback.task][p.callback.arg]] = p.cell /\ result[p.cell] = NoResult
  /\ p.callback \notin lost
  /\ \A q \in pushing : q.callback = p.callback => q = p

Waits ==
  /\ \A u \in Tasks : \A c \in callbacks[u] : WaitsIn(u, c)
  /\ \A p \in pushing : PushOK(p)

\* A job carries the result of its argument.
JobOK(j) ==
  LET t == j.callback.task  i == j.callback.arg
  IN  /\ i = 0 => Kind[t] = "create"
      /\ i # 0 => i \in DOMAIN Args[t] /\ j.result = Arg(t, i) /\ j.result # NoResult
      /\ j.stage = "passing" => Kind[t] = "bind"
      /\ j.stage = "committed" => Kind[t] = "all" /\ j.result.ok /\ values[t][i] = j.result.of
      /\ j.stage = "last" =>
           \/ Kind[t] = "all" /\ j.result.ok /\ values[t][i] = j.result.of
           \/ Kind[t] = "any" /\ ~j.result.ok

InCell(c) == \E u \in Tasks : c \in callbacks[u]

InJob(c) == \E j \in jobs : j.callback = c

\* The callback is not with the scheduler yet, or never will be.
Held(c) == InCell(c) \/ InPush(c) \/ c \in lost

\* A callback that was given to await() is in one place.
Placed(c) ==
  /\ IsAwaited(c.task, c.arg) <=> Held(c) \/ InJob(c) \/ c \in finished
  /\ ~(Held(c) /\ InJob(c)) /\ ~(Held(c) /\ c \in finished) /\ ~(InJob(c) /\ c \in finished)
  /\ \A j, k \in jobs : j.callback = c /\ k.callback = c => j = k
  /\ c \in finished => Arg(c.task, c.arg) # NoResult

ArgCallbacks == {c \in CallbackSet : c.arg \in DOMAIN Args[c.task]}

\* A result is the one that the arguments give it.
BackedBy(t, r) ==
  /\ Kind[t] = "map" =>
       IF r.ok THEN IsOk(Arg(t, 1)) /\ r.of = Func[t][Arg(t, 1).of]
               ELSE IsErr(Arg(t, 1)) /\ r = Arg(t, 1)
  /\ Kind[t] = "all" =>
       IF r.ok THEN /\ \A i \in DOMAIN Args[t] : IsOk(Arg(t, i))
                    /\ r.of = [i \in DOMAIN Args[t] |-> Arg(t, i).of]
               ELSE \E i \in DOMAIN Args[t] : IsErr(Arg(t, i)) /\ r = Arg(t, i)
  /\ Kind[t] = "any" =>
       /\ \E i \in DOMAIN Args[t] : Arg(t, i) # NoResult /\ r = Arg(t, i)
       /\ r.ok \/ \A i \in DOMAIN Args[t] : IsErr(Arg(t, i))

\* The results that the cell of t counts, and the arguments that were counted.
Counts(t, r) == r.ok <=> Kind[t] = "all"

Counted(t) ==
  {i \in DOMAIN Args[t] :
     \/ Callback(t, i) \in finished /\ Counts(t, Arg(t, i))
     \/ \E j \in jobs : j.callback = Callback(t, i) /\ j.stage = "last"}

CountOK(t) ==
  /\ count[t] = Cardinality(Counted(t))
  /\ Kind[t] = "all" => \A i \in Counted(t) : values[t][i] = Arg(t, i).of
  /\ \A j \in jobs : j.callback.task = t /\ j.stage = "last" => Counted(t) = DOMAIN Args[t]

JobsOK == \A j \in jobs : JobOK(j)

AllPlaced == \A c \in ArgCallbacks : Placed(c)

AllBacked == \A t \in Tasks : result[t] # NoResult => BackedBy(t, result[t])

AllCounted == \A t \in Tasks : Kind[t] \in {"all", "any"} => CountOK(t)

TaskInv == Shape /\ Tracking /\ Waits /\ JobsOK /\ AllPlaced /\ AllBacked /\ AllCounted

-----------------------------------------------------------------------------
(* What the invariant says of cells and results.                           *)

\* The arguments of a task are tasks, and it is not among them.
LEMMA ArgType ==
  ASSUME NEW t \in Tasks
  PROVE  /\ DOMAIN Args[t] = 1 .. Len(Args[t]) /\ Len(Args[t]) \in Nat
         /\ \A i \in DOMAIN Args[t] : Args[t][i] \in Earlier(t) /\ Args[t][i] \in Tasks
<1>1. Args[t] \in Seq(Tasks) /\ ToSet(Args[t]) \subseteq Earlier(t)
  BY TasksAssumption
<1>2. \A i \in DOMAIN Args[t] : Args[t][i] \in ToSet(Args[t])
  BY DEF ToSet
<1>3. QED
  BY <1>1, <1>2

\* A result is a value of the type of the task, or an error.
LEMMA ResultForm ==
  ASSUME NEW t \in Tasks, NEW r \in ResultsOf(t)
  PROVE  /\ r # NoResult /\ r.ok \in BOOLEAN
         /\ r.ok => r.of \in Type[t] /\ r = Ok(r.of)
         /\ ~r.ok => r.of \in Errors /\ r = Err(r.of)
<1>1. r # NoResult
  BY TasksAssumption
<1>2. CASE r \in {Ok(v) : v \in Type[t]}
  <2>1. PICK v \in Type[t] : r = [ok |-> TRUE, of |-> v]
    BY <1>2 DEF Ok
  <2>2. r.ok = TRUE /\ r.of = v
    BY <2>1
  <2>3. QED
    BY <1>1, <2>1, <2>2 DEF Ok
<1>3. CASE r \in {Err(e) : e \in Errors}
  <2>1. PICK e \in Errors : r = [ok |-> FALSE, of |-> e]
    BY <1>3 DEF Err
  <2>2. r.ok = FALSE /\ r.of = e
    BY <2>1
  <2>3. QED
    BY <1>1, <2>1, <2>2 DEF Err
<1>4. QED
  BY <1>2, <1>3 DEF ResultsOf

\* So CellOf leads from a task to itself or back, to a cell that leads no further.
LEMMA RootIsEarlier ==
  ASSUME Tracks(tracked), NEW t \in Tasks
  PROVE  /\ CellOf[t] \in Earlier(t) \cup {t} /\ CellOf[t] \in Tasks
         /\ tracked[CellOf[t]] \in {NoTask, CellOf[t]}
         /\ CellOf[t] = IF tracked[t] \in {NoTask, t} THEN t ELSE CellOf[tracked[t]]
<1>1. CellOf = Follow(tracked, CellOf)
  BY CellOfFollows
<1>2. CellOf[t] \in Earlier(t) \cup {t} /\ tracked[CellOf[t]] \in {NoTask, CellOf[t]}
  BY <1>1, FollowRoot
<1>3. CellOf[t] = IF tracked[t] \in {NoTask, t} THEN t ELSE CellOf[tracked[t]]
  BY <1>1 DEF Follow
<1>4. QED
  BY <1>2, <1>3, EarlierOrder

\* Readers of a task see nothing, or a result of its type.
LEMMA SeenType ==
  ASSUME Shape, Tracking
  PROVE  \A t \in Tasks : Seen(t) \in {NoResult} \cup ResultsOf(t)
<1> DEFINE S == {t \in Tasks : Seen(t) \in {NoResult} \cup ResultsOf(t)}
<1>0. Tracks(tracked)
  BY DEF Tracking, Tracks
<1>1. ASSUME NEW t \in Tasks, \A u \in Earlier(t) : u \in S PROVE t \in S
  <2>1. CellOf[t] = IF tracked[t] \in {NoTask, t} THEN t ELSE CellOf[tracked[t]]
    BY <1>0, RootIsEarlier
  <2>2. CASE tracked[t] \in {NoTask, t}
    BY <2>1, <2>2 DEF Seen, Shape
  <2>3. CASE tracked[t] \notin {NoTask, t}
    <3>1. tracked[t] \in S
      BY <1>1, <2>3 DEF Tracking
    <3>2. Type[tracked[t]] = Type[t]
      BY <2>3 DEF Tracking, TrackOK
    <3>3. Seen(t) = Seen(tracked[t])
      BY <2>1, <2>3 DEF Seen
    <3>4. QED
      BY <3>1, <3>2, <3>3 DEF ResultsOf
  <2>4. QED
    BY <2>2, <2>3
<1> HIDE DEF S
<1>2. \A t \in Tasks : t \in S
  BY <1>1, TaskInduction
<1>3. QED
  BY <1>2 DEF S

\* A cell without a result, to which some task leads, tracks nothing.
LEMMA VacantRoot ==
  ASSUME Tracking, NEW t \in Tasks, result[CellOf[t]] = NoResult
  PROVE  tracked[CellOf[t]] = NoTask
<1>1. Tracks(tracked)
  BY DEF Tracking, Tracks
<1>2. CellOf[t] \in Tasks /\ tracked[CellOf[t]] \in {NoTask, CellOf[t]}
  BY <1>1, RootIsEarlier
<1>3. TrackOK(CellOf[t])
  BY <1>2 DEF Tracking
<1>4. QED
  BY <1>2, <1>3 DEF TrackOK

-----------------------------------------------------------------------------
(* Results stay.                                                           *)

\* Where tasks lead after a step.
LEMMA CellOfNext == Tracks(tracked)' => CellOf' = Follow(tracked', CellOf')
<1>1. Tracks(tracked)' => (CellOf = Follow(tracked, CellOf))'
  BY CellOfFollows, PTL
<1>2. QED
  BY <1>1

\* Tasks that track what they did lead where they did.
LEMMA SameCells ==
  ASSUME Tracks(tracked), tracked' = tracked
  PROVE  Tracks(tracked)' /\ CellOf' = CellOf
<1>1. Tracks(tracked)'
  BY DEF Tracks
<1>2. CellOf = Follow(tracked, CellOf) /\ CellOf' = Follow(tracked', CellOf')
  BY <1>1, CellOfFollows, CellOfNext
<1>3. QED
  BY <1>1, <1>2, FollowSame
\* A job is the callback of a task on one of its arguments, and carries what this
\* argument resolved to; or it runs the function of a task that has no arguments.
LEMMA JobArg ==
  ASSUME Shape, Tracking, JobsOK, NEW j \in jobs
  PROVE  LET t == j.callback.task  i == j.callback.arg
         IN  /\ t \in Tasks /\ i \in Nat /\ j.callback = Callback(t, i)
             /\ j = [callback |-> j.callback, result |-> j.result, stage |-> j.stage]
             /\ j.callback \in CallbackSet /\ j.stage \in Stages
             /\ Kind[t] # "create" =>
                  /\ i \in DOMAIN Args[t] /\ Args[t][i] \in Tasks
                  /\ j.result = Arg(t, i) /\ j.result \in ResultsOf(Args[t][i])
                  /\ j.callback \in ArgCallbacks
<1> DEFINE t == j.callback.task
<1> DEFINE i == j.callback.arg
<1>1. j \in [callback : CallbackSet, result : AnyResult, stage : Stages]
  BY DEF Shape
<1>2. j.callback \in CallbackSet /\ j.stage \in Stages
  BY <1>1
<1>3. t \in Tasks /\ i \in Nat /\ j.callback = Callback(t, i)
  BY <1>2 DEF CallbackSet, Callback
<1>4. j = [callback |-> j.callback, result |-> j.result, stage |-> j.stage]
  BY <1>1
<1>5. ASSUME Kind[t] # "create"
      PROVE  /\ i \in DOMAIN Args[t] /\ Args[t][i] \in Tasks
             /\ j.result = Arg(t, i) /\ j.result \in ResultsOf(Args[t][i])
             /\ j.callback \in ArgCallbacks
  <2>1. i # 0 /\ i \in DOMAIN Args[t] /\ j.result = Arg(t, i) /\ j.result # NoResult
    BY <1>5 DEF JobsOK, JobOK
  <2>2. Args[t][i] \in Tasks
    BY <1>3, <2>1, ArgType
  <2>3. j.result \in ResultsOf(Args[t][i])
    BY <2>1, <2>2, SeenType DEF Arg
  <2>4. QED
    BY <1>2, <2>1, <2>2, <2>3 DEF ArgCallbacks
<1>6. QED
  BY <1>2, <1>3, <1>4, <1>5

\* A bind() has one job at most, that of its only callback, which has not returned.
LEMMA OneBindJob ==
  ASSUME TaskInv, NEW k \in jobs, NEW t, t = k.callback.task, Kind[t] = "bind"
  PROVE  /\ t \in Tasks /\ DOMAIN Args[t] = 1 .. 1 /\ Len(Args[t]) = 1
         /\ k.callback = Callback(t, 1) /\ k.callback \in ArgCallbacks
         /\ k.result = Arg(t, 1) /\ k.result \in ResultsOf(Args[t][1]) /\ Args[t][1] \in Tasks
         /\ Callback(t, 1) \notin finished
         /\ \A l \in jobs : l.callback.task = t => l = k
<1>1. t \in Tasks
  BY JobArg DEF TaskInv
<1>2. Len(Args[t]) = 1 /\ DOMAIN Args[t] = 1 .. 1
  BY <1>1, ArgType, TasksAssumption
<1>3. ASSUME NEW l \in jobs, l.callback.task = t
      PROVE  /\ l.callback = Callback(t, 1) /\ l.callback \in ArgCallbacks
             /\ l.result = Arg(t, 1) /\ l.result \in ResultsOf(Args[t][1]) /\ Args[t][1] \in Tasks
  BY <1>2, <1>3, JobArg DEF TaskInv
<1>4. Placed(Callback(t, 1)) /\ InJob(Callback(t, 1))
  BY <1>3 DEF TaskInv, AllPlaced, InJob
<1>5. QED
  BY <1>1, <1>2, <1>3, <1>4 DEF Placed

\* A step that keeps what tasks lead to, and the results, keeps what is seen.
LEMMA SameSeen ==
  ASSUME Tracking, tracked' = tracked, result' = result
  PROVE  /\ Tracks(tracked)' /\ CellOf' = CellOf
         /\ \A u \in Tasks : Seen(u)' = Seen(u)
<1>1. Tracks(tracked)
  BY DEF Tracking, Tracks
<1>2. Tracks(tracked)' /\ CellOf' = CellOf
  BY <1>1, SameCells
<1>3. QED
  BY <1>2 DEF Seen

SeenKept == \A u \in Tasks : Seen(u) # NoResult => Seen(u)' = Seen(u)

\* A step that resolves the cell of t with r, or finds it resolved: the steps of jobs
\* (D holds the job) that end with a write(), and those of value sources (D is empty).
Settle(t, r, D) ==
  /\ t \in Tasks /\ r \in ResultsOf(t)
  /\ WriteCell(t, r, jobs \ D)
  /\ finished' = finished \cup {j.callback : j \in D}
  /\ \/ D = {} /\ Kind[t] = "source"
     \/ \E j \in jobs :
          /\ D = {j} /\ j.callback.task = t /\ j.stage # "passing"
          /\ Kind[t] \in {"all", "any"} => j.stage = "last" \/ ~Counts(t, j.result)
  /\ \/ Kind[t] # "bind" /\ tracked' = tracked
     \/ /\ Kind[t] = "bind" /\ tracked[t] = NoTask
        /\ tracked' = [tracked EXCEPT ![t] = t]
        /\ r = Arg(t, 1) /\ IsErr(r)
  /\ BackedBy(t, r)
  /\ UNCHANGED <<created, awaited, pushing, lost, values, count>>

\* Resolving a cell leaves all tasks leading where they did, and changes no result
\* that was there.
LEMMA SettleCells ==
  ASSUME Shape, Tracking, NEW t, NEW r, NEW D, Settle(t, r, D)
  PROVE  /\ Tracks(tracked)' /\ CellOf' = CellOf
         /\ \A u \in Tasks : result'[u] = IF u = t /\ Vacant(t) THEN r ELSE result[u]
         /\ SeenKept
<1>1. t \in Tasks
  BY DEF Settle
<1>2. Tracks(tracked)
  BY DEF Tracking, Tracks
<1>3. \A u \in Tasks : tracked'[u] = tracked[u] \/ (tracked'[u] = u /\ tracked[u] = NoTask)
  <2>1. CASE tracked' = tracked
    BY <2>1
  <2>2. CASE tracked[t] = NoTask /\ tracked' = [tracked EXCEPT ![t] = t]
    BY <1>1, <2>2 DEF Shape, Total
  <2>3. QED
    BY <2>1, <2>2 DEF Settle
<1>4. Tracks(tracked)'
  BY <1>2, <1>3 DEF Tracks
<1>5. CellOf' = CellOf
  <2>1. CellOf = Follow(tracked, CellOf) /\ CellOf' = Follow(tracked', CellOf')
    BY <1>2, <1>4, CellOfFollows, CellOfNext
  <2>2. \A u \in Tasks : tracked'[u] = tracked[u]
                           \/ (tracked'[u] \in {NoTask, u} /\ tracked[u] \in {NoTask, u})
    BY <1>3
  <2>3. Tracks(tracked')
    BY <1>4
  <2>4. QED
    BY <1>2, <2>1, <2>2, <2>3, FollowSame
<1>6. \A u \in Tasks : result'[u] = IF u = t /\ Vacant(t) THEN r ELSE result[u]
  BY <1>1 DEF Settle, WriteCell, Vacant, Shape, Total
<1>7. SeenKept
  <2>1. ASSUME NEW u \in Tasks, Seen(u) # NoResult PROVE Seen(u)' = Seen(u)
    <3>1. CellOf[u] \in Tasks
      BY <1>2, RootIsEarlier
    <3>2. QED
      BY <1>5, <1>6, <2>1, <3>1 DEF Seen, Vacant
  <2>2. QED
    BY <2>1 DEF SeenKept
<1>8. QED
  BY <1>4, <1>5, <1>6, <1>7

\* A bind() that begins to track had no result and no cell, and its argument has
\* the value that led it there.
LEMMA TrackCells ==
  ASSUME TaskInv, NEW j \in jobs, NEW t, t = j.callback.task, TrackBegin(j, t)
  PROVE  LET u == BindTo[t][j.result.of]
         IN  /\ t \in Tasks /\ Kind[t] = "bind" /\ j.callback = Callback(t, 1)
             /\ IsOk(Arg(t, 1)) /\ j.result = Arg(t, 1)
             /\ u \in Earlier(t) /\ u \in Tasks /\ Type[u] = Type[t]
             /\ tracked[t] = NoTask /\ result[t] = NoResult
             /\ Tracks(tracked)' /\ CellOf[u] # t /\ CellOf[u] \in Tasks
             /\ \A v \in Tasks : tracked'[v] = IF v = t THEN u ELSE tracked[v]
             /\ \A v \in Tasks : CellOf'[v] = IF CellOf[v] = t THEN CellOf[u] ELSE CellOf[v]
             /\ SeenKept
<1> DEFINE u == BindTo[t][j.result.of]
<1>1. t \in Tasks /\ Kind[t] = "bind" /\ j.result.ok /\ j.stage = "start"
  BY JobArg DEF TrackBegin, Starts, TaskInv
<1>2. BindTo[t] \in [Type[Args[t][1]] -> {x \in Earlier(t) : Type[x] = Type[t]}]
  BY <1>1, TasksAssumption
<1>3. /\ j.callback = Callback(t, 1) /\ j.callback \in ArgCallbacks
      /\ j.result = Arg(t, 1) /\ j.result \in ResultsOf(Args[t][1]) /\ Args[t][1] \in Tasks
  BY <1>1, OneBindJob
<1>4. IsOk(Arg(t, 1)) /\ j.result.of \in Type[Args[t][1]]
  BY <1>1, <1>3, ResultForm DEF IsOk
<1>5. u \in Earlier(t) /\ u \in Tasks /\ Type[u] = Type[t] /\ u # t /\ u # NoTask
  <2>1. u \in Earlier(t) /\ Type[u] = Type[t]
    BY <1>2, <1>4
  <2> HIDE DEF u
  <2>2. u \in Tasks /\ u # t
    BY <1>1, <2>1, EarlierOrder
  <2>3. NoTask \notin Tasks
    BY TasksAssumption
  <2>4. QED
    BY <2>1, <2>2, <2>3
<1>6. tracked[t] = NoTask /\ result[t] = NoResult
  <2>1. Callback(t, 1) \notin finished /\ ~Passing(t)
    BY <1>1, OneBindJob DEF Passing
  <2>2. TrackOK(t) /\ t # NoTask
    BY <1>1, TasksAssumption DEF TaskInv, Tracking
  <2>3. QED
    BY <1>1, <2>1, <2>2 DEF TrackOK
<1>7. \A v \in Tasks : tracked'[v] = IF v = t THEN u ELSE tracked[v]
  BY <1>1 DEF TrackBegin, TaskInv, Shape, Total
<1> HIDE DEF u
<1>8. Tracks(tracked) /\ Tracks(tracked)'
  BY <1>5, <1>7 DEF TaskInv, Tracking, Tracks
<1>9. CellOf[u] # t /\ CellOf[u] \in Tasks
  <2>1. CellOf[u] \in Earlier(u) \cup {u} /\ CellOf[u] \in Tasks
    BY <1>5, <1>8, RootIsEarlier
  <2>2. QED
    BY <1>1, <1>5, <2>1, EarlierOrder
<1>10. \A v \in Tasks : CellOf'[v] = IF CellOf[v] = t THEN CellOf[u] ELSE CellOf[v]
  <2>1. CellOf = Follow(tracked, CellOf) /\ CellOf' = Follow(tracked', CellOf')
    BY <1>8, CellOfFollows, CellOfNext
  <2>2. Tracks(tracked') /\ tracked'[t] = u /\ \A v \in Tasks \ {t} : tracked'[v] = tracked[v]
    BY <1>1, <1>7, <1>8
  <2>3. QED
    BY <1>1, <1>5, <1>6, <1>8, <2>1, <2>2, FollowTracked
<1>11. SeenKept
  <2>1. ASSUME NEW v \in Tasks, Seen(v) # NoResult PROVE Seen(v)' = Seen(v)
    <3>1. CellOf[v] # t
      BY <1>6, <2>1 DEF Seen
    <3>2. QED
      BY <1>10, <3>1 DEF Seen, TrackBegin
  <2>2. QED
    BY <2>1 DEF SeenKept
<1>12. QED
  BY <1>1, <1>3, <1>4, <1>5, <1>6, <1>7, <1>8, <1>9, <1>10, <1>11 DEF u
-----------------------------------------------------------------------------
(* The steps that resolve a cell.                                          *)

\* A job that ends with a write() of a result that its arguments justify.
LEMMA WriteSettles ==
  ASSUME NEW j \in jobs, NEW t \in Tasks, t = j.callback.task, NEW r \in ResultsOf(t),
         Write(j, t, r), Kind[t] # "bind", BackedBy(t, r), j.stage # "passing",
         Kind[t] \in {"all", "any"} => j.stage = "last" \/ ~Counts(t, j.result)
  PROVE  Settle(t, r, {j})
<1>1. finished' = finished \cup {k.callback : k \in {j}}
  BY DEF Write, Finish
<1>2. QED
  BY <1>1 DEF Settle, Write

\* An error is a result of every type.
LEMMA ErrorPasses ==
  ASSUME NEW u \in Tasks, NEW r \in ResultsOf(u), ~r.ok, NEW t \in Tasks
  PROVE  r \in ResultsOf(t)
<1>1. r.of \in Errors /\ r = Err(r.of)
  BY ResultForm
<1>2. QED
  BY <1>1 DEF ResultsOf

\* The values of the arguments of when_all() make a value of its type.
LEMMA AllOfType ==
  ASSUME NEW t \in Tasks, Kind[t] = "all", NEW k \in DOMAIN Args[t],
         NEW f, f = [i \in DOMAIN Args[t] |-> f[i]],
         \A i \in DOMAIN Args[t] : f[i] \in Type[Args[t][i]]
  PROVE  f \in Type[t]
<1> DEFINE u == Args[t][k]
<1>1. \A i \in DOMAIN Args[t] : Type[t] = [DOMAIN Args[t] -> Type[Args[t][i]]]
  <2>1. \A v \in ToSet(Args[t]) : Type[t] = [DOMAIN Args[t] -> Type[v]]
    BY TasksAssumption
  <2>2. \A i \in DOMAIN Args[t] : Args[t][i] \in ToSet(Args[t])
    BY DEF ToSet
  <2>3. QED
    BY <2>1, <2>2, Zenon
<1>2. ASSUME NEW i \in DOMAIN Args[t] PROVE f[i] \in Type[u]
  <2>1. [n \in DOMAIN Args[t] |-> f[i]] \in [DOMAIN Args[t] -> Type[Args[t][i]]]
    OBVIOUS
  <2>2. [n \in DOMAIN Args[t] |-> f[i]] \in [DOMAIN Args[t] -> Type[u]]
    BY <1>1, <2>1, Zenon
  <2>3. [n \in DOMAIN Args[t] |-> f[i]][i] \in Type[u]
    BY <2>2
  <2>4. QED
    BY <2>3
<1>3. f \in [DOMAIN Args[t] -> Type[u]]
  BY <1>2
<1>4. QED
  BY <1>1, <1>3, Zenon

\* map() writes what its function makes of the value, or the error.
LEMMA MapSettles ==
  ASSUME TaskInv, NEW j \in jobs, NEW t, t = j.callback.task, Map(j, t)
  PROVE  \E r : Settle(t, r, {j})
<1>1. t \in Tasks /\ Kind[t] = "map" /\ j.stage # "passing"
  BY JobArg DEF Map, Starts, TaskInv
<1>2. Len(Args[t]) = 1 /\ Func[t] \in [Type[Args[t][1]] -> Type[t]]
  BY <1>1, TasksAssumption
<1>3. j.result = Arg(t, 1) /\ j.result \in ResultsOf(Args[t][1]) /\ Args[t][1] \in Tasks
  <2>1. DOMAIN Args[t] = 1 .. 1
    BY <1>1, <1>2, ArgType
  <2>2. QED
    BY <1>1, <2>1, JobArg DEF TaskInv
<1>4. CASE j.result.ok
  <2>1. j.result.of \in Type[Args[t][1]] /\ j.result # NoResult
    BY <1>3, <1>4, ResultForm
  <2> DEFINE r == Ok(Func[t][j.result.of])
  <2>2. r \in ResultsOf(t)
    BY <1>2, <2>1 DEF ResultsOf
  <2>3. r.ok = TRUE /\ r.of = Func[t][j.result.of]
    BY DEF Ok
  <2>4. Write(j, t, r)
    BY <1>4 DEF Map
  <2> HIDE DEF r
  <2>5. BackedBy(t, r)
    BY <1>1, <1>3, <1>4, <2>1, <2>3 DEF BackedBy, IsOk
  <2>6. QED
    BY <1>1, <2>2, <2>4, <2>5, WriteSettles
<1>5. CASE ~j.result.ok
  <2>1. j.result \in ResultsOf(t) /\ j.result # NoResult
    BY <1>1, <1>3, <1>5, ErrorPasses, ResultForm
  <2>2. BackedBy(t, j.result)
    BY <1>1, <1>3, <1>5, <2>1 DEF BackedBy, IsErr
  <2>3. Write(j, t, j.result)
    BY <1>5 DEF Map
  <2>4. QED
    BY <1>1, <2>1, <2>2, <2>3, WriteSettles
<1>6. QED
  BY <1>4, <1>5

\* bind() of an error fills its own cell with it, and had not been resolved before.
LEMMA TrackErrorSettles ==
  ASSUME TaskInv, NEW j \in jobs, NEW t, t = j.callback.task, TrackError(j, t)
  PROVE  \E r : Settle(t, r, {j})
<1>1. t \in Tasks /\ Kind[t] = "bind" /\ ~j.result.ok /\ j.stage = "start"
  BY JobArg DEF TrackError, Starts, TaskInv
<1>3. /\ j.result = Arg(t, 1) /\ j.result \in ResultsOf(Args[t][1]) /\ Args[t][1] \in Tasks
      /\ j.callback = Callback(t, 1) /\ j.callback \in ArgCallbacks
  BY <1>1, OneBindJob
<1>4. tracked[t] = NoTask
  <2>1. Callback(t, 1) \notin finished /\ ~Passing(t)
    BY <1>1, OneBindJob DEF Passing
  <2>2. TrackOK(t)
    BY <1>1 DEF TaskInv, Tracking
  <2>3. QED
    BY <1>1, <2>1, <2>2 DEF TrackOK
<1>5. j.result \in ResultsOf(t) /\ IsErr(j.result)
  BY <1>1, <1>3, ErrorPasses, ResultForm DEF IsErr
<1>6. BackedBy(t, j.result)
  BY <1>1 DEF BackedBy
<1>7. finished' = finished \cup {k.callback : k \in {j}}
  BY DEF TrackError, Finish
<1>8. Settle(t, j.result, {j})
  BY <1>1, <1>3, <1>4, <1>5, <1>6, <1>7 DEF Settle, TrackError
<1>9. QED
  BY <1>8

\* The first error of when_all(), and the first value of when_any().
LEMMA FirstSettles ==
  ASSUME TaskInv, NEW j \in jobs, NEW t, t = j.callback.task, ResolveFirst(j, t)
  PROVE  \E r : Settle(t, r, {j})
<1>1. /\ t \in Tasks /\ Kind[t] \in {"all", "any"} /\ Write(j, t, j.result)
      /\ j.stage # "passing"
      /\ Kind[t] = "all" => ~j.result.ok
      /\ Kind[t] = "any" => j.result.ok
  BY JobArg DEF ResolveFirst, Starts, TaskInv
<1>2. PICK i \in DOMAIN Args[t] :
        j.result = Arg(t, i) /\ j.result \in ResultsOf(Args[t][i]) /\ Args[t][i] \in Tasks
  BY <1>1, JobArg DEF TaskInv
<1>3. j.result # NoResult /\ j.result.ok \in BOOLEAN
  BY <1>2, ResultForm
<1>4. j.result \in ResultsOf(t)
  <2>1. CASE Kind[t] = "all"
    BY <1>1, <1>2, <2>1, ErrorPasses
  <2>2. CASE Kind[t] = "any"
    <3>1. \A v \in ToSet(Args[t]) : Type[t] = Type[v]
      BY <1>1, <2>2, TasksAssumption
    <3>2. Type[t] = Type[Args[t][i]]
      BY <3>1 DEF ToSet
    <3>3. QED
      BY <1>2, <3>2 DEF ResultsOf
  <2>3. QED
    BY <1>1, <2>1, <2>2
<1>5. BackedBy(t, j.result)
  BY <1>1, <1>2, <1>3 DEF BackedBy, IsErr
<1>6. ~Counts(t, j.result)
  BY <1>1, <1>3 DEF Counts
<1>7. QED
  BY <1>1, <1>4, <1>5, <1>6, WriteSettles

\* An argument that was counted has a result that counts.
LEMMA CountedArg ==
  ASSUME TaskInv, NEW t \in Tasks, Kind[t] \in {"all", "any"}, NEW k \in Counted(t)
  PROVE  Arg(t, k) \in ResultsOf(Args[t][k]) /\ Args[t][k] \in Tasks /\ Counts(t, Arg(t, k))
<1>1. k \in DOMAIN Args[t] /\ Args[t][k] \in Tasks
  BY ArgType DEF Counted
<1>2. CASE Callback(t, k) \in finished /\ Counts(t, Arg(t, k))
  <2>1. Callback(t, k) \in ArgCallbacks
    BY <1>1, ArgType DEF ArgCallbacks, CallbackSet, Callback
  <2>2. Arg(t, k) # NoResult
    BY <1>2, <2>1 DEF TaskInv, AllPlaced, Placed, Callback
  <2>3. QED
    BY <1>1, <1>2, <2>2, SeenType DEF Arg, TaskInv
<1>3. CASE \E l \in jobs : l.callback = Callback(t, k) /\ l.stage = "last"
  <2>1. PICK l \in jobs : l.callback = Callback(t, k) /\ l.stage = "last"
    BY <1>3
  <2>2. l.callback.task = t /\ l.callback.arg = k
    BY <2>1 DEF Callback
  <2>3. l.result = Arg(t, k) /\ l.result \in ResultsOf(Args[t][k])
    BY <2>2, JobArg DEF TaskInv
  <2>4. (Kind[t] = "all" /\ l.result.ok) \/ (Kind[t] = "any" /\ ~l.result.ok)
    <3>1. JobOK(l)
      BY DEF TaskInv, JobsOK
    <3>2. QED
      BY <2>1, <2>2, <3>1 DEF JobOK
  <2>5. QED
    BY <1>1, <2>3, <2>4 DEF Counts
<1>4. QED
  BY <1>2, <1>3 DEF Counted

\* When the last one has counted, each argument has a result that counts, and
\* when_all() holds the values of all.
LEMMA LastSettles ==
  ASSUME TaskInv, NEW j \in jobs, NEW t, t = j.callback.task, ResolveLast(j, t)
  PROVE  \E r : Settle(t, r, {j})
<1>1. t \in Tasks /\ j.stage = "last" /\ JobOK(j)
  BY JobArg DEF ResolveLast, TaskInv, JobsOK
<1>2. Kind[t] \in {"all", "any"} /\ (j.result.ok <=> Kind[t] = "all")
  BY <1>1 DEF JobOK
<1>3. PICK i \in DOMAIN Args[t] :
        j.result = Arg(t, i) /\ j.result \in ResultsOf(Args[t][i]) /\ Args[t][i] \in Tasks
  BY <1>1, <1>2, JobArg DEF TaskInv
<1>4. /\ Counted(t) = DOMAIN Args[t]
      /\ Kind[t] = "all" => \A k \in DOMAIN Args[t] : values[t][k] = Arg(t, k).of
  <2>1. CountOK(t)
    BY <1>1, <1>2 DEF TaskInv, AllCounted
  <2>2. QED
    BY <1>1, <2>1 DEF CountOK
<1>5. \A k \in DOMAIN Args[t] :
        Arg(t, k) \in ResultsOf(Args[t][k]) /\ Args[t][k] \in Tasks /\ Counts(t, Arg(t, k))
  BY <1>1, <1>2, <1>4, CountedArg
<1>6. CASE Kind[t] = "all"
  <2>1. \A k \in DOMAIN Args[t] : IsOk(Arg(t, k)) /\ Arg(t, k).of \in Type[Args[t][k]]
    BY <1>5, <1>6, ResultForm DEF Counts, IsOk
  <2>2. values[t] = [k \in DOMAIN Args[t] |-> values[t][k]]
    BY <1>1 DEF TaskInv, Shape
  <2>3. \A k \in DOMAIN Args[t] : values[t][k] = Arg(t, k).of
    BY <1>4, <1>6
  <2>4. values[t] = [k \in DOMAIN Args[t] |-> Arg(t, k).of]
    BY <2>2, <2>3
  <2>5. values[t] \in Type[t]
    <3>1. \A k \in DOMAIN Args[t] : values[t][k] \in Type[Args[t][k]]
      BY <2>1, <2>3
    <3>2. QED
      BY <1>1, <1>6, <2>2, <3>1, AllOfType, Zenon
  <2> DEFINE r == Ok(values[t])
  <2>6. r \in ResultsOf(t) /\ r.ok = TRUE /\ r.of = values[t]
    BY <2>5 DEF ResultsOf, Ok
  <2>7. Write(j, t, r)
    BY <1>2, <1>6 DEF ResolveLast
  <2> HIDE DEF r
  <2>8. BackedBy(t, r)
    BY <1>6, <2>1, <2>4, <2>6 DEF BackedBy
  <2>9. QED
    BY <1>1, <1>6, <2>6, <2>7, <2>8, WriteSettles
<1>7. CASE Kind[t] = "any"
  <2>1. \A k \in DOMAIN Args[t] : IsErr(Arg(t, k))
    BY <1>5, <1>7, ResultForm DEF Counts, IsErr
  <2>2. ~j.result.ok /\ j.result # NoResult
    BY <1>2, <1>3, <1>7, ResultForm
  <2>3. j.result \in ResultsOf(t)
    BY <1>1, <1>3, <2>2, ErrorPasses
  <2>4. BackedBy(t, j.result)
    BY <1>3, <1>7, <2>1, <2>2 DEF BackedBy
  <2>5. Write(j, t, j.result)
    BY <2>2 DEF ResolveLast
  <2>6. QED
    BY <1>1, <1>7, <2>3, <2>4, <2>5, WriteSettles
<1>8. QED
  BY <1>2, <1>6, <1>7

\* The function given to create() has a value of the right type.
LEMMA FunctionSettles ==
  ASSUME TaskInv, NEW j \in jobs, NEW t, t = j.callback.task, RunFunction(j, t)
  PROVE  \E r : Settle(t, r, {j})
<1>1. t \in Tasks /\ Kind[t] = "create" /\ j.stage # "passing"
  BY JobArg DEF RunFunction, Starts, TaskInv
<1>2. PICK v \in Type[t] : Write(j, t, Ok(v))
  BY DEF RunFunction
<1>3. Ok(v) \in ResultsOf(t)
  BY DEF ResultsOf
<1>4. BackedBy(t, Ok(v))
  BY <1>1 DEF BackedBy
<1>5. QED
  BY <1>1, <1>2, <1>3, <1>4, WriteSettles

\* complete() and error() need no argument.
LEMMA SourceSettles ==
  ASSUME TaskInv, NEW t \in Tasks, NEW r \in ResultsOf(t), Resolve(t, r)
  PROVE  Settle(t, r, {})
<1>1. BackedBy(t, r) /\ Kind[t] = "source"
  BY DEF BackedBy, Resolve
<1>2. jobs \ {} = jobs /\ finished' = finished \cup {k.callback : k \in {}}
  BY DEF Resolve
<1>3. QED
  BY <1>1, <1>2 DEF Settle, Resolve
-----------------------------------------------------------------------------
(* What a step keeps because results stay.                                 *)

\* An argument that has a result keeps it.
LEMMA ArgKept ==
  ASSUME SeenKept, NEW t \in Tasks, NEW i \in DOMAIN Args[t], Arg(t, i) # NoResult
  PROVE  Arg(t, i)' = Arg(t, i)
BY ArgType DEF SeenKept, Arg

\* What justifies a result goes on to do so.
LEMMA BackedKept ==
  ASSUME SeenKept, NEW t \in Tasks, NEW r, BackedBy(t, r)
  PROVE  BackedBy(t, r)'
<1>1. \A i \in DOMAIN Args[t] : Arg(t, i) # NoResult => Arg(t, i)' = Arg(t, i)
  BY ArgKept
<1>2. Kind[t] = "map" => 1 \in DOMAIN Args[t]
  BY ArgType, TasksAssumption
<1>3. CASE Kind[t] = "map"
  BY <1>1, <1>2, <1>3 DEF BackedBy, IsOk, IsErr
<1>4. CASE Kind[t] = "all"
  <2>1. CASE r.ok
    <3>1. \A i \in DOMAIN Args[t] : IsOk(Arg(t, i)) /\ Arg(t, i)' = Arg(t, i)
      BY <1>1, <1>4, <2>1 DEF BackedBy, IsOk
    <3>2. r.of = [i \in DOMAIN Args[t] |-> Arg(t, i)'.of]
      BY <1>4, <2>1, <3>1 DEF BackedBy
    <3>3. QED
      BY <1>4, <2>1, <3>1, <3>2 DEF BackedBy, IsOk
  <2>2. CASE ~r.ok
    BY <1>1, <1>4, <2>2 DEF BackedBy, IsErr
  <2>3. QED
    BY <2>1, <2>2
<1>5. CASE Kind[t] = "any"
  <2>1. \E i \in DOMAIN Args[t] : Arg(t, i)' # NoResult /\ r = Arg(t, i)'
    BY <1>1, <1>5 DEF BackedBy
  <2>2. r.ok \/ \A i \in DOMAIN Args[t] : IsErr(Arg(t, i))'
    BY <1>1, <1>5 DEF BackedBy, IsErr
  <2>3. QED
    BY <1>5, <2>1, <2>2 DEF BackedBy
<1>6. QED
  BY <1>3, <1>4, <1>5 DEF BackedBy

\* Results that were there or are backed are backed.
LEMMA BackedNext ==
  ASSUME AllBacked, SeenKept,
         \A t \in Tasks : result'[t] = result[t] \/ BackedBy(t, result'[t])
  PROVE  AllBacked'
<1>1. ASSUME NEW t \in Tasks, result'[t] # NoResult
      PROVE  BackedBy(t, result[t])'
  <2>1. PICK r : r = result'[t]
    OBVIOUS
  <2>2. BackedBy(t, r)
    <3>1. CASE result'[t] = result[t]
      BY <1>1, <2>1, <3>1 DEF AllBacked
    <3>2. CASE BackedBy(t, result'[t])
      BY <2>1, <3>2
    <3>3. QED
      BY <3>1, <3>2
  <2>3. BackedBy(t, r)'
    BY <2>2, BackedKept
  <2>4. QED
    BY <2>1, <2>3 DEF BackedBy
<1>2. QED
  BY <1>1 DEF AllBacked

\* A job goes on to carry the result of its argument.
LEMMA JobKept ==
  ASSUME Shape, Tracking, JobsOK, SeenKept, NEW j \in jobs,
         values'[j.callback.task][j.callback.arg] = values[j.callback.task][j.callback.arg]
  PROVE  JobOK(j)'
<1> DEFINE t == j.callback.task
<1> DEFINE i == j.callback.arg
<1>1. JobOK(j) /\ t \in Tasks
  BY JobArg DEF JobsOK
<1>2. ASSUME i # 0 PROVE Arg(t, i)' = Arg(t, i)
  BY <1>1, <1>2, ArgKept DEF JobOK
<1>3. QED
  BY <1>1, <1>2 DEF JobOK

\* A new job carries the result that its argument has now.
LEMMA NewJobOK ==
  ASSUME NEW c \in ArgCallbacks, NEW r, r # NoResult, Arg(c.task, c.arg)' = r
  PROVE  JobOK(Job(c, r))'
<1>1. c.task \in Tasks /\ c.arg \in DOMAIN Args[c.task] /\ c.arg # 0
  BY ArgType DEF ArgCallbacks, CallbackSet
<1>2. QED
  BY <1>1 DEF JobOK, Job

-----------------------------------------------------------------------------
(* Callbacks move: those in M, from the cell of t to jobs that carry r;    *)
(* and the jobs of D return.                                               *)

Moves(t, r, D, M) ==
  /\ t \in Tasks /\ D \in SUBSET jobs /\ M \in SUBSET callbacks[t]
  /\ jobs' = (jobs \ D) \cup {Job(c, r) : c \in M}
  /\ finished' = finished \cup {j.callback : j \in D}
  /\ \A c \in ArgCallbacks : Held(c)' <=> Held(c) /\ c \notin M
  /\ \A c \in M : r # NoResult /\ Arg(c.task, c.arg)' = r
  /\ UNCHANGED <<created, awaited, values>>

\* What waits in a cell is a callback on an argument.
LEMMA WaitingIsArg ==
  ASSUME Waits, NEW t \in Tasks, NEW c \in callbacks[t]
  PROVE  c \in ArgCallbacks /\ Held(c)
BY DEF Waits, WaitsIn, ArgCallbacks, Held, InCell

\* Callbacks that move are in one place afterwards.
LEMMA MovesPlaced ==
  ASSUME TaskInv, SeenKept, NEW t, NEW r, NEW D, NEW M, Moves(t, r, D, M)
  PROVE  AllPlaced'
<1> SUFFICES ASSUME NEW c \in ArgCallbacks PROVE Placed(c)'
  BY DEF AllPlaced, ArgCallbacks, CallbackSet
<1>0. Placed(c) /\ c.task \in Tasks /\ c.arg \in DOMAIN Args[c.task]
  BY DEF TaskInv, AllPlaced, ArgCallbacks, CallbackSet
<1>1. IsAwaited(c.task, c.arg)' <=> IsAwaited(c.task, c.arg)
  BY DEF Moves, IsAwaited, IsCreated, New
<1>2. Held(c)' <=> Held(c) /\ c \notin M
  BY DEF Moves
<1>3. c \in M => Held(c)
  BY WaitingIsArg DEF Moves, TaskInv
<1>4. ASSUME NEW k \in jobs', k.callback = c
      PROVE  k \in jobs \ D \/ (c \in M /\ k = Job(c, r))
  BY <1>4 DEF Moves, Job
<1>5. c \in M => Job(c, r) \in jobs' /\ Job(c, r).callback = c
  BY DEF Moves, Job
<1>6. c \in finished' <=> c \in finished \/ \E j \in D : j.callback = c
  BY DEF Moves
<1>7. \A j \in D : j \in jobs
  BY DEF Moves
<1>8. \A j \in jobs \ D : j \in jobs'
  BY DEF Moves
<1>9. InJob(c)' <=> (\E j \in jobs \ D : j.callback = c) \/ c \in M
  BY <1>4, <1>5, <1>8 DEF InJob
<1>10. \A j, k \in jobs' : j.callback = c /\ k.callback = c => j = k
  <2>1. ASSUME NEW j \in jobs', NEW k \in jobs', j.callback = c, k.callback = c
        PROVE  j = k
    <3>1. CASE c \in M
      BY <1>0, <1>3, <1>4, <2>1, <3>1 DEF Placed, InJob
    <3>2. CASE c \notin M
      BY <1>0, <1>4, <2>1, <3>2 DEF Placed
    <3>3. QED
      BY <3>1, <3>2
  <2>2. QED
    BY <2>1
<1>11. IsAwaited(c.task, c.arg)' <=> Held(c)' \/ InJob(c)' \/ c \in finished'
  BY <1>0, <1>1, <1>2, <1>3, <1>6, <1>7, <1>9 DEF Placed, InJob
<1>12. /\ ~(Held(c)' /\ InJob(c)') /\ ~(Held(c)' /\ c \in finished')
       /\ ~(InJob(c)' /\ c \in finished')
  BY <1>0, <1>2, <1>3, <1>6, <1>7, <1>9 DEF Placed, InJob
<1>13. ASSUME c \in finished' PROVE Arg(c.task, c.arg)' # NoResult
  <2>1. Arg(c.task, c.arg) # NoResult
    <3>1. CASE c \in finished
      BY <1>0, <3>1 DEF Placed
    <3>2. CASE c \notin finished
      <4>1. PICK j \in D : j.callback = c
        BY <1>6, <1>13, <3>2
      <4>2. JobOK(j) /\ c.arg # 0
        BY <1>0, <1>7, ArgType DEF TaskInv, JobsOK
      <4>3. QED
        BY <4>1, <4>2 DEF JobOK
    <3>3. QED
      BY <3>1, <3>2
  <2>2. QED
    BY <1>0, <2>1, ArgKept
<1>14. QED
  BY <1>10, <1>11, <1>12, <1>13 DEF Placed

\* The jobs that callbacks become carry the results of their arguments.
LEMMA MovesJobs ==
  ASSUME TaskInv, SeenKept, NEW t, NEW r \in AnyResult, NEW D, NEW M, Moves(t, r, D, M)
  PROVE  /\ JobsOK'
         /\ jobs' \subseteq [callback : CallbackSet, result : AnyResult, stage : Stages]
         /\ finished' \subseteq CallbackSet
<1>1. ASSUME NEW k \in jobs'
      PROVE  k \in jobs \/ \E c \in ArgCallbacks : k = Job(c, r) /\ c \in M
  <2>1. k \in jobs \/ \E c \in M : k = Job(c, r)
    BY DEF Moves
  <2>2. \A c \in M : c \in ArgCallbacks
    BY WaitingIsArg DEF Moves, TaskInv
  <2>3. QED
    BY <2>1, <2>2
<1>2. ASSUME NEW k \in jobs' PROVE JobOK(k)'
  <2>1. CASE k \in jobs
    BY <2>1, JobKept DEF TaskInv, Moves
  <2>2. CASE \E c \in ArgCallbacks : k = Job(c, r) /\ c \in M
    <3>1. PICK c \in ArgCallbacks : k = Job(c, r) /\ c \in M
      BY <2>2
    <3>2. JobOK(Job(c, r))'
      BY <3>1, NewJobOK DEF Moves
    <3>3. QED
      BY <3>1, <3>2
  <2>3. QED
    BY <1>1, <2>1, <2>2
<1>3. ASSUME NEW k \in jobs'
      PROVE  k \in [callback : CallbackSet, result : AnyResult, stage : Stages]
  <2>1. CASE k \in jobs
    BY <2>1 DEF TaskInv, Shape
  <2>2. CASE \E c \in ArgCallbacks : k = Job(c, r) /\ c \in M
    BY <2>2 DEF Job, ArgCallbacks, Stages
  <2>3. QED
    BY <1>1, <2>1, <2>2
<1>4. finished' \subseteq CallbackSet
  <2>1. \A j \in jobs : j.callback \in CallbackSet
    BY DEF TaskInv, Shape
  <2>2. QED
    BY <2>1 DEF Moves, TaskInv, Shape
<1>5. QED
  BY <1>2, <1>3, <1>4 DEF JobsOK
\* Jobs that return count nothing that was not counted, and lose nothing.
LEMMA MovesCounted ==
  ASSUME TaskInv, SeenKept, NEW t, NEW r, NEW D, NEW M, Moves(t, r, D, M), count' = count,
         \A j \in D : LET u == j.callback.task
                      IN  Kind[u] \in {"all", "any"} => j.stage = "last" \/ ~Counts(u, j.result)
  PROVE  AllCounted'
<1> SUFFICES ASSUME NEW u \in Tasks, Kind[u] \in {"all", "any"} PROVE CountOK(u)'
  BY DEF AllCounted
<1>0. CountOK(u)
  BY DEF TaskInv, AllCounted
<1>1. ASSUME NEW k \in jobs', k.stage = "last" PROVE k \in jobs \ D
  BY <1>1 DEF Moves, Job
<1>2. ASSUME NEW k \in Counted(u) PROVE Arg(u, k)' = Arg(u, k) /\ k \in DOMAIN Args[u]
  <2>1. k \in DOMAIN Args[u]
    BY DEF Counted
  <2>2. Arg(u, k) # NoResult
    BY <2>1, CountedArg, ResultForm
  <2>3. QED
    BY <2>1, <2>2, ArgKept
<1>3. ASSUME NEW k \in Counted(u) PROVE k \in Counted(u)'
  <2>1. CASE Callback(u, k) \in finished
    <3>1. Counts(u, Arg(u, k))
      BY CountedArg
    <3>2. Counts(u, Arg(u, k)) = Counts(u, Arg(u, k)')
      BY <1>2
    <3>3. Callback(u, k) \in finished' /\ k \in DOMAIN Args[u]
      BY <1>2, <2>1 DEF Moves
    <3>4. QED
      BY <3>1, <3>2, <3>3 DEF Counted, Counts
  <2>2. CASE Callback(u, k) \notin finished
    <3>1. PICK j \in jobs : j.callback = Callback(u, k) /\ j.stage = "last"
      BY <2>2 DEF Counted
    <3>2. CASE j \in D
      <4>1. Callback(u, k) \in finished'
        BY <3>1, <3>2 DEF Moves
      <4>2. Counts(u, Arg(u, k)) /\ Arg(u, k)' = Arg(u, k) /\ k \in DOMAIN Args[u]
        BY <1>2, CountedArg
      <4>3. QED
        BY <4>1, <4>2 DEF Counted, Counts
    <3>3. CASE j \notin D
      <4>1. j \in jobs' /\ k \in DOMAIN Args[u]
        BY <1>2, <3>3 DEF Moves
      <4>2. QED
        BY <3>1, <4>1 DEF Counted
    <3>4. QED
      BY <3>2, <3>3
  <2>3. QED
    BY <2>1, <2>2
<1>4. ASSUME NEW k \in Counted(u)' PROVE k \in Counted(u)
  <2>1. k \in DOMAIN Args[u]
    BY DEF Counted
  <2>2. CASE \E j \in jobs' : j.callback = Callback(u, k) /\ j.stage = "last"
    BY <1>1, <2>1, <2>2 DEF Counted
  <2>3. CASE Callback(u, k) \in finished' /\ Counts(u, Arg(u, k))'
    <3>1. Callback(u, k) \in ArgCallbacks /\ Callback(u, k).task = u /\ Callback(u, k).arg = k
      BY <2>1, ArgType DEF ArgCallbacks, CallbackSet, Callback
    <3>2. CASE Callback(u, k) \in finished
      <4>1. Arg(u, k) # NoResult
        BY <3>1, <3>2 DEF TaskInv, AllPlaced, Placed
      <4>2. Arg(u, k)' = Arg(u, k)
        BY <2>1, <4>1, ArgKept
      <4>3. QED
        BY <2>1, <2>3, <3>2, <4>2 DEF Counted, Counts
    <3>3. CASE Callback(u, k) \notin finished
      <4>1. PICK j \in D : j.callback = Callback(u, k) /\ j \in jobs
        BY <2>3, <3>3 DEF Moves
      <4>2. j.result = Arg(u, k) /\ j.result \in ResultsOf(Args[u][k]) /\ Args[u][k] \in Tasks
        BY <3>1, <4>1, JobArg DEF TaskInv
      <4>3. Arg(u, k)' = Arg(u, k)
        BY <2>1, <4>2, ResultForm, ArgKept
      <4>4. j.stage = "last"
        BY <2>3, <3>1, <4>1, <4>2, <4>3 DEF Counts
      <4>5. QED
        BY <2>1, <4>1, <4>4 DEF Counted
    <3>4. QED
      BY <3>2, <3>3
  <2>4. QED
    BY <2>2, <2>3 DEF Counted
<1>5. Counted(u)' = Counted(u)
  BY <1>3, <1>4
<1>6. QED
  <2>1. count'[u] = Cardinality(Counted(u)')
    BY <1>0, <1>5 DEF CountOK
  <2>2. Kind[u] = "all" => \A i \in Counted(u)' : values'[u][i] = Arg(u, i)'.of
    BY <1>0, <1>2, <1>5 DEF CountOK, Moves
  <2>3. \A j \in jobs' : j.callback.task = u /\ j.stage = "last" => Counted(u)' = DOMAIN Args[u]
    BY <1>0, <1>1, <1>5 DEF CountOK
  <2>4. QED
    BY <2>1, <2>2, <2>3 DEF CountOK

\* A step that neither counts nor ends a callback counts what was counted.
LEMMA CountedKept ==
  ASSUME TaskInv, SeenKept, UNCHANGED <<finished, values, count>>,
         \A l : l \in jobs' /\ l.stage = "last" <=> l \in jobs /\ l.stage = "last"
  PROVE  AllCounted'
<1> SUFFICES ASSUME NEW u \in Tasks, Kind[u] \in {"all", "any"} PROVE CountOK(u)'
  BY DEF AllCounted
<1>1. CountOK(u)
  BY DEF TaskInv, AllCounted
<1>2. ASSUME NEW n \in DOMAIN Args[u], n \in Counted(u) \/ Callback(u, n) \in finished
      PROVE  Arg(u, n)' = Arg(u, n)
  <2>1. CASE n \in Counted(u)
    BY <2>1, CountedArg, ResultForm, ArgKept
  <2>2. CASE Callback(u, n) \in finished
    <3>1. Callback(u, n) \in ArgCallbacks /\ Callback(u, n).task = u /\ Callback(u, n).arg = n
      BY ArgType DEF ArgCallbacks, CallbackSet, Callback
    <3>2. Arg(u, n) # NoResult
      BY <2>2, <3>1 DEF TaskInv, AllPlaced, Placed
    <3>3. QED
      BY <3>2, ArgKept
  <2>3. QED
    BY <1>2, <2>1, <2>2
<1>3. \A n \in DOMAIN Args[u] : n \in Counted(u)' <=> n \in Counted(u)
  BY <1>2 DEF Counted, Counts
<1>4. Counted(u)' \subseteq DOMAIN Args[u] /\ Counted(u) \subseteq DOMAIN Args[u]
  BY DEF Counted
<1>5. Counted(u)' = Counted(u)
  BY <1>3, <1>4
<1>6. Kind[u] = "all" => \A n \in Counted(u)' : values'[u][n] = Arg(u, n)'.of
  BY <1>1, <1>2, <1>4, <1>5 DEF CountOK
<1>7. QED
  BY <1>1, <1>5, <1>6 DEF CountOK

\* A bind() that a step does not concern tracks what it did.
LEMMA TrackKept ==
  ASSUME TaskInv, SeenKept, NEW u \in Tasks, tracked'[u] = tracked[u],
         Kind[u] = "bind" =>
           /\ result'[u] = result[u]
           /\ Callback(u, 1) \in finished' <=> Callback(u, 1) \in finished
           /\ Passing(u)' <=> Passing(u)
  PROVE  tracked'[u] \in Earlier(u) \cup {NoTask, u} /\ TrackOK(u)'
<1>1. tracked[u] \in Earlier(u) \cup {NoTask, u} /\ TrackOK(u)
  BY DEF TaskInv, Tracking
<1>2. ASSUME Kind[u] = "bind", Arg(u, 1) # NoResult PROVE Arg(u, 1)' = Arg(u, 1)
  <2>1. 1 \in DOMAIN Args[u]
    BY <1>2, ArgType, TasksAssumption
  <2>2. QED
    BY <1>2, <2>1, ArgKept
<1>3. CASE Kind[u] # "bind"
  BY <1>1, <1>3 DEF TrackOK
<1>4. CASE Kind[u] = "bind"
  BY <1>1, <1>2, <1>4 DEF TrackOK, IsOk, IsErr
<1>5. QED
  BY <1>3, <1>4

-----------------------------------------------------------------------------
(* A step that resolves a cell keeps the invariant.                        *)

\* A cell that is resolved is not one that tracks another.
LEMMA SettleRoot ==
  ASSUME TaskInv, NEW t, NEW r, NEW D, Settle(t, r, D)
  PROVE  CellOf[t] = t /\ \A u \in Tasks \ {t} : Passing(u)' <=> Passing(u)
<1>1. t \in Tasks /\ TrackOK(t) /\ Tracks(tracked)
  BY DEF Settle, TaskInv, Tracking, Tracks
<1>2. tracked[t] = NoTask
  BY <1>1 DEF Settle, TrackOK
<1>3. CellOf[t] = t
  BY <1>1, <1>2, RootIsEarlier
<1>4. \A j \in D : j \in jobs /\ j.callback.task = t
  BY DEF Settle
<1>5. PICK M : jobs' = (jobs \ D) \cup {Job(c, r) : c \in M}
  <2>1. jobs \ D = (jobs \ D) \cup {Job(c, r) : c \in {}}
    OBVIOUS
  <2>2. QED
    BY <2>1 DEF Settle, WriteCell
<1>6. \A u \in Tasks \ {t} : Passing(u)' <=> Passing(u)
  BY <1>4, <1>5 DEF Passing, Job
<1>7. QED
  BY <1>3, <1>6

\* The callbacks of a cell that is resolved become jobs, and the others stay.
LEMMA SettleMoves ==
  ASSUME TaskInv, NEW t, NEW r, NEW D, Settle(t, r, D)
  PROVE  LET M == IF Vacant(t) THEN callbacks[t] ELSE {}
         IN  /\ \A u \in Tasks : callbacks'[u] = IF u = t THEN callbacks[u] \ M ELSE callbacks[u]
             /\ jobs' = (jobs \ D) \cup {Job(c, r) : c \in M}
             /\ \A c \in M : r # NoResult /\ Arg(c.task, c.arg)' = r
             /\ Moves(t, r, D, M)
<1> DEFINE M == IF Vacant(t) THEN callbacks[t] ELSE {}
<1>1. t \in Tasks /\ r # NoResult /\ D \in SUBSET jobs /\ M \in SUBSET callbacks[t]
  BY ResultForm DEF Settle
<1>2. \A u \in Tasks : callbacks'[u] = IF u = t THEN callbacks[u] \ M ELSE callbacks[u]
  <2>1. CASE Vacant(t)
    <3>1. callbacks' = [callbacks EXCEPT ![t] = {}]
      BY <2>1 DEF Settle, WriteCell
    <3>2. QED
      BY <1>1, <2>1, <3>1 DEF TaskInv, Shape, Total
  <2>2. CASE ~Vacant(t)
    BY <2>2 DEF Settle, WriteCell
  <2>3. QED
    BY <2>1, <2>2
<1>3. jobs' = (jobs \ D) \cup {Job(c, r) : c \in M}
  BY DEF Settle, WriteCell
<1>4. ASSUME NEW c \in M PROVE Arg(c.task, c.arg)' = r
  <2>1. Vacant(t) /\ c \in callbacks[t]
    BY <1>4
  <2>2. c.task \in Tasks /\ Args[c.task][c.arg] \in Tasks /\ CellOf[Args[c.task][c.arg]] = t
    BY <1>1, <2>1, ArgType, SettleRoot DEF TaskInv, Waits, WaitsIn, CallbackSet
  <2>3. CellOf' = CellOf /\ result'[t] = r
    BY <1>1, <2>1, SettleCells DEF TaskInv
  <2>4. QED
    BY <2>2, <2>3 DEF Arg, Seen
<1> HIDE DEF M
<1>5. ASSUME NEW c \in ArgCallbacks PROVE Held(c)' <=> Held(c) /\ c \notin M
  <2>1. c \in callbacks[t] =>
          ~InPush(c) /\ c \notin lost /\ \A u \in Tasks : c \in callbacks[u] => u = t
    BY <1>1 DEF TaskInv, Waits, WaitsIn
  <2>2. InCell(c)' <=> InCell(c) /\ c \notin M
    BY <1>1, <1>2, <2>1 DEF InCell
  <2>3. (InPush(c)' <=> InPush(c)) /\ lost' = lost
    BY DEF Settle, InPush
  <2>4. QED
    BY <1>1, <2>1, <2>2, <2>3 DEF Held
<1>6. Moves(t, r, D, M)
  BY <1>1, <1>3, <1>4, <1>5 DEF Moves, Settle
<1>7. QED
  BY <1>1, <1>2, <1>3, <1>4, <1>6 DEF M

\* Only bind() of an error changes what a task tracks when it is resolved.
LEMMA SettleTracking ==
  ASSUME TaskInv, NEW t, NEW r, NEW D, Settle(t, r, D)
  PROVE  Tracking'
<1> SUFFICES ASSUME NEW u \in Tasks
             PROVE  tracked'[u] \in Earlier(u) \cup {NoTask, u} /\ TrackOK(u)'
  BY DEF Tracking
<1>0. SeenKept /\ \A v \in Tasks : result'[v] = IF v = t /\ Vacant(t) THEN r ELSE result[v]
  BY SettleCells DEF TaskInv
<1>1. t \in Tasks /\ r \in ResultsOf(t) /\ r # NoResult /\ \A j \in D : j \in jobs /\ j.callback.task = t
  BY ResultForm DEF Settle
<1>2. CASE u = t /\ Kind[t] = "bind"
  <2>1. /\ tracked[t] = NoTask /\ tracked' = [tracked EXCEPT ![t] = t]
        /\ r = Arg(t, 1) /\ IsErr(r)
    BY <1>2 DEF Settle
  <2>2. PICK j \in jobs : D = {j} /\ j.callback.task = t
    BY <1>2 DEF Settle
  <2>3. DOMAIN Args[t] = 1 .. 1
    BY <1>1, <1>2, ArgType, TasksAssumption
  <2>4. j.callback = Callback(t, 1)
    BY <1>2, <2>2, <2>3, JobArg DEF TaskInv
  <2>5. Callback(t, 1) \in finished'
    BY <2>2, <2>4 DEF Settle
  <2>6. tracked'[t] = t
    BY <1>1, <2>1 DEF TaskInv, Shape, Total
  <2>7. Vacant(t) /\ t # NoTask
    <3>1. TrackOK(t) /\ t # NoTask
      BY <1>1, TasksAssumption DEF TaskInv, Tracking
    <3>2. QED
      BY <1>2, <2>1, <3>1 DEF TrackOK, Vacant
  <2>8. result'[t] = r
    BY <1>0, <1>1, <2>7
  <2>9. Arg(t, 1)' = r
    BY <1>0, <1>1, <2>1, <2>3, ArgKept
  <2>10. QED
    BY <1>1, <1>2, <2>1, <2>5, <2>6, <2>7, <2>8, <2>9 DEF TrackOK
<1>3. CASE ~(u = t /\ Kind[t] = "bind")
  <2>1. tracked'[u] = tracked[u]
    BY <1>1, <1>3 DEF Settle, TaskInv, Shape, Total
  <2>2. ASSUME Kind[u] = "bind"
        PROVE  /\ result'[u] = result[u]
               /\ Callback(u, 1) \in finished' <=> Callback(u, 1) \in finished
               /\ Passing(u)' <=> Passing(u)
    <3>1. u # t
      BY <1>3, <2>2
    <3>2. \A j \in D : j.callback # Callback(u, 1)
      BY <1>1, <3>1 DEF Callback
    <3>3. QED
      BY <1>0, <3>1, <3>2, SettleRoot DEF Settle
  <2>3. QED
    BY <1>0, <2>1, <2>2, TrackKept
<1>4. QED
  BY <1>2, <1>3

\* All parts of the invariant together.
LEMMA SettleKeeps ==
  ASSUME TaskInv, NEW t, NEW r, NEW D, Settle(t, r, D)
  PROVE  TaskInv'
<1>1. /\ CellOf' = CellOf /\ SeenKept
      /\ \A u \in Tasks : result'[u] = IF u = t /\ Vacant(t) THEN r ELSE result[u]
  BY SettleCells DEF TaskInv
<1>2. t \in Tasks /\ r \in ResultsOf(t) /\ r \in AnyResult /\ BackedBy(t, r)
  BY DEF Settle, AnyResult
<1>3. PICK M : /\ M = IF Vacant(t) THEN callbacks[t] ELSE {}
               /\ \A u \in Tasks : callbacks'[u] = IF u = t THEN callbacks[u] \ M ELSE callbacks[u]
               /\ Moves(t, r, D, M)
  BY SettleMoves
<1>4. /\ JobsOK' /\ finished' \subseteq CallbackSet
      /\ jobs' \subseteq [callback : CallbackSet, result : AnyResult, stage : Stages]
  BY <1>1, <1>2, <1>3, MovesJobs
<1>5. Shape'
  <2>1. Total(result)' /\ Total(callbacks)'
    BY <1>2 DEF Settle, WriteCell, TaskInv, Shape, Total
  <2>2. Total(tracked)'
    BY <1>2 DEF Settle, TaskInv, Shape, Total
  <2>3. \A u \in Tasks : result'[u] \in {NoResult} \cup ResultsOf(u)
    BY <1>1, <1>2 DEF TaskInv, Shape
  <2>4. UNCHANGED <<created, awaited, pushing, lost, values, count>>
    BY DEF Settle
  <2>5. QED
    BY <1>4, <2>1, <2>2, <2>3, <2>4 DEF TaskInv, Shape, Total, New
<1>6. Tracking'
  BY SettleTracking
<1>7. Waits'
  <2>1. ASSUME NEW u \in Tasks, NEW c \in callbacks'[u]
        PROVE  WaitsIn(u, c)'
    <3>1. c \in callbacks[u] /\ ~(u = t /\ Vacant(t)) /\ WaitsIn(u, c)
      BY <1>3, <2>1 DEF TaskInv, Waits
    <3>2. u # t
      BY <3>1 DEF WaitsIn, Vacant
    <3>3. tracked'[u] = tracked[u] /\ (Passing(u)' <=> Passing(u))
      BY <1>2, <3>2, SettleRoot DEF Settle, TaskInv, Shape, Total
    <3>4. \A v \in Tasks : c \in callbacks'[v] => c \in callbacks[v]
      BY <1>3
    <3>5. (InPush(c)' <=> InPush(c)) /\ lost' = lost
      BY DEF Settle, InPush
    <3>6. QED
      BY <1>1, <3>1, <3>2, <3>3, <3>4, <3>5 DEF WaitsIn, CallbackSet
  <2>2. ASSUME NEW q \in pushing PROVE PushOK(q)'
    <3>1. q.cell # t /\ PushOK(q) /\ q.cell \in Tasks
      BY DEF Settle, WriteCell, Pushing, TaskInv, Waits, Shape
    <3>2. pushing' = pushing /\ lost' = lost
      BY DEF Settle
    <3>3. QED
      BY <1>1, <3>1, <3>2 DEF PushOK
  <2>3. pushing' = pushing
    BY DEF Settle
  <2>4. QED
    BY <2>1, <2>2, <2>3 DEF Waits
<1>8. AllPlaced'
  BY <1>1, <1>3, MovesPlaced
<1>9. AllBacked'
  BY <1>1, <1>2, BackedNext DEF TaskInv
<1>10. AllCounted'
  <2>1. \A j \in D : LET u == j.callback.task
                     IN  Kind[u] \in {"all", "any"} => j.stage = "last" \/ ~Counts(u, j.result)
    BY DEF Settle
  <2>2. count' = count
    BY DEF Settle
  <2>3. QED
    BY <1>1, <1>3, <2>1, <2>2, MovesCounted
<1>11. QED
  BY <1>4, <1>5, <1>6, <1>7, <1>8, <1>9, <1>10 DEF TaskInv
-----------------------------------------------------------------------------
(* Steps in which nothing is resolved and no job ends or begins to track.  *)

Builds ==
  /\ UNCHANGED <<result, tracked, finished, values, count>>
  /\ jobs \subseteq jobs' /\ \A j \in jobs' : j \in jobs \/ j.stage = "start"

\* Such steps keep all that is known of results and counters.
LEMMA BuildsKeep ==
  ASSUME TaskInv, Builds
  PROVE  /\ SeenKept /\ CellOf' = CellOf /\ \A u \in Tasks : Seen(u)' = Seen(u)
         /\ Tracking' /\ AllBacked' /\ AllCounted' /\ \A j \in jobs : JobOK(j)'
         /\ \A u : Passing(u)' <=> Passing(u)
<1>0. \A u : Passing(u)' <=> Passing(u)
  BY DEF Builds, Passing
<1>1. CellOf' = CellOf /\ \A u \in Tasks : Seen(u)' = Seen(u)
  BY SameSeen DEF TaskInv, Builds
<1>2. SeenKept
  BY <1>1 DEF SeenKept
<1>3. Tracking'
  <2>1. ASSUME NEW u \in Tasks
        PROVE  tracked'[u] \in Earlier(u) \cup {NoTask, u} /\ TrackOK(u)'
    BY <1>0, <1>2, TrackKept DEF Builds
  <2>2. QED
    BY <2>1 DEF Tracking
<1>4. AllBacked'
  BY <1>2, BackedNext DEF TaskInv, Builds
<1>6. AllCounted'
  <2>1. \A l : l \in jobs' /\ l.stage = "last" <=> l \in jobs /\ l.stage = "last"
    BY DEF Builds
  <2>2. QED
    BY <1>2, <2>1, CountedKept DEF Builds
<1>7. \A j \in jobs : JobOK(j)'
  BY <1>2, JobKept DEF TaskInv, Builds
<1>8. QED
  BY <1>0, <1>1, <1>2, <1>3, <1>4, <1>6, <1>7

\* Callbacks that go from one cell, or await(), to another are where they were.
LEMMA ShiftKeeps ==
  ASSUME TaskInv, Total(callbacks)', Waits', \A c \in ArgCallbacks : Held(c)' <=> Held(c),
         pushing' \subseteq [callback : CallbackSet, cell : Tasks, by : Tasks \cup {NoTask}],
         lost' \subseteq CallbackSet,
         UNCHANGED <<created, awaited, result, tracked, jobs, finished, values, count>>
  PROVE  TaskInv' /\ SeenKept
<1>1. Builds
  BY DEF Builds
<1>2. SeenKept /\ Tracking' /\ AllBacked' /\ AllCounted' /\ JobsOK'
  BY <1>1, BuildsKeep DEF JobsOK
<1>3. Shape'
  BY DEF TaskInv, Shape, Total, New
<1>4. ASSUME NEW c \in ArgCallbacks PROVE Placed(c)'
  <2>1. Placed(c) /\ c.task \in Tasks /\ c.arg \in DOMAIN Args[c.task]
    BY DEF TaskInv, AllPlaced, ArgCallbacks, CallbackSet
  <2>2. /\ IsAwaited(c.task, c.arg)' <=> IsAwaited(c.task, c.arg)
        /\ InJob(c)' <=> InJob(c)
    BY DEF IsAwaited, IsCreated, New, InJob
  <2>3. c \in finished => Arg(c.task, c.arg)' # NoResult
    BY <1>2, <2>1, ArgKept DEF Placed
  <2>4. Held(c)' <=> Held(c)
    OBVIOUS
  <2>5. QED
    BY <2>1, <2>2, <2>3, <2>4 DEF Placed
<1>5. AllPlaced'
  BY <1>4 DEF AllPlaced, ArgCallbacks, CallbackSet
<1>6. QED
  BY <1>2, <1>3, <1>5 DEF TaskInv

\* A callback that is appended waits in the cell.
LEMMA PushEndKeeps ==
  ASSUME TaskInv, NEW p \in pushing, PushEnd(p)
  PROVE  TaskInv' /\ SeenKept
<1>1. /\ callbacks' = [callbacks EXCEPT ![p.cell] = @ \cup {p.callback}]
      /\ pushing' = pushing \ {p} /\ lost' = lost
      /\ UNCHANGED <<created, awaited, result, tracked, jobs, finished, values, count>>
  BY DEF PushEnd
<1>2. /\ p \in [callback : CallbackSet, cell : Tasks, by : Tasks \cup {NoTask}]
      /\ PushOK(p) /\ Total(callbacks)
  BY DEF TaskInv, Shape, Waits
<1>3. \A u \in Tasks : callbacks'[u] = IF u = p.cell THEN callbacks[u] \cup {p.callback}
                                       ELSE callbacks[u]
  BY <1>1, <1>2 DEF Total
<1>4. \A c : InPush(c)' <=> InPush(c) /\ c # p.callback
  BY <1>1, <1>2 DEF InPush, PushOK
<1>5. \A c : InCell(c)' <=> InCell(c) \/ c = p.callback
  BY <1>2, <1>3 DEF InCell
<1>6. \A c : Held(c)' <=> Held(c)
  BY <1>1, <1>4, <1>5 DEF Held, InPush
<1>7. CellOf' = CellOf /\ \A u : Passing(u)' <=> Passing(u)
  BY <1>1, SameSeen DEF TaskInv, Passing
<1>8. ASSUME NEW u \in Tasks, NEW c \in callbacks'[u] PROVE WaitsIn(u, c)'
  <2>1. CASE c \in callbacks[u]
    <3>1. WaitsIn(u, c)
      BY <2>1 DEF TaskInv, Waits
    <3>2. c # p.callback
      BY <3>1 DEF WaitsIn, InPush
    <3>3. QED
      BY <1>1, <1>3, <1>4, <1>7, <3>1, <3>2 DEF WaitsIn, CallbackSet
  <2>2. CASE c \notin callbacks[u]
    <3>1. c = p.callback /\ u = p.cell
      BY <1>3, <1>8, <2>2
    <3>2. c \in CallbackSet /\ Args[c.task][c.arg] \in Tasks
      BY <1>2, <3>1, ArgType DEF PushOK, CallbackSet
    <3>3. tracked[u] = NoTask /\ CellOf[u] = u
      <4>1. tracked[u] = NoTask
        BY <1>2, <3>1, <3>2, VacantRoot DEF TaskInv, PushOK
      <4>2. Tracks(tracked)
        BY DEF TaskInv, Tracking, Tracks
      <4>3. QED
        BY <4>1, <4>2, RootIsEarlier
    <3>4. \A v \in Tasks : c \notin callbacks[v]
      BY <3>1 DEF TaskInv, Waits, WaitsIn, InPush
    <3>5. QED
      BY <1>1, <1>2, <1>3, <1>4, <1>7, <3>1, <3>2, <3>3, <3>4 DEF WaitsIn, PushOK, CallbackSet
  <2>3. QED
    BY <2>1, <2>2
<1>9. ASSUME NEW q \in pushing' PROVE PushOK(q)'
  <2>1. PushOK(q)
    BY <1>1 DEF TaskInv, Waits
  <2>2. QED
    BY <1>1, <1>7, <2>1 DEF PushOK
<1>10. Waits'
  BY <1>8, <1>9 DEF Waits
<1>11. Total(callbacks)'
  BY <1>1, <1>2 DEF Total
<1>12. QED
  BY <1>1, <1>6, <1>10, <1>11, ShiftKeeps DEF TaskInv, Shape

\* A callback that another is constructed over is lost.
LEMMA PushLostKeeps ==
  ASSUME TaskInv, NEW p \in pushing, PushLost(p)
  PROVE  TaskInv' /\ SeenKept
<1>1. /\ lost' = lost \cup {p.callback} /\ pushing' = pushing \ {p} /\ callbacks' = callbacks
      /\ UNCHANGED <<created, awaited, result, tracked, jobs, finished, values, count>>
  BY DEF PushLost
<1>2. /\ p \in [callback : CallbackSet, cell : Tasks, by : Tasks \cup {NoTask}]
      /\ PushOK(p)
  BY DEF TaskInv, Shape, Waits
<1>3. \A c : InPush(c)' <=> InPush(c) /\ c # p.callback
  BY <1>1, <1>2 DEF InPush, PushOK
<1>4. \A c : Held(c)' <=> Held(c)
  BY <1>1, <1>3 DEF Held, InPush, InCell
<1>5. CellOf' = CellOf /\ \A u : Passing(u)' <=> Passing(u)
  BY <1>1, SameSeen DEF TaskInv, Passing
<1>6. ASSUME NEW u \in Tasks, NEW c \in callbacks'[u] PROVE WaitsIn(u, c)'
  <2>1. WaitsIn(u, c)
    BY <1>1, <1>6 DEF TaskInv, Waits
  <2>2. c # p.callback
    BY <2>1 DEF WaitsIn, InPush
  <2>3. QED
    BY <1>1, <1>3, <1>5, <2>1, <2>2 DEF WaitsIn, CallbackSet
<1>7. ASSUME NEW q \in pushing' PROVE PushOK(q)'
  <2>1. PushOK(q) /\ q.callback # p.callback
    BY <1>1, <1>2 DEF TaskInv, Waits, PushOK
  <2>2. QED
    BY <1>1, <1>5, <2>1 DEF PushOK
<1>8. Waits'
  BY <1>6, <1>7 DEF Waits
<1>9. Total(callbacks)' /\ lost' \subseteq CallbackSet
  BY <1>1, <1>2 DEF TaskInv, Shape, Total
<1>10. QED
  BY <1>1, <1>4, <1>8, <1>9, ShiftKeeps DEF TaskInv, Shape

-----------------------------------------------------------------------------
(* Steps of jobs in which no callback moves.                               *)

Quiet == UNCHANGED <<created, awaited, result, tracked, callbacks, pushing, lost>>

\* Such a step keeps what is seen and what justifies results.
LEMMA QuietKeeps ==
  ASSUME TaskInv, Quiet
  PROVE  /\ SeenKept /\ CellOf' = CellOf /\ \A u \in Tasks : Seen(u)' = Seen(u)
         /\ AllBacked' /\ \A c : Held(c)' <=> Held(c)
<1>1. CellOf' = CellOf /\ \A u \in Tasks : Seen(u)' = Seen(u)
  BY SameSeen DEF TaskInv, Quiet
<1>2. SeenKept
  BY <1>1 DEF SeenKept
<1>3. AllBacked'
  BY <1>2, BackedNext DEF TaskInv, Quiet
<1>4. \A c : Held(c)' <=> Held(c)
  BY DEF Held, InCell, InPush, Quiet
<1>5. QED
  BY <1>1, <1>2, <1>3, <1>4

\* Callbacks wait where they did, unless it is with a bind() that passed all on.
LEMMA QuietWaits ==
  ASSUME TaskInv, Quiet,
         \A u \in Tasks : callbacks[u] # {} => (Passing(u)' <=> Passing(u))
  PROVE  Waits'
<1>1. CellOf' = CellOf
  BY QuietKeeps
<1>2. ASSUME NEW u \in Tasks, NEW c \in callbacks'[u] PROVE WaitsIn(u, c)'
  <2>1. WaitsIn(u, c) /\ (Passing(u)' <=> Passing(u))
    BY <1>2 DEF TaskInv, Waits, Quiet
  <2>2. QED
    BY <1>1, <2>1 DEF WaitsIn, CallbackSet, InPush, Quiet
<1>3. ASSUME NEW q \in pushing' PROVE PushOK(q)'
  <2>1. PushOK(q)
    BY <1>3 DEF TaskInv, Waits, Quiet
  <2>2. QED
    BY <1>1, <2>1 DEF PushOK, Quiet
<1>4. QED
  BY <1>2, <1>3 DEF Waits

\* What a bind() tracks is not the concern of callbacks of when_all() and when_any().
LEMMA QuietTracking ==
  ASSUME TaskInv, Quiet, NEW j \in jobs, Kind[j.callback.task] # "bind",
         finished' \in SUBSET (finished \cup {j.callback}), finished \subseteq finished',
         \A u \in Tasks : Passing(u)' <=> Passing(u)
  PROVE  Tracking'
<1> SUFFICES ASSUME NEW u \in Tasks
             PROVE  tracked'[u] \in Earlier(u) \cup {NoTask, u} /\ TrackOK(u)'
  BY DEF Tracking
<1>1. Kind[u] = "bind" => Callback(u, 1) # j.callback
  BY DEF Callback
<1>2. tracked'[u] = tracked[u] /\ result'[u] = result[u] /\ SeenKept
  BY QuietKeeps DEF Quiet
<1>3. Kind[u] = "bind" => (Callback(u, 1) \in finished' <=> Callback(u, 1) \in finished)
  BY <1>1
<1>4. QED
  BY <1>2, <1>3, TrackKept

\* A job that goes on to its next stage is where it was.
LEMMA StagePlaced ==
  ASSUME TaskInv, SeenKept, UNCHANGED <<created, awaited, finished>>,
         \A c \in ArgCallbacks : Held(c)' <=> Held(c),
         NEW j \in jobs, NEW s \in Stages, Becomes(j, s)
  PROVE  /\ AllPlaced'
         /\ jobs' \subseteq [callback : CallbackSet, result : AnyResult, stage : Stages]
<1> DEFINE k == [j EXCEPT !.stage = s]
<1>1. j \in [callback : CallbackSet, result : AnyResult, stage : Stages]
  BY DEF TaskInv, Shape
<1>2. k \in [callback : CallbackSet, result : AnyResult, stage : Stages] /\ k.callback = j.callback
  BY <1>1
<1>3. jobs' = (jobs \ {j}) \cup {k}
  BY DEF Becomes
<1> HIDE DEF k
<1>4. ASSUME NEW c \in ArgCallbacks PROVE Placed(c)'
  <2>0. Placed(c) /\ c.task \in Tasks /\ c.arg \in DOMAIN Args[c.task]
    BY DEF TaskInv, AllPlaced, ArgCallbacks, CallbackSet
  <2>1. IsAwaited(c.task, c.arg)' <=> IsAwaited(c.task, c.arg)
    BY DEF IsAwaited, IsCreated, New
  <2>2. Held(c)' <=> Held(c)
    OBVIOUS
  <2>3. InJob(c)' <=> InJob(c)
    BY <1>2, <1>3 DEF InJob
  <2>4. \A l, m \in jobs' : l.callback = c /\ m.callback = c => l = m
    BY <1>2, <1>3, <2>0 DEF Placed
  <2>5. c \in finished => Arg(c.task, c.arg)' # NoResult
    BY <2>0, ArgKept DEF Placed
  <2>6. QED
    BY <2>0, <2>1, <2>2, <2>3, <2>4, <2>5 DEF Placed
<1>5. AllPlaced'
  BY <1>4 DEF AllPlaced, ArgCallbacks, CallbackSet
<1>6. jobs' \subseteq [callback : CallbackSet, result : AnyResult, stage : Stages]
  BY <1>2, <1>3 DEF TaskInv, Shape
<1>7. QED
  BY <1>5, <1>6

-----------------------------------------------------------------------------
(* A bind() that tracks a task keeps the invariant: the callbacks that     *)
(* waited for it are passed on, one by one, to the cell that it leads to.  *)

\* It tracks what its argument says, and its callbacks wait for the cell it leads to.
LEMMA TrackBeginKeeps ==
  ASSUME TaskInv, NEW j \in jobs, NEW t, t = j.callback.task, TrackBegin(j, t)
  PROVE  TaskInv' /\ SeenKept
<1>1. PICK w, cell :
        /\ t \in Tasks /\ Kind[t] = "bind" /\ j.callback = Callback(t, 1)
        /\ IsOk(Arg(t, 1)) /\ j.result = Arg(t, 1) /\ w = BindTo[t][Arg(t, 1).of]
        /\ w \in Earlier(t) /\ w \in Tasks /\ Type[w] = Type[t]
        /\ tracked[t] = NoTask /\ result[t] = NoResult /\ cell \in Tasks /\ cell # t /\ SeenKept
        /\ \A v \in Tasks : tracked'[v] = IF v = t THEN w ELSE tracked[v]
        /\ \A v \in Tasks : CellOf'[v] = IF CellOf[v] = t THEN cell ELSE CellOf[v]
  BY TrackCells
<1> DEFINE k == [j EXCEPT !.stage = "passing"]
<1>2. /\ tracked' = [tracked EXCEPT ![t] = w] /\ Becomes(j, "passing") /\ j.stage = "start"
      /\ UNCHANGED <<created, awaited, result, callbacks, pushing, finished, lost, values, count>>
  BY <1>1 DEF TrackBegin, Starts
<1>3. k.callback = j.callback /\ k.result = j.result /\ k.stage = "passing"
  BY JobArg DEF TaskInv
<1>4. jobs' = (jobs \ {j}) \cup {k}
  BY <1>2 DEF Becomes
<1> HIDE DEF k
<1>5. Passing(t)' /\ \A u : u # t => (Passing(u)' <=> Passing(u))
  BY <1>1, <1>3, <1>4 DEF Passing
<1>6. \A c : (InPush(c)' <=> InPush(c)) /\ (Held(c)' <=> Held(c))
  BY <1>2 DEF Held, InCell, InPush
<1>7. AllPlaced' /\ jobs' \subseteq [callback : CallbackSet, result : AnyResult, stage : Stages]
  BY <1>1, <1>2, <1>6, StagePlaced DEF Stages
<1>8. Shape'
  <2>1. Total(tracked)'
    BY <1>1, <1>2 DEF TaskInv, Shape, Total
  <2>2. QED
    BY <1>2, <1>7, <2>1 DEF TaskInv, Shape, Total, New
<1>9. 1 \in DOMAIN Args[t] /\ Arg(t, 1)' = Arg(t, 1)
  <2>1. t \in Tasks /\ Kind[t] = "bind" /\ SeenKept /\ Arg(t, 1) # NoResult
    BY <1>1 DEF IsOk
  <2>2. 1 \in DOMAIN Args[t]
    BY <2>1, OneBindJob
  <2>3. QED
    BY <2>1, <2>2, ArgKept
<1>10. Tracking'
  <2>1. ASSUME NEW u \in Tasks, u # t
        PROVE  tracked'[u] \in Earlier(u) \cup {NoTask, u} /\ TrackOK(u)'
    BY <1>1, <1>2, <1>5, <2>1, TrackKept
  <2>2. tracked'[t] \in Earlier(t) \cup {NoTask, t} /\ TrackOK(t)'
    <3>1. tracked'[t] = w /\ w # t /\ w # NoTask /\ t # NoTask
      <4>1. w \in Earlier(t) /\ t \in Tasks /\ w \in Tasks /\ tracked'[t] = w
        BY <1>1
      <4>2. NoTask \notin Tasks
        BY TasksAssumption
      <4>3. QED
        BY <4>1, <4>2, EarlierOrder
    <3>2. QED
      BY <1>1, <1>2, <1>5, <1>9, <3>1 DEF TrackOK, IsOk
  <2>3. QED
    BY <2>1, <2>2 DEF Tracking
<1>11. Waits'
  <2>1. ASSUME NEW u \in Tasks, NEW c \in callbacks'[u] PROVE WaitsIn(u, c)'
    <3>1. WaitsIn(u, c)
      BY <1>2, <2>1 DEF TaskInv, Waits
    <3>2. Args[c.task][c.arg] \in Tasks
      BY <3>1, ArgType DEF WaitsIn, CallbackSet
    <3>3. tracked'[u] # NoTask => Passing(u)'
      BY <1>1, <1>5, <3>1 DEF WaitsIn
    <3>4. QED
      BY <1>1, <1>2, <1>6, <3>1, <3>2, <3>3 DEF WaitsIn, CallbackSet
  <2>2. ASSUME NEW q \in pushing' PROVE PushOK(q)'
    <3>1. PushOK(q) /\ q.cell # t /\ q.callback \in CallbackSet
      BY <1>2 DEF TaskInv, Waits, Shape, TrackBegin, Pushing
    <3>2. Args[q.callback.task][q.callback.arg] \in Tasks
      BY <3>1, ArgType DEF PushOK, CallbackSet
    <3>3. QED
      BY <1>1, <1>2, <3>1, <3>2 DEF PushOK
  <2>3. QED
    BY <2>1, <2>2 DEF Waits
<1>12. JobsOK'
  <2>1. \A l \in jobs : JobOK(l)'
    BY <1>1, <1>2, JobKept DEF TaskInv
  <2>2. JobOK(k)'
    <3>1. k.callback.task = t /\ k.callback.arg = 1
      BY <1>1, <1>3 DEF Callback
    <3>2. /\ k.result = Arg(t, 1)' /\ k.result # NoResult /\ Kind[t] = "bind"
          /\ k.stage = "passing" /\ 1 \in DOMAIN Args[t]
      BY <1>1, <1>3, <1>9 DEF IsOk
    <3>3. QED
      BY <3>1, <3>2 DEF JobOK
  <2>3. QED
    BY <1>4, <2>1, <2>2 DEF JobsOK
<1>13. AllBacked'
  BY <1>1, <1>2, BackedNext DEF TaskInv
<1>14. AllCounted'
  <2>1. \A l : l \in jobs' /\ l.stage = "last" <=> l \in jobs /\ l.stage = "last"
    BY <1>2, <1>3, <1>4
  <2>2. QED
    BY <1>1, <1>2, <2>1, CountedKept
<1>15. QED
  BY <1>1, <1>7, <1>8, <1>10, <1>11, <1>12, <1>13, <1>14 DEF TaskInv

\* A callback that is passed on awaits the cell that its own argument leads to.
LEMMA TrackPassKeeps ==
  ASSUME TaskInv, NEW j \in jobs, NEW t, t = j.callback.task, TrackPass(j, t)
  PROVE  TaskInv' /\ SeenKept
<1>1. t \in Tasks /\ Kind[t] = "bind" /\ Passing(t)
  <2>1. t \in Tasks /\ JobOK(j) /\ j.stage = "passing"
    BY JobArg DEF TaskInv, JobsOK, TrackPass
  <2>2. QED
    BY <2>1 DEF JobOK, Passing
<1>2. PICK c \in callbacks[t] :
        callbacks' = [callbacks EXCEPT ![t] = @ \ {c}] /\ Await(tracked[t], c, t)
  BY DEF TrackPass
<1>3. UNCHANGED <<created, awaited, result, tracked, finished, lost, values, count>>
  BY DEF TrackPass
<1>4. WaitsIn(t, c) /\ c \in ArgCallbacks /\ c \in CallbackSet /\ c.task \in Tasks
      /\ Args[c.task][c.arg] \in Tasks /\ Total(callbacks)
  BY <1>1, <1>2, WaitingIsArg, ArgType DEF TaskInv, Waits, ArgCallbacks, CallbackSet, Shape
<1>5. CellOf[tracked[t]] = CellOf[t] /\ CellOf[t] \in Tasks
  <2>1. Tracks(tracked) /\ TrackOK(t)
    BY <1>1 DEF TaskInv, Tracking, Tracks
  <2>2. tracked[t] \notin {NoTask, t}
    BY <1>1, <1>4, <2>1 DEF TrackOK, WaitsIn
  <2>3. QED
    BY <1>1, <2>1, <2>2, RootIsEarlier
<1>6. PICK cell \in Tasks : cell = CellOf[t]
  BY <1>5
<1>7. CellOf' = CellOf /\ \A u \in Tasks : Seen(u)' = Seen(u)
  BY <1>3, SameSeen DEF TaskInv
<1>8. \A u \in Tasks : callbacks'[u] = IF u = t THEN callbacks[u] \ {c} ELSE callbacks[u]
  BY <1>1, <1>2, <1>4 DEF Total
<1>9. Total(callbacks)' /\ \A d : InCell(d)' <=> InCell(d) /\ d # c
  <2>1. Total(callbacks)'
    BY <1>2, <1>4 DEF Total
  <2>2. QED
    BY <1>1, <1>4, <1>8, <2>1 DEF InCell, WaitsIn
<1>10. CASE result[cell] = NoResult
  <2> DEFINE p == [callback |-> c, cell |-> cell, by |-> t]
  <2>1. pushing' = pushing \cup {p} /\ jobs' = jobs
    BY <1>2, <1>5, <1>6, <1>10 DEF Await
  <2>2. /\ p \in [callback : CallbackSet, cell : Tasks, by : Tasks \cup {NoTask}]
        /\ p.callback = c /\ p.cell = cell
    BY <1>1, <1>4
  <2> HIDE DEF p
  <2>3. \A d : InPush(d)' <=> InPush(d) \/ d = c
    BY <2>1, <2>2 DEF InPush
  <2>4. \A d : Held(d)' <=> Held(d)
    <3>1. InCell(c)
      BY <1>1, <1>2 DEF InCell
    <3>2. QED
      BY <1>3, <1>9, <2>3, <3>1 DEF Held
  <2>5. ASSUME NEW u \in Tasks, NEW d \in callbacks'[u] PROVE WaitsIn(u, d)'
    <3>1. WaitsIn(u, d) /\ d \in callbacks[u]
      BY <1>8, <2>5 DEF TaskInv, Waits
    <3>2. d # c
      BY <1>1, <1>4, <1>8, <2>5, <3>1 DEF WaitsIn
    <3>3. (Passing(u)' <=> Passing(u)) /\ \A v \in Tasks : d \in callbacks'[v] => d \in callbacks[v]
      BY <1>8, <2>1 DEF Passing
    <3>4. QED
      BY <1>3, <1>7, <2>3, <3>1, <3>2, <3>3 DEF WaitsIn, CallbackSet
  <2>6. ASSUME NEW q \in pushing' PROVE PushOK(q)'
    <3>1. ~InPush(c)
      BY <1>4 DEF WaitsIn
    <3>2. CASE q \in pushing
      <4>1. PushOK(q) /\ q.callback # c
        BY <3>1, <3>2 DEF TaskInv, Waits, InPush
      <4>2. QED
        BY <1>3, <1>7, <2>1, <2>2, <4>1 DEF PushOK
    <3>3. CASE q = p
      BY <1>3, <1>4, <1>6, <1>7, <1>10, <2>1, <2>2, <3>1, <3>3 DEF PushOK, WaitsIn, InPush
    <3>4. QED
      BY <2>1, <2>6, <3>2, <3>3
  <2>7. Waits'
    BY <2>5, <2>6 DEF Waits
  <2>8. QED
    BY <1>3, <1>9, <2>1, <2>2, <2>4, <2>7, ShiftKeeps DEF TaskInv, Shape
<1>11. CASE result[cell] # NoResult
  <2>1. PICK r \in AnyResult : r = result[cell]
    BY DEF TaskInv, Shape, AnyResult
  <2>2. jobs' = jobs \cup {Job(c, r)} /\ pushing' = pushing
    BY <1>2, <1>5, <1>6, <1>11, <2>1 DEF Await
  <2>3. Builds
    BY <1>3, <2>2 DEF Builds, Job
  <2>4. /\ SeenKept /\ Tracking' /\ AllBacked' /\ AllCounted'
        /\ \A u : Passing(u)' <=> Passing(u)
    BY <2>3, BuildsKeep
  <2>5. Moves(t, r, {}, {c})
    <3>1. /\ jobs' = (jobs \ {}) \cup {Job(d, r) : d \in {c}}
          /\ finished' = finished \cup {l.callback : l \in {}}
      BY <1>3, <2>2
    <3>2. \A d : Held(d)' <=> Held(d) /\ d # c
      BY <1>3, <1>4, <1>9, <2>2 DEF Held, InPush, WaitsIn
    <3>3. Arg(c.task, c.arg)' = r
      BY <1>3, <1>4, <1>6, <1>7, <2>1 DEF Arg, Seen, WaitsIn
    <3>4. QED
      BY <1>1, <1>2, <1>3, <1>11, <2>1, <3>1, <3>2, <3>3 DEF Moves
  <2>6. /\ JobsOK' /\ finished' \subseteq CallbackSet /\ AllPlaced'
        /\ jobs' \subseteq [callback : CallbackSet, result : AnyResult, stage : Stages]
    BY <2>4, <2>5, MovesJobs, MovesPlaced
  <2>7. Shape'
    BY <1>3, <1>9, <2>2, <2>6 DEF TaskInv, Shape, Total, New
  <2>8. ASSUME NEW u \in Tasks, NEW d \in callbacks'[u] PROVE WaitsIn(u, d)'
    <3>1. WaitsIn(u, d) /\ \A v \in Tasks : d \in callbacks'[v] => d \in callbacks[v]
      BY <1>8, <2>8 DEF TaskInv, Waits
    <3>2. QED
      BY <1>3, <1>7, <2>2, <2>4, <3>1 DEF WaitsIn, CallbackSet, InPush
  <2>9. ASSUME NEW q \in pushing' PROVE PushOK(q)'
    <3>1. PushOK(q)
      BY <2>2, <2>9 DEF TaskInv, Waits
    <3>2. QED
      BY <1>3, <1>7, <2>2, <3>1 DEF PushOK
  <2>10. Waits'
    BY <2>8, <2>9 DEF Waits
  <2>11. QED
    BY <2>4, <2>6, <2>7, <2>10 DEF TaskInv
<1>12. QED
  BY <1>10, <1>11

\* A bind() that passed all its callbacks on has none left.
LEMMA TrackEndKeeps ==
  ASSUME TaskInv, NEW j \in jobs, NEW t, t = j.callback.task, TrackEnd(j, t)
  PROVE  TaskInv' /\ SeenKept
<1>1. t \in Tasks /\ Kind[t] = "bind" /\ Passing(t) /\ callbacks[t] = {}
  <2>1. t \in Tasks /\ JobOK(j) /\ j.stage = "passing"
    BY JobArg DEF TaskInv, JobsOK, TrackEnd
  <2>2. QED
    BY <2>1 DEF JobOK, Passing, TrackEnd, AllPassed
<1>2. /\ jobs' = jobs \ {j} /\ finished' = finished \cup {j.callback}
      /\ UNCHANGED <<created, awaited, result, tracked, pushing, lost, values, count>>
  BY DEF TrackEnd, Finish
<1>3. callbacks' = callbacks
  BY <1>1 DEF TrackEnd, TaskInv, Shape, Total
<1>4. Quiet
  BY <1>2, <1>3 DEF Quiet
<1>5. /\ SeenKept /\ AllBacked' /\ \A u \in Tasks : Seen(u)' = Seen(u)
      /\ \A c : Held(c)' <=> Held(c)
  BY <1>4, QuietKeeps
<1>6. j.callback = Callback(t, 1) /\ \A l \in jobs : l.callback.task = t => l = j
  BY <1>1, OneBindJob
<1>7. \A u : u # t => (Passing(u)' <=> Passing(u))
  BY <1>2 DEF Passing
<1>8. Waits'
  BY <1>1, <1>4, <1>7, QuietWaits
<1>9. Moves(t, NoResult, {j}, {})
  <2>1. /\ jobs' = (jobs \ {j}) \cup {Job(c, NoResult) : c \in {}}
        /\ finished' = finished \cup {l.callback : l \in {j}}
    BY <1>2
  <2>2. QED
    BY <1>1, <1>2, <1>5, <2>1 DEF Moves
<1>10. /\ JobsOK' /\ finished' \subseteq CallbackSet /\ AllPlaced'
       /\ jobs' \subseteq [callback : CallbackSet, result : AnyResult, stage : Stages]
  BY <1>5, <1>9, MovesJobs, MovesPlaced DEF AnyResult
<1>11. Shape'
  BY <1>2, <1>3, <1>10 DEF TaskInv, Shape, Total, New
<1>12. Tracking'
  <2>1. ASSUME NEW u \in Tasks, u # t
        PROVE  tracked'[u] \in Earlier(u) \cup {NoTask, u} /\ TrackOK(u)'
    <3>1. Callback(u, 1) # j.callback
      BY <1>6, <2>1 DEF Callback
    <3>2. QED
      BY <1>2, <1>5, <1>7, <2>1, <3>1, TrackKept
  <2>2. tracked'[t] \in Earlier(t) \cup {NoTask, t} /\ TrackOK(t)'
    <3>1. TrackOK(t) /\ tracked[t] \in Earlier(t) \cup {NoTask, t}
      BY <1>1 DEF TaskInv, Tracking
    <3>2. Arg(t, 1)' = Arg(t, 1)
      BY <1>1, <1>5, ArgType, TasksAssumption DEF Arg
    <3>3. Callback(t, 1) \in finished' /\ tracked[t] # NoTask
      BY <1>1, <1>2, <1>6, <3>1 DEF TrackOK
    <3>4. QED
      BY <1>1, <1>2, <3>1, <3>2, <3>3 DEF TrackOK
  <2>3. QED
    BY <2>1, <2>2 DEF Tracking
<1>13. AllCounted'
  <2>1. \A k \in {j} : LET u == k.callback.task
                       IN  Kind[u] \in {"all", "any"} => k.stage = "last" \/ ~Counts(u, k.result)
    BY <1>1
  <2>2. SeenKept /\ count' = count /\ Moves(t, NoResult, {j}, {})
    BY <1>2, <1>5, <1>9
  <2>3. QED
    BY <2>1, <2>2, MovesCounted
<1>14. QED
  BY <1>5, <1>8, <1>10, <1>11, <1>12, <1>13 DEF TaskInv

-----------------------------------------------------------------------------
(* The callbacks of when_all() and when_any() that store and count.        *)

\* A job that has not counted its argument is the only one that could have.
LEMMA NotYetCounted ==
  ASSUME TaskInv, NEW j \in jobs, j.callback \in ArgCallbacks, j.stage # "last"
  PROVE  j.callback.arg \notin Counted(j.callback.task)
<1>1. Placed(j.callback) /\ j.callback = Callback(j.callback.task, j.callback.arg)
  BY JobArg DEF TaskInv, AllPlaced
<1>2. j.callback \notin finished /\ \A l \in jobs : l.callback = j.callback => l = j
  BY <1>1 DEF Placed, InJob
<1>3. QED
  BY <1>1, <1>2 DEF Counted

\* A value that is stored is the one of an argument not counted yet.
LEMMA CommitKeeps ==
  ASSUME TaskInv, NEW j \in jobs, NEW t, t = j.callback.task, Commit(j, t)
  PROVE  TaskInv'
<1> DEFINE i == j.callback.arg
<1> DEFINE k == [j EXCEPT !.stage = "committed"]
<1>1. t \in Tasks /\ Kind[t] = "all" /\ j.result.ok /\ j.stage = "start"
  BY JobArg DEF Commit, Starts, TaskInv
<1>2. /\ i \in DOMAIN Args[t] /\ Args[t][i] \in Tasks /\ j.callback = Callback(t, i)
      /\ j.result = Arg(t, i) /\ j.result \in ResultsOf(Args[t][i]) /\ j.callback \in ArgCallbacks
  BY <1>1, JobArg DEF TaskInv
<1>3. Quiet /\ finished' = finished /\ count' = count
  BY DEF Commit, Quiet
<1>4. values' = [values EXCEPT ![t][i] = j.result.of]
  BY DEF Commit, Stored
<1>5. jobs' = (jobs \ {j}) \cup {k} /\ Becomes(j, "committed")
  BY DEF Commit, Becomes
<1>6. k.callback = j.callback /\ k.result = j.result /\ k.stage = "committed"
  BY JobArg DEF TaskInv
<1>7. j.result.of \in Type[Args[t][i]] /\ j.result # NoResult
  BY <1>1, <1>2, ResultForm
<1> HIDE DEF k, i
<1>8. /\ \A u \in Tasks : \A n \in DOMAIN Args[u] :
           values'[u][n] = IF u = t /\ n = i THEN j.result.of ELSE values[u][n]
      /\ Total(values)' /\ \A u \in Tasks : values'[u] = [n \in DOMAIN Args[u] |-> values'[u][n]]
  <2>1. Total(values) /\ \A u \in Tasks : values[u] = [n \in DOMAIN Args[u] |-> values[u][n]]
    BY DEF TaskInv, Shape
  <2>2. values' = [values EXCEPT ![t] = [values[t] EXCEPT ![i] = j.result.of]]
    BY <1>4
  <2>3. \A u \in Tasks : values'[u] = IF u = t THEN [values[t] EXCEPT ![i] = j.result.of] ELSE values[u]
    BY <1>1, <2>1, <2>2 DEF Total
  <2>4. Total(values)'
    BY <2>1, <2>2 DEF Total
  <2>5. \A u \in Tasks : DOMAIN values[u] = DOMAIN Args[u]
    BY <2>1
  <2>6. QED
    BY <1>1, <1>2, <2>1, <2>3, <2>4, <2>5
<1>p. \A u \in Tasks : Passing(u)' <=> Passing(u)
  BY <1>1, <1>5, <1>6 DEF Passing
<1>9. AllPlaced' /\ jobs' \subseteq [callback : CallbackSet, result : AnyResult, stage : Stages]
  BY <1>3, <1>5, QuietKeeps, StagePlaced DEF Stages, Quiet
<1>10. Shape'
  <2>1. \A u \in Tasks : \A n \in DOMAIN Args[u] : values'[u][n] \in Type[Args[u][n]] \cup {NoResult}
    BY <1>7, <1>8 DEF TaskInv, Shape
  <2>2. QED
    BY <1>3, <1>8, <1>9, <2>1 DEF TaskInv, Shape, Quiet, Total, New
<1>11. Tracking'
  BY <1>1, <1>3, <1>p, QuietTracking
<1>12. SeenKept /\ Waits' /\ AllBacked' /\ \A u \in Tasks : Seen(u)' = Seen(u)
  BY <1>3, <1>p, QuietKeeps, QuietWaits
<1>13. JobsOK'
  <2>1. ASSUME NEW l \in jobs, l # j PROVE JobOK(l)'
    <3>1. l.callback # j.callback
      BY <1>2, <2>1 DEF TaskInv, AllPlaced, Placed
    <3>2. CASE Kind[l.callback.task] = "create"
      <4>1. JobOK(l)
        BY DEF TaskInv, JobsOK
      <4>2. l.callback.arg = 0
        <5>1. l.callback.task \in Tasks /\ l.callback \in CallbackSet /\ l.callback.arg \in Nat
          BY JobArg DEF TaskInv
        <5>2. Args[l.callback.task] = <<>>
          BY <3>2, <5>1, TasksAssumption
        <5>3. QED
          BY <5>1, <5>2 DEF CallbackSet
      <4>3. QED
        BY <3>2, <4>1, <4>2 DEF JobOK
    <3>3. CASE Kind[l.callback.task] # "create"
      <4>1. /\ l.callback.task \in Tasks /\ l.callback.arg \in DOMAIN Args[l.callback.task]
            /\ l.callback = Callback(l.callback.task, l.callback.arg)
        BY <3>3, JobArg DEF TaskInv
      <4>2. ~(l.callback.task = t /\ l.callback.arg = i)
        BY <1>2, <3>1, <4>1
      <4>3. values'[l.callback.task][l.callback.arg] = values[l.callback.task][l.callback.arg]
        BY <1>8, <4>1, <4>2
      <4>4. QED
        BY <1>12, <4>3, JobKept DEF TaskInv
    <3>4. QED
      BY <3>2, <3>3
  <2>2. JobOK(k)'
    <3>1. Arg(t, i)' = Arg(t, i)
      BY <1>1, <1>2, <1>7, <1>12, ArgKept
    <3>2. k.callback.task = t /\ k.callback.arg = i /\ i # 0
      BY <1>1, <1>2, <1>6, ArgType DEF i
    <3>3. values'[t][i] = j.result.of
      BY <1>1, <1>2, <1>8
    <3>4. QED
      BY <1>1, <1>2, <1>6, <1>7, <3>1, <3>2, <3>3 DEF JobOK
  <2>3. QED
    BY <1>5, <2>1, <2>2 DEF JobsOK
<1>14. AllCounted'
  <2> SUFFICES ASSUME NEW u \in Tasks, Kind[u] \in {"all", "any"} PROVE CountOK(u)'
    BY DEF AllCounted
  <2>1. CountOK(u)
    BY DEF TaskInv, AllCounted
  <2>2. \A n \in DOMAIN Args[u] : Arg(u, n)' = Arg(u, n)
    BY <1>12, ArgType DEF Arg
  <2>3. \A l : l \in jobs' /\ l.stage = "last" <=> l \in jobs /\ l.stage = "last"
    BY <1>1, <1>5, <1>6
  <2>4. Counted(u)' = Counted(u)
    BY <1>3, <2>2, <2>3 DEF Counted, Counts
  <2>5. u = t => i \notin Counted(u)
    BY <1>1, <1>2, NotYetCounted DEF i
  <2>6. \A n \in Counted(u) : n \in DOMAIN Args[u]
    BY DEF Counted
  <2>7. Kind[u] = "all" => \A n \in Counted(u)' : values'[u][n] = Arg(u, n)'.of
    BY <1>8, <2>1, <2>2, <2>4, <2>5, <2>6 DEF CountOK
  <2>8. QED
    BY <1>3, <2>1, <2>3, <2>4, <2>7 DEF CountOK
<1>15. QED
  BY <1>9, <1>10, <1>11, <1>12, <1>13, <1>14 DEF TaskInv
\* The arguments of a task that were counted are finitely many.
LEMMA CountedFinite ==
  ASSUME NEW t \in Tasks, NEW S \in SUBSET DOMAIN Args[t]
  PROVE  /\ IsFiniteSet(S) /\ Cardinality(S) \in Nat /\ Cardinality(S) <= Len(Args[t])
         /\ Cardinality(S) = Len(Args[t]) => S = DOMAIN Args[t]
<1>1. DOMAIN Args[t] = 1 .. Len(Args[t]) /\ Len(Args[t]) \in Nat
  BY ArgType
<1>2. IsFiniteSet(DOMAIN Args[t]) /\ Cardinality(DOMAIN Args[t]) = Len(Args[t])
  BY <1>1, FS_Interval
<1>3. QED
  BY <1>2, FS_Subset, FS_CardinalityType

\* An argument is counted once; the callback that counts the last finds all counted.
LEMMA CountKeeps ==
  ASSUME TaskInv, NEW j \in jobs, NEW t, t = j.callback.task, CountCell(j, t)
  PROVE  TaskInv'
<1> DEFINE i == j.callback.arg
<1> DEFINE k == [j EXCEPT !.stage = "last"]
<1>1. /\ t \in Tasks /\ Kind[t] \in {"all", "any"} /\ j.stage \notin {"last", "passing"}
      /\ Kind[t] = "all" => j.stage = "committed" /\ j.result.ok /\ values[t][i] = j.result.of
      /\ Kind[t] = "any" => ~j.result.ok
  <2>1. JobOK(j) /\ t \in Tasks
    BY JobArg DEF TaskInv, JobsOK
  <2>2. QED
    BY <2>1 DEF CountCell, Starts, JobOK
<1>2. /\ i \in DOMAIN Args[t] /\ Args[t][i] \in Tasks /\ j.callback = Callback(t, i)
      /\ j.result = Arg(t, i) /\ j.result \in ResultsOf(Args[t][i]) /\ j.callback \in ArgCallbacks
  BY <1>1, JobArg DEF TaskInv
<1>3. Quiet /\ values' = values /\ count' = [count EXCEPT ![t] = @ + 1]
  BY DEF CountCell, Quiet
<1>4. \/ CountedAll(t) /\ Becomes(j, "last") /\ finished' = finished
      \/ ~CountedAll(t) /\ jobs' = jobs \ {j} /\ finished' = finished \cup {j.callback}
  BY DEF CountCell, Finish
<1>5. k.callback = j.callback /\ k.result = j.result /\ k.stage = "last"
  BY JobArg DEF TaskInv
<1>6. Becomes(j, "last") => jobs' = (jobs \ {j}) \cup {k}
  BY DEF Becomes
<1> HIDE DEF k, i
<1>p. \A u \in Tasks : Passing(u)' <=> Passing(u)
  BY <1>1, <1>4, <1>5, <1>6 DEF Passing
<1>7. SeenKept /\ Waits' /\ AllBacked' /\ \A u \in Tasks : Seen(u)' = Seen(u)
  BY <1>3, <1>p, QuietKeeps, QuietWaits
<1>8. j.result # NoResult /\ Counts(t, j.result)
  BY <1>1, <1>2, ResultForm DEF Counts
<1>9. ~CountedAll(t) => Moves(t, NoResult, {j}, {})
  <2>1. ASSUME ~CountedAll(t) PROVE Moves(t, NoResult, {j}, {})
    <3>1. /\ jobs' = (jobs \ {j}) \cup {Job(c, NoResult) : c \in {}}
          /\ finished' = finished \cup {l.callback : l \in {j}}
      BY <1>4, <2>1
    <3>2. \A c \in ArgCallbacks : Held(c)' <=> Held(c)
      BY <1>3, QuietKeeps
    <3>3. QED
      BY <1>1, <1>3, <3>1, <3>2 DEF Moves, Quiet
  <2>2. QED
    BY <2>1
<1>10. AllPlaced'
  <2>1. CASE CountedAll(t)
    BY <1>3, <1>4, <2>1, QuietKeeps, StagePlaced DEF Stages, Quiet
  <2>2. CASE ~CountedAll(t)
    BY <1>7, <1>9, <2>2, MovesPlaced
  <2>3. QED
    BY <2>1, <2>2
<1>11. JobsOK'
  <2>1. \A l \in jobs : JobOK(l)'
    BY <1>3, <1>7, JobKept DEF TaskInv
  <2>2. JobOK(k)'
    <3>1. Arg(t, i)' = Arg(t, i)
      BY <1>1, <1>2, <1>7, <1>8, ArgKept
    <3>2. k.callback.task = t /\ k.callback.arg = i /\ i # 0
      BY <1>1, <1>2, <1>5, ArgType DEF i
    <3>3. QED
      BY <1>1, <1>2, <1>3, <1>5, <1>8, <3>1, <3>2 DEF JobOK
  <2>3. QED
    BY <1>4, <1>6, <2>1, <2>2 DEF JobsOK
<1>12. /\ jobs' \subseteq [callback : CallbackSet, result : AnyResult, stage : Stages]
       /\ finished' \subseteq CallbackSet
  <2>1. CASE CountedAll(t)
    BY <1>3, <1>4, <2>1, QuietKeeps, StagePlaced DEF Stages, Quiet, TaskInv, Shape
  <2>2. CASE ~CountedAll(t)
    BY <1>7, <1>9, <2>2, MovesJobs DEF AnyResult
  <2>3. QED
    BY <2>1, <2>2
<1>13. Shape'
  <2>1. Total(count)'
    BY <1>3 DEF TaskInv, Shape, Total
  <2>2. \A u \in Tasks : Kind[u] \notin {"all", "any"} => count'[u] = 0
    BY <1>1, <1>3 DEF TaskInv, Shape, Total
  <2>3. QED
    BY <1>3, <1>12, <2>1, <2>2 DEF TaskInv, Shape, Quiet, Total, New
<1>14. Tracking'
  <2>1. finished' \in SUBSET (finished \cup {j.callback}) /\ finished \subseteq finished'
    BY <1>4
  <2>2. QED
    BY <1>1, <1>3, <1>p, <2>1, QuietTracking
<1>15. ASSUME NEW u \in Tasks, Kind[u] \in {"all", "any"}
       PROVE  Counted(u)' = IF u = t THEN Counted(u) \cup {i} ELSE Counted(u)
  <2>1. \A n \in DOMAIN Args[u] : Arg(u, n)' = Arg(u, n)
    BY <1>7, ArgType DEF Arg
  <2>2. \A n : Callback(u, n) = j.callback <=> u = t /\ n = i
    BY <1>2 DEF Callback
  <2>3. CASE CountedAll(t)
    <3>1. jobs' = (jobs \ {j}) \cup {k} /\ finished' = finished
      BY <1>4, <1>6, <2>3
    <3>2. \A n : (\E l \in jobs' : l.callback = Callback(u, n) /\ l.stage = "last")
                   <=> (\E l \in jobs : l.callback = Callback(u, n) /\ l.stage = "last")
                         \/ (u = t /\ n = i)
      BY <1>1, <1>5, <2>2, <3>1
    <3>3. \A n \in DOMAIN Args[u] : n \in Counted(u)' <=> n \in Counted(u) \/ (u = t /\ n = i)
      BY <2>1, <3>1, <3>2 DEF Counted, Counts
    <3>4. Counted(u)' \subseteq DOMAIN Args[u] /\ Counted(u) \subseteq DOMAIN Args[u]
      BY DEF Counted
    <3>5. QED
      BY <1>2, <3>3, <3>4
  <2>4. CASE ~CountedAll(t)
    <3>1. jobs' = jobs \ {j} /\ finished' = finished \cup {j.callback}
      BY <1>4, <2>4
    <3>2. \A n : (\E l \in jobs' : l.callback = Callback(u, n) /\ l.stage = "last")
                   <=> (\E l \in jobs : l.callback = Callback(u, n) /\ l.stage = "last")
      BY <1>1, <3>1
    <3>3. \A n : Callback(u, n) \in finished' <=> Callback(u, n) \in finished \/ (u = t /\ n = i)
      BY <2>2, <3>1
    <3>4. u = t => Counts(u, Arg(u, i))
      BY <1>2, <1>8
    <3>5. \A n \in DOMAIN Args[u] : n \in Counted(u)' <=> n \in Counted(u) \/ (u = t /\ n = i)
      BY <2>1, <3>2, <3>3, <3>4 DEF Counted, Counts
    <3>6. Counted(u)' \subseteq DOMAIN Args[u] /\ Counted(u) \subseteq DOMAIN Args[u]
      BY DEF Counted
    <3>7. QED
      BY <1>2, <3>5, <3>6
  <2>5. QED
    BY <2>3, <2>4
<1>16. AllCounted'
  <2> SUFFICES ASSUME NEW u \in Tasks, Kind[u] \in {"all", "any"} PROVE CountOK(u)'
    BY DEF AllCounted
  <2>1. CountOK(u)
    BY DEF TaskInv, AllCounted
  <2>2. \A n \in DOMAIN Args[u] : Arg(u, n)' = Arg(u, n)
    BY <1>7, ArgType DEF Arg
  <2>3. Counted(u) \in SUBSET DOMAIN Args[u]
    BY DEF Counted
  <2>4. CASE u # t
    <3>1. Counted(u)' = Counted(u) /\ count'[u] = count[u]
      BY <1>3, <1>15, <2>4 DEF TaskInv, Shape, Total
    <3>2. \A l \in jobs' : l.callback.task = u => l \in jobs
      BY <1>4, <1>5, <1>6, <2>4
    <3>3. Kind[u] = "all" => \A n \in Counted(u)' : values'[u][n] = Arg(u, n)'.of
      BY <1>3, <2>1, <2>2, <2>3, <3>1 DEF CountOK
    <3>4. QED
      BY <2>1, <3>1, <3>2, <3>3 DEF CountOK
  <2>5. CASE u = t
    <3>1. Counted(u)' = Counted(u) \cup {i} /\ i \notin Counted(u) /\ i \in DOMAIN Args[u]
      BY <1>1, <1>2, <1>15, <2>5, NotYetCounted DEF i
    <3>2. count'[u] = count[u] + 1
      BY <1>1, <1>3, <2>5 DEF TaskInv, Shape, Total
    <3>3. IsFiniteSet(Counted(u)) /\ Cardinality(Counted(u)) \in Nat
      BY <2>3, CountedFinite
    <3>4. Cardinality(Counted(u) \cup {i}) = Cardinality(Counted(u)) + 1
      BY <3>1, <3>3, FS_AddElement
    <3>5. count'[u] = Cardinality(Counted(u)')
      BY <2>1, <3>1, <3>2, <3>4 DEF CountOK
    <3>6. Kind[u] = "all" => \A n \in Counted(u)' : values'[u][n] = Arg(u, n)'.of
      <4>1. Kind[u] = "all" => values[u][i] = Arg(u, i).of
        BY <1>1, <1>2, <2>5
      <4>2. QED
        BY <1>3, <2>1, <2>2, <2>3, <3>1, <4>1 DEF CountOK
    <3>7. ASSUME NEW l \in jobs', l.callback.task = u, l.stage = "last"
          PROVE  Counted(u)' = DOMAIN Args[u]
      <4>1. CASE l \in jobs
        <5>1. Counted(u) = DOMAIN Args[u]
          BY <2>1, <3>7, <4>1 DEF CountOK
        <5>2. QED
          BY <3>1, <5>1
      <4>2. CASE l \notin jobs
        <5>1. CountedAll(t)
          BY <1>4, <3>7, <4>2
        <5>2. count[u] + 1 >= Len(Args[u])
          BY <2>5, <5>1 DEF CountedAll
        <5>3. Cardinality(Counted(u) \cup {i}) >= Len(Args[u])
          BY <2>1, <3>4, <5>2 DEF CountOK
        <5>4. Counted(u) \cup {i} \in SUBSET DOMAIN Args[u] /\ Len(Args[u]) \in Nat
          BY <2>3, <3>1, ArgType
        <5>5. Cardinality(Counted(u) \cup {i}) = Len(Args[u])
          BY <5>3, <5>4, CountedFinite
        <5>6. Counted(u) \cup {i} = DOMAIN Args[u]
          BY <5>4, <5>5, CountedFinite
        <5>7. QED
          BY <3>1, <5>6
      <4>3. QED
        BY <4>1, <4>2
    <3>8. QED
      BY <3>5, <3>6, <3>7 DEF CountOK
  <2>6. QED
    BY <2>4, <2>5
<1>17. QED
  BY <1>7, <1>10, <1>11, <1>13, <1>14, <1>16 DEF TaskInv
-----------------------------------------------------------------------------
(* The steps that create tasks keep the invariant.                         *)

\* The tasks that are created are the first of Program.
LEMMA CreatedPos ==
  ASSUME NEW n \in 0 .. Len(Program), NEW t \in Tasks
  PROVE  /\ (\E i \in 1 .. n : Program[i] = t) <=> Pos(t) <= n
         /\ n < Len(Program) => Program[n + 1] \in Tasks /\ (Program[n + 1] = t <=> Pos(t) = n + 1)
         /\ Pos(t) \in 1 .. Len(Program)
<1>1. Len(Program) \in Nat /\ Pos(t) \in 1 .. Len(Program) /\ Program[Pos(t)] = t
  BY PosOfTask
<1>2. \A i \in 1 .. Len(Program) : Program[i] \in Tasks /\ Pos(Program[i]) = i
  BY PosOfTask
<1>3. (\E i \in 1 .. n : Program[i] = t) <=> Pos(t) <= n
  BY <1>1, <1>2
<1>4. ASSUME n < Len(Program)
      PROVE  Program[n + 1] \in Tasks /\ (Program[n + 1] = t <=> Pos(t) = n + 1)
  <2>1. n + 1 \in 1 .. Len(Program)
    BY <1>1, <1>4
  <2>2. QED
    BY <1>1, <1>2, <2>1
<1>5. QED
  BY <1>1, <1>3, <1>4

\* A task is created when all of its callbacks are given to await().
LEMMA CreateKeeps ==
  ASSUME TaskInv, CreateFromFunction \/ CreateFromCells
  PROVE  TaskInv'
<1>k. PICK k : k = Job(Callback(New, 0), NoResult)
  OBVIOUS
<1>n. PICK n : n = New
  OBVIOUS
<1>0. Created /\ (jobs' = jobs \/ (Kind[n] = "create" /\ jobs' = jobs \cup {k}))
  BY <1>k, <1>n DEF CreateFromFunction, CreateFromCells, Callback
<1>1. /\ created \in 0 .. Len(Program) /\ Len(Program) \in Nat /\ created < Len(Program)
      /\ awaited = Len(Args[New]) /\ created' = created + 1 /\ awaited' = 0
      /\ created + 1 \in 0 .. Len(Program)
  BY <1>0, PosOfTask DEF Created, TaskInv, Shape
<1>2. New \in Tasks /\ \A t \in Tasks : New = t <=> Pos(t) = created + 1
  <2>1. created + 1 \in 1 .. Len(Program)
    BY <1>1
  <2>2. New \in Tasks /\ Pos(New) = created + 1 /\ New = Program[created + 1]
    BY <2>1, PosOfTask DEF New
  <2>3. QED
    BY <2>1, <2>2, PosOfTask
<1>3. /\ k.callback.task = n /\ k.callback.arg = 0
      /\ k.result = NoResult /\ k.stage = "start"
  BY <1>k, <1>n DEF Job, Callback
<1>5. k \in [callback : CallbackSet, result : AnyResult, stage : Stages]
  BY <1>k, <1>2, ArgType DEF Job, Callback, CallbackSet, AnyResult, Stages
<1>6. Builds /\ UNCHANGED <<callbacks, pushing, lost>>
  BY <1>0, <1>3 DEF Builds, Created
<1>7. /\ CellOf' = CellOf /\ Tracking' /\ AllBacked' /\ AllCounted'
      /\ \A j \in jobs : JobOK(j)'
      /\ SeenKept /\ \A u : Passing(u)' <=> Passing(u)
  BY <1>6, BuildsKeep
<1>8. JobsOK'
  <2>1. Kind[n] = "create" => JobOK(k)'
    BY <1>3 DEF JobOK
  <2>2. QED
    BY <1>0, <1>7, <2>1 DEF JobsOK
<1>9. Shape'
  <2>1. created' \in 0 .. Len(Program) /\ awaited' \in Nat
    BY <1>1
  <2>2. created' < Len(Program) => awaited' <= Len(Args[Program[created' + 1]])
    <3>1. created' < Len(Program) => Program[created' + 1] \in Tasks
      BY <1>1, <1>2, CreatedPos
    <3>2. QED
      BY <1>1, <3>1, ArgType
  <2>3. jobs' \subseteq [callback : CallbackSet, result : AnyResult, stage : Stages]
    BY <1>0, <1>5 DEF TaskInv, Shape
  <2>4. QED
    BY <1>6, <2>1, <2>2, <2>3 DEF TaskInv, Shape, Builds, Total, New
<1>10. Waits'
  <2>1. ASSUME NEW u \in Tasks, NEW c \in callbacks'[u] PROVE WaitsIn(u, c)'
    <3>1. WaitsIn(u, c)
      BY <1>6, <2>1 DEF TaskInv, Waits
    <3>2. QED
      BY <1>6, <1>7, <3>1 DEF WaitsIn, CallbackSet, InPush, Builds
  <2>2. ASSUME NEW q \in pushing' PROVE PushOK(q)'
    <3>1. PushOK(q)
      BY <1>6, <2>2 DEF TaskInv, Waits
    <3>2. QED
      BY <1>6, <1>7, <3>1 DEF PushOK, Builds
  <2>3. QED
    BY <2>1, <2>2 DEF Waits
<1>11. ASSUME NEW c \in ArgCallbacks PROVE Placed(c)'
  <2>1. /\ Placed(c) /\ c.task \in Tasks /\ c.arg \in DOMAIN Args[c.task]
        /\ DOMAIN Args[c.task] = 1 .. Len(Args[c.task]) /\ Len(Args[c.task]) \in Nat
    BY ArgType DEF TaskInv, AllPlaced, ArgCallbacks, CallbackSet
  <2>2. IsAwaited(c.task, c.arg)' <=> IsAwaited(c.task, c.arg)
    <3>1. IsAwaited(c.task, c.arg) <=>
            Pos(c.task) <= created \/ (Pos(c.task) = created + 1 /\ c.arg <= awaited)
      BY <1>1, <1>2, <2>1, CreatedPos DEF IsAwaited, IsCreated
    <3>2. Pos(c.task) = created + 1 => c.arg <= awaited
      BY <1>1, <1>2, <2>1
    <3>3. IsAwaited(c.task, c.arg)' <=> Pos(c.task) <= created + 1
      <4>1. (\E i \in 1 .. created' : Program[i] = c.task) <=> Pos(c.task) <= created + 1
        BY <1>1, <2>1, CreatedPos
      <4>2. ~(c.arg <= awaited')
        BY <1>1, <2>1
      <4>3. QED
        BY <4>1, <4>2 DEF IsAwaited, IsCreated
    <3>4. Pos(c.task) \in Nat
      BY <2>1, PosOfTask
    <3>5. QED
      BY <1>1, <3>1, <3>2, <3>3, <3>4
  <2>3. k.callback # c
    BY <1>3, <2>1
  <2>4. InJob(c)' <=> InJob(c)
    BY <1>0, <2>3 DEF InJob
  <2>5. \A j, l \in jobs' : j.callback = c /\ l.callback = c => j = l
    BY <1>0, <2>1, <2>3 DEF Placed
  <2>6. (Held(c)' <=> Held(c)) /\ finished' = finished
    BY <1>6 DEF Held, InCell, InPush, Builds
  <2>7. c \in finished => Arg(c.task, c.arg)' # NoResult
    BY <1>7, <2>1, ArgKept DEF Placed
  <2>8. QED
    BY <2>1, <2>2, <2>4, <2>5, <2>6, <2>7 DEF Placed
<1>12. AllPlaced'
  BY <1>11 DEF AllPlaced, ArgCallbacks, CallbackSet
<1>13. QED
  BY <1>7, <1>8, <1>9, <1>10, <1>12 DEF TaskInv
\* The callback that a new task gives to await() was nowhere before.
LEMMA AwaitKeeps ==
  ASSUME TaskInv, AwaitArg
  PROVE  TaskInv'
<1>1. /\ created \in 0 .. Len(Program) /\ Len(Program) \in Nat /\ created < Len(Program)
      /\ awaited \in Nat /\ awaited < Len(Args[New]) /\ created' = created
      /\ awaited' = awaited + 1
  BY PosOfTask DEF AwaitArg, TaskInv, Shape
<1>2. New \in Tasks /\ \A t \in Tasks : New = t <=> Pos(t) = created + 1
  <2>1. created + 1 \in 1 .. Len(Program)
    BY <1>1
  <2>2. New \in Tasks /\ Pos(New) = created + 1 /\ New = Program[created + 1]
    BY <2>1, PosOfTask DEF New
  <2>3. QED
    BY <2>1, <2>2, PosOfTask
<1>3. PICK n \in Tasks, i \in Nat : n = New /\ i = awaited + 1
  BY <1>1, <1>2
<1>4. i \in DOMAIN Args[n] /\ Args[n][i] \in Tasks /\ i <= Len(Args[n]) /\ i >= 1
  BY <1>1, <1>3, ArgType
<1>5. PICK cell : cell = CellOf[Args[n][i]] /\ cell \in Tasks
  <2>1. Tracks(tracked)
    BY DEF TaskInv, Tracking, Tracks
  <2>2. QED
    BY <1>4, <2>1, RootIsEarlier
<1>6. PICK r \in AnyResult : r = result[cell]
  BY <1>5 DEF TaskInv, Shape, AnyResult
<1>7. PICK c0 : c0 = Callback(n, i)
  OBVIOUS
<1>8. c0.task = n /\ c0.arg = i /\ c0 \in ArgCallbacks
  BY <1>4, <1>7 DEF Callback, ArgCallbacks, CallbackSet
<1>9. Await(Args[n][i], c0, NoTask) /\ UNCHANGED <<callbacks, lost>>
  BY <1>1, <1>3, <1>7 DEF AwaitArg, Callback
<1>p. PICK p : p = [callback |-> c0, cell |-> cell, by |-> NoTask]
  OBVIOUS
<1>q. /\ p \in [callback : CallbackSet, cell : Tasks, by : Tasks \cup {NoTask}]
      /\ p.callback = c0 /\ p.cell = cell
  BY <1>5, <1>8, <1>p DEF ArgCallbacks
<1>10. \/ r = NoResult /\ pushing' = pushing \cup {p} /\ jobs' = jobs
       \/ r # NoResult /\ pushing' = pushing /\ jobs' = jobs \cup {Job(c0, r)}
  BY <1>5, <1>6, <1>9, <1>p DEF Await
<1>11. Builds
  BY <1>10 DEF Builds, AwaitArg, Job
<1>12. /\ SeenKept /\ CellOf' = CellOf /\ \A u \in Tasks : Seen(u)' = Seen(u)
       /\ Tracking' /\ AllBacked' /\ AllCounted' /\ \A j \in jobs : JobOK(j)'
       /\ \A u : Passing(u)' <=> Passing(u)
  BY <1>11, BuildsKeep
<1>13. \A c : InPush(c)' <=> InPush(c) \/ (c = c0 /\ r = NoResult)
  BY <1>10, <1>q DEF InPush
<1>h. Placed(c0) /\ ~Held(c0) /\ ~InJob(c0) /\ c0 \notin finished
  <2>1. Placed(c0) /\ Pos(n) = created + 1 /\ Pos(n) \in Nat
    BY <1>1, <1>2, <1>3, <1>8 DEF TaskInv, AllPlaced
  <2>2. ~IsAwaited(n, i)
    BY <1>1, <1>3, <2>1, CreatedPos DEF IsAwaited, IsCreated
  <2>3. QED
    BY <1>8, <2>1, <2>2 DEF Placed
<1>14. Arg(n, i)' = r
  BY <1>4, <1>5, <1>6, <1>12 DEF Arg, Seen
<1>15. JobsOK'
  <2>1. r # NoResult => JobOK(Job(c0, r))'
    BY <1>8, <1>14, NewJobOK
  <2>2. \A j \in jobs' : j \in jobs \/ (r # NoResult /\ j = Job(c0, r))
    BY <1>10
  <2>3. ASSUME NEW j \in jobs' PROVE JobOK(j)'
    BY <1>12, <2>1, <2>2
  <2>4. QED
    BY <2>3 DEF JobsOK
<1>16. Shape'
  <2>1. pushing' \subseteq [callback : CallbackSet, cell : Tasks, by : Tasks \cup {NoTask}]
    BY <1>10, <1>q DEF TaskInv, Shape
  <2>2. jobs' \subseteq [callback : CallbackSet, result : AnyResult, stage : Stages]
    <3>1. Job(c0, r) \in [callback : CallbackSet, result : AnyResult, stage : Stages]
      BY <1>8 DEF Job, Stages, ArgCallbacks
    <3>2. QED
      BY <1>10, <3>1 DEF TaskInv, Shape
  <2>3. awaited' \in Nat /\ created' \in 0 .. Len(Program) /\ awaited' <= Len(Args[Program[created' + 1]])
    BY <1>1, <1>3, <1>4 DEF New
  <2>4. QED
    BY <1>9, <1>11, <2>1, <2>2, <2>3 DEF TaskInv, Shape, Builds, Total, New
<1>17. Waits'
  <2>1. ASSUME NEW u \in Tasks, NEW c \in callbacks'[u] PROVE WaitsIn(u, c)'
    <3>1. WaitsIn(u, c) /\ Held(c)
      BY <1>9, <2>1, WaitingIsArg DEF TaskInv, Waits
    <3>2. QED
      BY <1>9, <1>11, <1>12, <1>13, <1>h, <3>1 DEF WaitsIn, CallbackSet, Builds
  <2>2. ASSUME NEW q \in pushing' PROVE PushOK(q)'
    <3>1. CASE q \in pushing
      <4>1. PushOK(q) /\ q.callback # c0
        BY <1>h, <3>1 DEF TaskInv, Waits, Held, InPush
      <4>2. QED
        BY <1>9, <1>10, <1>11, <1>12, <1>q, <4>1 DEF PushOK, Builds
    <3>2. CASE q = p /\ r = NoResult
      BY <1>4, <1>5, <1>6, <1>8, <1>9, <1>10, <1>11, <1>12, <1>h, <1>q, <3>2
         DEF PushOK, Builds, Held, InPush
    <3>3. QED
      BY <1>10, <2>2, <3>1, <3>2
  <2>3. QED
    BY <2>1, <2>2 DEF Waits
<1>18. ASSUME NEW c \in ArgCallbacks PROVE Placed(c)'
  <2>1. Placed(c) /\ c.task \in Tasks /\ c.arg \in DOMAIN Args[c.task] /\ c.arg \in Nat
        /\ c = Callback(c.task, c.arg)
    BY DEF TaskInv, AllPlaced, ArgCallbacks, CallbackSet, Callback
  <2>2. IsAwaited(c.task, c.arg) <=>
          Pos(c.task) <= created \/ (Pos(c.task) = created + 1 /\ c.arg <= awaited)
    BY <1>1, <1>2, <2>1, CreatedPos DEF IsAwaited, IsCreated
  <2>3. IsAwaited(c.task, c.arg)' <=>
          Pos(c.task) <= created \/ (Pos(c.task) = created + 1 /\ c.arg <= awaited + 1)
    <3>1. New' = New
      BY <1>1 DEF New
    <3>2. IsCreated(c.task)' <=> Pos(c.task) <= created
      BY <1>1, <2>1, CreatedPos DEF IsCreated
    <3>3. QED
      BY <1>1, <1>2, <2>1, <3>1, <3>2 DEF IsAwaited
  <2>4. Pos(c.task) \in Nat
    BY <2>1, PosOfTask
  <2>5. finished' = finished /\ (c \in finished => Arg(c.task, c.arg)' # NoResult)
    BY <1>11, <1>12, <2>1, ArgKept DEF Placed, Builds
  <2>6. CASE c = c0
    <3>1. IsAwaited(c.task, c.arg)'
      BY <1>1, <1>2, <1>3, <1>8, <2>3, <2>4, <2>6
    <3>2. ~Held(c) /\ ~InJob(c) /\ c \notin finished
      BY <1>h, <2>6
    <3>3. Held(c)' <=> r = NoResult
      BY <1>9, <1>13, <2>6, <3>2 DEF Held, InCell
    <3>4. Job(c0, r).callback = c
      BY <2>6 DEF Job
    <3>5. InJob(c)' <=> r # NoResult
      BY <1>10, <3>2, <3>4 DEF InJob
    <3>6. \A j, l \in jobs' : j.callback = c /\ l.callback = c => j = l
      BY <1>10, <3>2 DEF InJob
    <3>7. QED
      BY <2>5, <3>1, <3>2, <3>3, <3>5, <3>6 DEF Placed
  <2>7. CASE c # c0
    <3>1. ~(c.task = n /\ c.arg = i)
      BY <1>7, <2>1, <2>7
    <3>2. IsAwaited(c.task, c.arg)' <=> IsAwaited(c.task, c.arg)
      BY <1>1, <1>2, <1>3, <2>1, <2>2, <2>3, <2>4, <3>1
    <3>3. Held(c)' <=> Held(c)
      BY <1>9, <1>13, <2>7 DEF Held, InCell
    <3>4. Job(c0, r).callback # c
      BY <2>7 DEF Job
    <3>5. InJob(c)' <=> InJob(c)
      BY <1>10, <3>4 DEF InJob
    <3>6. \A j, l \in jobs' : j.callback = c /\ l.callback = c => j = l
      BY <1>10, <2>1, <3>4 DEF Placed
    <3>7. QED
      BY <2>1, <2>5, <3>2, <3>3, <3>5, <3>6 DEF Placed
  <2>8. QED
    BY <2>6, <2>7
<1>19. AllPlaced'
  BY <1>18 DEF AllPlaced, ArgCallbacks, CallbackSet
<1>20. QED
  BY <1>12, <1>15, <1>16, <1>17, <1>19 DEF TaskInv
-----------------------------------------------------------------------------
(* The invariant holds, and results stay.                                  *)

\* At first no task is created, and no callback is anywhere.
LEMMA InitInv == Init => TaskInv
<1> SUFFICES ASSUME Init PROVE TaskInv
  OBVIOUS
<1>1. /\ created = 0 /\ awaited = 0 /\ jobs = {} /\ finished = {}
      /\ pushing = {} /\ lost = {}
      /\ \A t \in Tasks : /\ result[t] = NoResult /\ tracked[t] = NoTask
                          /\ callbacks[t] = {} /\ count[t] = 0
                          /\ values[t] = [i \in DOMAIN Args[t] |-> NoResult]
  BY DEF Init
<1>2. Tracks(tracked)
  BY <1>1 DEF Tracks
<1>3. Shape
  <2>1. Total(result) /\ Total(tracked) /\ Total(callbacks) /\ Total(values) /\ Total(count)
    BY DEF Init, Total
  <2>2. \A t \in Tasks : values[t] = [i \in DOMAIN Args[t] |-> values[t][i]]
    BY <1>1
  <2>3. \A t \in Tasks : \A i \in DOMAIN Args[t] : values[t][i] \in Type[Args[t][i]] \cup {NoResult}
    BY <1>1
  <2>4. created \in 0 .. Len(Program) /\ awaited \in Nat
    BY <1>1, PosOfTask
  <2>5. created < Len(Program) => awaited <= Len(Args[New])
    <3>1. created < Len(Program) => New \in Tasks
      BY <1>1, PosOfTask DEF New
    <3>2. QED
      BY <1>1, <3>1, ArgType
  <2>6. QED
    BY <1>1, <2>1, <2>2, <2>3, <2>4, <2>5 DEF Shape
<1>4. Tracking
  <2>1. ASSUME NEW t \in Tasks PROVE TrackOK(t)
    <3>1. /\ tracked[t] = NoTask /\ result[t] = NoResult /\ Callback(t, 1) \notin finished
          /\ ~Passing(t)
      BY <1>1 DEF Passing
    <3>2. t # NoTask
      BY TasksAssumption
    <3>3. QED
      BY <3>1, <3>2 DEF TrackOK
  <2>2. QED
    BY <1>1, <2>1 DEF Tracking
<1>5. Waits /\ JobsOK /\ AllBacked
  BY <1>1 DEF Waits, JobsOK, AllBacked
<1>6. AllPlaced
  <2>1. ASSUME NEW c \in ArgCallbacks PROVE Placed(c)
    <3>1. c.task \in Tasks /\ c.arg \in Nat /\ c.arg # 0
      BY ArgType DEF ArgCallbacks, CallbackSet
    <3>2. ~IsAwaited(c.task, c.arg)
      BY <1>1, <3>1 DEF IsAwaited, IsCreated
    <3>3. ~Held(c) /\ ~InJob(c) /\ c \notin finished
      BY <1>1 DEF Held, InPush, InCell, InJob
    <3>4. QED
      BY <1>1, <3>2, <3>3 DEF Placed
  <2>2. QED
    BY <2>1 DEF AllPlaced
<1>7. AllCounted
  <2>1. \A t \in Tasks : Counted(t) = {}
    BY <1>1 DEF Counted
  <2>2. QED
    BY <1>1, <2>1, FS_EmptySet DEF AllCounted, CountOK
<1>8. QED
  BY <1>3, <1>4, <1>5, <1>6, <1>7 DEF TaskInv

\* A step that changes nothing keeps the invariant.
LEMMA UnchangedKeeps ==
  ASSUME TaskInv, UNCHANGED vars
  PROVE  TaskInv' /\ SeenKept
<1>1. Quiet /\ UNCHANGED <<jobs, finished, values, count>>
  BY DEF vars, Quiet
<1>2. Waits' /\ \A c : Held(c)' <=> Held(c)
  BY <1>1, QuietKeeps, QuietWaits DEF Passing
<1>3. Total(callbacks)'
  BY <1>1 DEF TaskInv, Shape, Total, Quiet
<1>4. QED
  BY <1>1, <1>2, <1>3, ShiftKeeps DEF TaskInv, Shape, Quiet

\* Every step of a job keeps it, and the results that are seen.
LEMMA RunKeeps ==
  ASSUME TaskInv, NEW j \in jobs, NEW t, t = j.callback.task, Run(j, t)
  PROVE  TaskInv' /\ SeenKept
<1>1. CASE RunFunction(j, t) \/ Map(j, t) \/ TrackError(j, t) \/ ResolveLast(j, t) \/ ResolveFirst(j, t)
  <2>1. PICK r : Settle(t, r, {j})
    BY <1>1, FunctionSettles, MapSettles, TrackErrorSettles, LastSettles, FirstSettles
  <2>2. QED
    BY <2>1, SettleKeeps, SettleCells DEF TaskInv
<1>2. CASE TrackBegin(j, t) \/ TrackPass(j, t) \/ TrackEnd(j, t)
  BY <1>2, TrackBeginKeeps, TrackPassKeeps, TrackEndKeeps
<1>3. CASE Commit(j, t)
  <2>1. Quiet
    BY <1>3 DEF Commit, Quiet
  <2>2. QED
    BY <1>3, <2>1, CommitKeeps, QuietKeeps
<1>4. CASE CountCell(j, t)
  <2>1. Quiet
    BY <1>4 DEF CountCell, Quiet
  <2>2. QED
    BY <1>4, <2>1, CountKeeps, QuietKeeps
<1>5. QED
  BY <1>1, <1>2, <1>3, <1>4 DEF Run

\* So does every step.
LEMMA StepInv == TaskInv /\ [Next]_vars => TaskInv' /\ SeenKept
<1> SUFFICES ASSUME TaskInv, [Next]_vars PROVE TaskInv' /\ SeenKept
  OBVIOUS
<1>1. CASE AwaitArg \/ CreateFromFunction \/ CreateFromCells
  <2>1. TaskInv'
    BY <1>1, AwaitKeeps, CreateKeeps
  <2>2. result' = result /\ tracked' = tracked
    BY <1>1 DEF AwaitArg, CreateFromFunction, CreateFromCells, Created
  <2>3. SeenKept
    BY <2>2, SameSeen DEF SeenKept, TaskInv
  <2>4. QED
    BY <2>1, <2>3
<1>p. CASE \E p \in pushing : Push(p)
  BY <1>p, PushEndKeeps, PushLostKeeps DEF Push
<1>2. CASE \E j \in jobs : Run(j, j.callback.task)
  <2>1. PICK j \in jobs : Run(j, j.callback.task)
    BY <1>2
  <2>2. PICK t : t = j.callback.task
    OBVIOUS
  <2>3. QED
    BY <2>1, <2>2, RunKeeps
<1>3. CASE \E t \in Tasks : \E r \in ResultsOf(t) : Resolve(t, r)
  <2>1. PICK t \in Tasks : \E r \in ResultsOf(t) : Resolve(t, r)
    BY <1>3
  <2>2. PICK r \in ResultsOf(t) : Resolve(t, r)
    BY <2>1
  <2>3. Settle(t, r, {})
    BY <2>2, SourceSettles
  <2>4. QED
    BY <2>3, SettleKeeps, SettleCells DEF TaskInv
<1>4. CASE AtRest \/ UNCHANGED vars
  <2>1. UNCHANGED vars
    BY <1>4 DEF AtRest
  <2>2. QED
    BY <2>1, UnchangedKeeps
<1>5. QED
  BY <1>1, <1>p, <1>2, <1>3, <1>4 DEF Next, Build, RunSome

\* The invariant holds in every reachable state.
LEMMA Invariance == Safety => []TaskInv
<1>1. TaskInv /\ [Next]_vars => TaskInv'
  BY StepInv
<1>2. QED
  BY <1>1, InitInv, PTL DEF Safety

\* For any graph of tasks whose types fit, the results have the types of the tasks
\* also behind tracking cells, and a WhenAllCell counts no more cells than it has.
THEOREM TypeCorrect == Safety => []TypeOK
<1>1. TaskInv => TypeOK
  <2> SUFFICES ASSUME TaskInv PROVE TypeOK
    OBVIOUS
  <2>1. ASSUME NEW t \in Tasks
        PROVE  /\ callbacks[t] \subseteq CallbackSet /\ tracked[t] \in Earlier(t) \cup {NoTask, t}
               /\ count[t] \in 0 .. Len(Args[t])
    <3>1. callbacks[t] \subseteq CallbackSet /\ tracked[t] \in Earlier(t) \cup {NoTask, t}
      BY DEF TaskInv, Waits, WaitsIn, Tracking
    <3>2. Len(Args[t]) \in Nat
      BY ArgType
    <3>3. CASE Kind[t] \in {"all", "any"}
      <4>1. Counted(t) \in SUBSET DOMAIN Args[t]
        BY DEF Counted
      <4>2. count[t] = Cardinality(Counted(t))
        BY <3>3 DEF TaskInv, AllCounted, CountOK
      <4>3. QED
        BY <3>1, <3>2, <4>1, <4>2, CountedFinite
    <3>4. CASE Kind[t] \notin {"all", "any"}
      BY <3>1, <3>2, <3>4 DEF TaskInv, Shape
    <3>5. QED
      BY <3>3, <3>4
  <2>2. \A j \in jobs : j.callback \in CallbackSet /\ j.stage \in {"start", "passing", "committed", "last"}
    BY DEF TaskInv, Shape, Stages
  <2>3. \A p \in pushing : p.callback \in CallbackSet /\ p.cell \in Tasks /\ p.by \in Tasks \cup {NoTask}
    BY DEF TaskInv, Shape
  <2>4. QED
    BY <2>1, <2>2, <2>3 DEF TypeOK, TaskInv, Shape
<1>2. QED
  BY <1>1, Invariance, PTL

\* A callback that the scheduler has not seen is in one cell that will still do
\* something with it, with one await(), or lost.
LEMMA HeldOnce ==
  ASSUME TaskInv, NEW c \in ArgCallbacks
  PROVE  /\ Cardinality({u \in Open : c \in callbacks[u]}) = IF InCell(c) THEN 1 ELSE 0
         /\ Cardinality({p \in pushing : p.callback = c}) = IF InPush(c) THEN 1 ELSE 0
         /\ ~(InCell(c) /\ InPush(c)) /\ ~(InCell(c) /\ c \in lost) /\ ~(InPush(c) /\ c \in lost)
<1>1. ASSUME InCell(c)
      PROVE  /\ Cardinality({u \in Open : c \in callbacks[u]}) = 1
             /\ ~InPush(c) /\ c \notin lost
  <2>1. PICK u \in Tasks : c \in callbacks[u] /\ WaitsIn(u, c)
    BY <1>1 DEF InCell, TaskInv, Waits
  <2>2. {v \in Open : c \in callbacks[v]} = {u}
    BY <2>1 DEF Open, WaitsIn
  <2>3. QED
    BY <2>1, <2>2, FS_Singleton DEF WaitsIn
<1>2. ASSUME InPush(c)
      PROVE  Cardinality({p \in pushing : p.callback = c}) = 1 /\ c \notin lost
  <2>1. PICK p \in pushing : p.callback = c /\ PushOK(p)
    BY <1>2 DEF InPush, TaskInv, Waits
  <2>2. {q \in pushing : q.callback = c} = {p}
    BY <2>1 DEF PushOK
  <2>3. QED
    BY <2>1, <2>2, FS_Singleton DEF PushOK
<1>3. ~InCell(c) => Cardinality({v \in Open : c \in callbacks[v]}) = 0
  <2>1. ~InCell(c) => {v \in Open : c \in callbacks[v]} = {}
    BY DEF InCell, Open
  <2>2. QED
    BY <2>1, FS_EmptySet
<1>4. ~InPush(c) => Cardinality({p \in pushing : p.callback = c}) = 0
  <2>1. ~InPush(c) => {p \in pushing : p.callback = c} = {}
    BY DEF InPush
  <2>2. QED
    BY <2>1, FS_EmptySet
<1>5. QED
  BY <1>1, <1>2, <1>3, <1>4

\* A callback is in one job at most.
LEMMA QueuedOnce ==
  ASSUME TaskInv, NEW c \in ArgCallbacks
  PROVE  Cardinality({j \in jobs : j.callback = c}) = IF InJob(c) THEN 1 ELSE 0
<1>1. CASE InJob(c)
  <2>1. PICK j \in jobs : j.callback = c
    BY <1>1 DEF InJob
  <2>2. {k \in jobs : k.callback = c} = {j}
    BY <2>1 DEF TaskInv, AllPlaced, Placed
  <2>3. QED
    BY <1>1, <2>2, FS_Singleton
<1>2. CASE ~InJob(c)
  <2>1. {k \in jobs : k.callback = c} = {}
    BY <1>2 DEF InJob
  <2>2. QED
    BY <1>2, <2>1, FS_EmptySet
<1>3. QED
  BY <1>1, <1>2

\* For any graph of tasks, and however calls of await() and track() overlap, a
\* callback that was given to await() is in one place: no tracking cell leaves one
\* behind or passes it on twice, no job is made of it twice.  It may be lost, but
\* only as the next two theorems say.
THEOREM CallbacksConservedHolds == Safety => []CallbacksConserved
<1>1. TaskInv => CallbacksConserved
  <2> SUFFICES ASSUME TaskInv, NEW t \in Tasks, NEW i \in DOMAIN Args[t]
               PROVE  LET c == Callback(t, i)
                      IN  Cardinality({u \in Open : c \in callbacks[u]})
                            + Cardinality({p \in pushing : p.callback = c})
                            + Cardinality({j \in jobs : j.callback = c})
                            + (IF c \in finished THEN 1 ELSE 0)
                            + (IF c \in lost THEN 1 ELSE 0)
                          = IF IsAwaited(t, i) THEN 1 ELSE 0
    BY DEF CallbacksConserved
  <2>1. PICK c : c = Callback(t, i)
    OBVIOUS
  <2>2. c \in ArgCallbacks /\ c.task = t /\ c.arg = i
    BY <2>1, ArgType DEF Callback, ArgCallbacks, CallbackSet
  <2>3. Placed(c)
    BY <2>2 DEF TaskInv, AllPlaced
  <2> DEFINE inCells == Cardinality({u \in Open : c \in callbacks[u]})
             inPushes == Cardinality({p \in pushing : p.callback = c})
             inJobs == Cardinality({j \in jobs : j.callback = c})
  <2>4. /\ inCells = IF InCell(c) THEN 1 ELSE 0
        /\ inPushes = IF InPush(c) THEN 1 ELSE 0
        /\ inJobs = IF InJob(c) THEN 1 ELSE 0
    BY <2>2, HeldOnce, QueuedOnce
  <2>5. ~(InCell(c) /\ InPush(c)) /\ ~(InCell(c) /\ c \in lost) /\ ~(InPush(c) /\ c \in lost)
    BY <2>2, HeldOnce
  <2>6. /\ IsAwaited(t, i) <=> Held(c) \/ InJob(c) \/ c \in finished
        /\ ~(Held(c) /\ InJob(c)) /\ ~(Held(c) /\ c \in finished) /\ ~(InJob(c) /\ c \in finished)
    BY <2>2, <2>3 DEF Placed
  <2> HIDE DEF inCells, inPushes, inJobs
  <2>7. inCells + inPushes + inJobs + (IF c \in finished THEN 1 ELSE 0)
          + (IF c \in lost THEN 1 ELSE 0) = IF IsAwaited(t, i) THEN 1 ELSE 0
    BY <2>4, <2>5, <2>6 DEF Held
  <2>8. QED
    BY <2>1, <2>7 DEF inCells, inPushes, inJobs
<1>2. QED
  BY <1>1, Invariance, PTL

\* Calls of await() append to the vector of a cell one after the other.
SerialAwaits == \A p, q \in pushing : p.cell = q.cell => p = q

\* For any graph of tasks, no callback is lost as long as no two calls of await()
\* append to the vector of the same cell at the same time.
THEOREM NothingLostSerially == Safety /\ []SerialAwaits => [](lost = {})
<1>1. Init => lost = {}
  BY DEF Init
<1>2. lost = {} /\ SerialAwaits /\ [Next]_vars => (lost = {})'
  <2> SUFFICES ASSUME lost = {}, SerialAwaits, [Next]_vars PROVE lost' = {}
    OBVIOUS
  <2>1. lost' = lost \/ \E p \in pushing : PushLost(p)
    BY DEF Next, Build, RunSome, AwaitArg, CreateFromFunction, CreateFromCells, Created, Push,
           PushEnd, Run, RunFunction, Map, TrackBegin, TrackPass, TrackEnd, TrackError, Commit,
           CountCell, ResolveLast, ResolveFirst, Write, Resolve, AtRest, vars
  <2>2. ASSUME NEW p \in pushing PROVE ~PushLost(p)
    BY DEF PushLost, SerialAwaits
  <2>3. QED
    BY <2>1, <2>2
<1>3. QED
  BY <1>1, <1>2, PTL DEF Safety

\* Where nothing is made with bind(), only the thread that creates the tasks calls
\* await(), one call after the other.
AwaitsOfBuilder == \A p, q \in pushing : p.by = NoTask /\ p = q

\* Without bind(), no callback is lost, whatever else the graph is made of.
THEOREM NothingLostWithoutBind ==
  ASSUME \A t \in Tasks : Kind[t] # "bind"
  PROVE  Safety => [](lost = {})
<1>1. Init => AwaitsOfBuilder
  BY DEF Init, AwaitsOfBuilder
<1>2. TaskInv /\ AwaitsOfBuilder /\ [Next]_vars => AwaitsOfBuilder'
  <2> SUFFICES ASSUME TaskInv, AwaitsOfBuilder, [Next]_vars PROVE AwaitsOfBuilder'
    OBVIOUS
  <2>1. \/ pushing' \subseteq pushing
        \/ AwaitArg
        \/ \E j \in jobs : TrackPass(j, j.callback.task)
    BY DEF Next, Build, RunSome, CreateFromFunction, CreateFromCells, Created, Push, PushLost,
           PushEnd, Run, RunFunction, Map, TrackBegin, TrackEnd, TrackError, Commit,
           CountCell, ResolveLast, ResolveFirst, Write, Resolve, AtRest, vars
  <2>2. CASE pushing' \subseteq pushing
    BY <2>2 DEF AwaitsOfBuilder
  <2>3. CASE AwaitArg
    <3>1. pushing = {}
      BY <2>3 DEF AwaitArg, PushingBy, AwaitsOfBuilder
    <3>2. PICK t, c : Await(t, c, NoTask)
      BY <2>3 DEF AwaitArg
    <3>3. QED
      BY <3>1, <3>2 DEF Await, AwaitsOfBuilder
  <2>4. CASE \E j \in jobs : TrackPass(j, j.callback.task)
    <3>1. PICK j \in jobs : j.stage = "passing"
      BY <2>4 DEF TrackPass
    <3>2. j.callback.task \in Tasks /\ Kind[j.callback.task] = "bind"
      BY <3>1, JobArg DEF TaskInv, JobsOK, JobOK
    <3>3. QED
      BY <3>2
  <2>5. QED
    BY <2>1, <2>2, <2>3, <2>4
<1>3. AwaitsOfBuilder => SerialAwaits
  BY DEF AwaitsOfBuilder, SerialAwaits
<1>4. QED
  BY <1>1, <1>2, <1>3, Invariance, NothingLostSerially, PTL DEF Safety

\* For any graph of tasks, a task that has a result has the one that its arguments
\* give it.
THEOREM ResultsJustifiedHolds == Safety => []ResultsJustified
<1>1. TaskInv => ResultsJustified
  <2> SUFFICES ASSUME TaskInv, NEW t \in Tasks, Seen(t) # NoResult PROVE Justified(t)
    BY DEF ResultsJustified
  <2>0. Tracks(tracked) /\ TrackOK(t)
    BY DEF TaskInv, Tracking, Tracks
  <2>1. CellOf[t] = IF tracked[t] \in {NoTask, t} THEN t ELSE CellOf[tracked[t]]
    BY <2>0, RootIsEarlier
  <2>2. CASE Kind[t] = "bind"
    <3>1. CASE tracked[t] \in {NoTask, t}
      <4>1. Seen(t) = result[t]
        BY <2>1, <3>1 DEF Seen
      <4>2. IsErr(Arg(t, 1)) /\ Seen(t) = Arg(t, 1)
        BY <2>0, <2>2, <4>1 DEF TrackOK
      <4>3. QED
        BY <2>2, <4>2 DEF Justified
    <3>2. CASE tracked[t] \notin {NoTask, t}
      <4>1. IsOk(Arg(t, 1)) /\ tracked[t] = BindTo[t][Arg(t, 1).of]
        BY <2>0, <2>2, <3>2 DEF TrackOK
      <4>2. Seen(t) = Seen(tracked[t])
        BY <2>1, <3>2 DEF Seen
      <4>3. QED
        BY <2>2, <4>1, <4>2 DEF Justified
    <3>3. QED
      BY <3>1, <3>2
  <2>3. CASE Kind[t] # "bind"
    <3>1. Seen(t) = result[t]
      BY <2>0, <2>1, <2>3 DEF TrackOK, Seen
    <3>2. BackedBy(t, Seen(t))
      BY <3>1 DEF TaskInv, AllBacked
    <3>3. PICK r : r = Seen(t)
      OBVIOUS
    <3>4. BackedBy(t, r)
      BY <3>2, <3>3
    <3>5. CASE Kind[t] = "map"
      BY <3>3, <3>4, <3>5 DEF BackedBy, Justified
    <3>6. CASE Kind[t] = "all"
      BY <3>3, <3>4, <3>6 DEF BackedBy, Justified
    <3>7. CASE Kind[t] = "any"
      BY <3>3, <3>4, <3>7 DEF BackedBy, Justified
    <3>8. CASE Kind[t] \notin {"map", "bind", "all", "any"}
      BY <3>8 DEF Justified
    <3>9. QED
      BY <2>3, <3>5, <3>6, <3>7, <3>8
  <2>4. QED
    BY <2>2, <2>3
<1>2. QED
  BY <1>1, Invariance, PTL

\* For any graph of tasks, what was read of a task once is read ever after.
THEOREM ResultsStayHolds == Safety => ResultsStay
<1>1. TaskInv /\ [Next]_vars => [\A t \in Tasks : Seen(t) # NoResult => Seen(t)' = Seen(t)]_vars
  BY StepInv DEF SeenKept
<1>2. QED
  BY <1>1, Invariance, PTL DEF Safety, ResultsStay
=============================================================================
