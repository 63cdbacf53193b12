------------------------------ MODULE SpinLock ------------------------------
(***************************************************************************)
(* SpinLock (src/src/concurrency/src/spinlock.cpp): a test-and-test-and-set *)
(* lock that reads the flag a bounded number of times, then tries to take  *)
(* it with an exchange, and sleeps before it starts over.                  *)
(*                                                                         *)
(* is_acquired is a single atomic, so its relaxed loads are ordered with   *)
(* its exchanges and stores as interleaving orders them.                   *)
(***************************************************************************)
EXTENDS Naturals, FiniteSets, TLAPS

CONSTANTS Threads,
          Nobody,
          NumAttempts   \* num_attempts in the code

ASSUME SpinLockAssumption ==
  Nobody \notin Threads /\ NumAttempts \in Nat \ {0}

VARIABLES is_acquired,  \* the flag
          attempts,     \* i, the loads done in this round
          pc            \* where each thread is

vars == <<is_acquired, attempts, pc>>

Init ==
  /\ is_acquired = FALSE
  /\ attempts = [t \in Threads |-> 0]
  /\ pc = [t \in Threads |-> "out"]

Goto(t, there) == pc' = [pc EXCEPT ![t] = there]

Call(t) ==
  /\ pc[t] = "out"
  /\ attempts' = [attempts EXCEPT ![t] = 0]
  /\ Goto(t, "spin")
  /\ UNCHANGED is_acquired

SeeFree(t) ==
  /\ pc[t] = "spin" /\ ~is_acquired
  /\ Goto(t, "exchange")
  /\ UNCHANGED <<is_acquired, attempts>>

\* Faulty: one attempt more than there should be.
SeeTakenOnceMore(t) ==
  /\ pc[t] = "spin" /\ is_acquired
  /\ attempts' = [attempts EXCEPT ![t] = @ + 1]
  /\ Goto(t, IF attempts[t] = NumAttempts THEN "sleep" ELSE "spin")
  /\ UNCHANGED is_acquired

\* The flag is set: pause, and give up the round after the last attempt.
SeeTaken(t) ==
  /\ pc[t] = "spin" /\ is_acquired
  /\ attempts' = [attempts EXCEPT ![t] = @ + 1]
  /\ Goto(t, IF attempts'[t] = NumAttempts THEN "sleep" ELSE "spin")
  /\ UNCHANGED is_acquired

\* Faulty: a store, which does not tell whether the flag was clear.
ExchangeUnread(t) ==
  /\ pc[t] = "exchange"
  /\ is_acquired' = TRUE
  /\ Goto(t, "in")
  /\ UNCHANGED attempts

\* exchange(true): the thread has the lock if the flag was clear.
Exchange(t) ==
  /\ pc[t] = "exchange"
  /\ is_acquired' = TRUE
  /\ Goto(t, IF is_acquired THEN "sleep" ELSE "in")
  /\ UNCHANGED attempts

Retry(t) ==
  /\ pc[t] = "sleep"
  /\ attempts' = [attempts EXCEPT ![t] = 0]
  /\ Goto(t, "spin")
  /\ UNCHANGED is_acquired

\* Faulty: the flag stays set.
UnlockUncleared(t) ==
  /\ pc[t] = "in"
  /\ Goto(t, "out")
  /\ UNCHANGED <<is_acquired, attempts>>

Unlock(t) ==
  /\ pc[t] = "in"
  /\ is_acquired' = FALSE
  /\ Goto(t, "out")
  /\ UNCHANGED attempts

Lock(t) == SeeFree(t) \/ SeeTaken(t) \/ Exchange(t) \/ Retry(t)

Next == \E t \in Threads : Call(t) \/ Lock(t) \/ Unlock(t)

\* A thread that called lock() keeps running, and one that holds the lock
\* releases it: the users of the lock hold it for a bounded number of steps.
Fairness == \A t \in Threads : WF_vars(Lock(t)) /\ WF_vars(Unlock(t))

Safety == Init /\ [][Next]_vars

Spec == Safety /\ Fairness

-----------------------------------------------------------------------------
\* The type of the state of SpinLock: no round is longer than NumAttempts.
TypeOK ==
  /\ is_acquired \in BOOLEAN
  /\ attempts \in [Threads -> 0 .. NumAttempts]
  /\ pc \in [Threads -> {"out", "spin", "exchange", "sleep", "in"}]
  /\ \A t \in Threads : pc[t] = "spin" => attempts[t] < NumAttempts

\* At most one thread is between lock() and unlock(), although any number of
\* threads may see the flag clear before one of them exchanges it.
MutualExclusion == \A s, t \in Threads : pc[s] = "in" /\ pc[t] = "in" => s = t

\* The flag is set exactly when a thread holds the lock, so a failed exchange
\* leaves nothing behind that would keep everybody out.
FlagIffHeld == is_acquired <=> \E t \in Threads : pc[t] = "in"

Contended == \E t \in Threads : pc[t] \in {"spin", "exchange", "sleep"}

\* The lock makes progress: while threads wait, one of them gets in.  Nothing
\* says which; lock() may starve a thread for ever.
SomeoneEnters == Contended ~> \E t \in Threads : pc[t] = "in"

holder == IF \E t \in Threads : pc[t] = "in"
          THEN CHOOSE t \in Threads : pc[t] = "in" ELSE Nobody

M == INSTANCE Mutex

\* SpinLock implements the lock that the modules built on it assume.
ImplementsMutex == M!Spec

-----------------------------------------------------------------------------
(* Proofs, for any set of threads and any number of attempts.              *)

\* MutualExclusion alone is not inductive: the exchange must find the flag set
\* whenever a thread is inside.
IInv == TypeOK /\ MutualExclusion /\ FlagIffHeld

\* The invariant holds of a new SpinLock.
LEMMA InitIInv == Init => IInv
<1> SUFFICES ASSUME Init PROVE IInv
  OBVIOUS
<1>1. TypeOK
  <2>1. is_acquired \in BOOLEAN
    BY DEF Init
  <2>2. attempts \in [Threads -> 0 .. NumAttempts]
    BY SpinLockAssumption DEF Init
  <2>3. QED
    BY <2>1, <2>2 DEF Init, TypeOK
<1>2. \A t \in Threads : pc[t] # "in"
  BY DEF Init
<1>3. QED
  BY <1>1, <1>2 DEF Init, IInv, MutualExclusion, FlagIffHeld

\* Every step of lock() and unlock() preserves the invariant.
LEMMA StepIInv == IInv /\ [Next]_vars => IInv'
<1> SUFFICES ASSUME IInv, [Next]_vars
             PROVE  IInv'
  OBVIOUS
<1> USE SpinLockAssumption DEF IInv, TypeOK, MutualExclusion, FlagIffHeld, Goto
<1>1. ASSUME NEW t \in Threads, Call(t)
      PROVE  IInv'
  BY <1>1 DEF Call
<1>2. ASSUME NEW t \in Threads, SeeFree(t)
      PROVE  IInv'
  BY <1>2 DEF SeeFree
<1>3. ASSUME NEW t \in Threads, SeeTaken(t)
      PROVE  IInv'
  BY <1>3 DEF SeeTaken
<1>4. ASSUME NEW t \in Threads, Exchange(t)
      PROVE  IInv'
  BY <1>4 DEF Exchange
<1>5. ASSUME NEW t \in Threads, Retry(t)
      PROVE  IInv'
  BY <1>5 DEF Retry
<1>6. ASSUME NEW t \in Threads, Unlock(t)
      PROVE  IInv'
  BY <1>6 DEF Unlock
<1>7. CASE UNCHANGED vars
  BY <1>7 DEF vars
<1>8. QED
  BY <1>1, <1>2, <1>3, <1>4, <1>5, <1>6, <1>7 DEF Next, Lock

\* The invariant holds in every state.
LEMMA IInvariant == Safety => []IInv
BY InitIInv, StepIInv, PTL DEF Safety

\* The state of SpinLock keeps its type: a thread that spins has attempts left.
THEOREM TypeCorrect == Safety => []TypeOK
BY IInvariant, PTL DEF IInv

\* No two threads are ever inside the lock together.
THEOREM MutualExclusionHolds == Safety => []MutualExclusion
BY IInvariant, PTL DEF IInv

\* The flag never stays set without a holder.
THEOREM FlagIffHeldHolds == Safety => []FlagIffHeld
BY IInvariant, PTL DEF IInv

\* The holder of a lock that t is inside of.
LEMMA HolderIs ==
  ASSUME MutualExclusion, NEW t \in Threads, pc[t] = "in"
  PROVE  holder = t
BY DEF MutualExclusion, holder

\* Every step of SpinLock acquires or releases the Mutex, or leaves it alone.
LEMMA StepRefines == IInv /\ IInv' /\ [Next]_vars => [M!Next]_holder
<1> SUFFICES ASSUME IInv, IInv', [Next]_vars
             PROVE  [M!Next]_holder
  OBVIOUS
<1> USE SpinLockAssumption DEF IInv, TypeOK, Goto
<1>1. ASSUME UNCHANGED pc
      PROVE  holder' = holder
  BY <1>1 DEF holder
<1>2. ASSUME \A u \in Threads : pc'[u] = "in" <=> pc[u] = "in"
      PROVE  holder' = holder
  BY <1>2 DEF holder
<1>3. ASSUME NEW t \in Threads, Exchange(t), ~is_acquired
      PROVE  M!Acquire(t)
  <2>1. holder = Nobody
    BY <1>3 DEF FlagIffHeld, holder
  <2>2. pc'[t] = "in"
    BY <1>3 DEF Exchange
  <2>3. holder' = t
    BY <2>2 DEF MutualExclusion, holder
  <2>4. QED
    BY <2>1, <2>3 DEF M!Acquire
<1>4. ASSUME NEW t \in Threads, Unlock(t)
      PROVE  M!Release(t)
  <2>1. holder = t
    BY <1>4, HolderIs DEF Unlock
  <2>2. ~\E u \in Threads : pc'[u] = "in"
    BY <1>4 DEF Unlock, MutualExclusion
  <2>3. holder' = Nobody
    BY <2>2 DEF holder
  <2>4. QED
    BY <2>1, <2>3 DEF M!Release
<1>5. ASSUME NEW t \in Threads,
             Call(t) \/ SeeFree(t) \/ SeeTaken(t) \/ Retry(t)
             \/ (Exchange(t) /\ is_acquired)
      PROVE  holder' = holder
  <2>1. \A u \in Threads : pc'[u] = "in" <=> pc[u] = "in"
    BY <1>5 DEF Call, SeeFree, SeeTaken, Retry, Exchange
  <2>2. QED
    BY <1>2, <2>1
<1>6. QED
  BY <1>1, <1>3, <1>4, <1>5 DEF Next, Lock, vars, M!Next

\* SpinLock is a Mutex to the queues and lists that use it.
THEOREM RefinesMutex == Safety => ImplementsMutex
<1>1. Init => M!Init
  BY DEF Init, M!Init, holder
<1>2. QED
  BY <1>1, StepRefines, IInvariant, PTL DEF Safety, ImplementsMutex, M!Spec
=============================================================================
