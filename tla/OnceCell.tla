------------------------------ MODULE OnceCell ------------------------------
(***************************************************************************)
(* What a cell promises to those that await it: the cell resolves at most  *)
(* once, and every callback registered with it, before or after that, is   *)
(* handed to the scheduler exactly once, with the result of the cell.      *)
(* WriteOnceCell is shown to implement this specification.                 *)
(***************************************************************************)
EXTENDS Naturals, Sequences

CONSTANTS Results,    \* the values and errors a cell can be resolved with
          Callbacks,  \* the continuations that may be registered
          NoResult    \* the cell is not resolved yet

VARIABLES result,     \* the result of the cell, or NoResult
          pending,    \* the callbacks registered and not handed over yet
          jobs        \* the calls handed to the scheduler, in order

vars == <<result, pending, jobs>>

Job(c) == [callback |-> c, result |-> result]

HandedOver(c) == \E i \in DOMAIN jobs : jobs[i].callback = c

Fresh(c) == c \notin pending /\ ~HandedOver(c)

Init == result = NoResult /\ pending = {} /\ jobs = <<>>

Resolve(r) ==
  /\ result = NoResult
  /\ result' = r
  /\ UNCHANGED <<pending, jobs>>

Register(c) ==
  /\ Fresh(c)
  /\ pending' = pending \cup {c}
  /\ UNCHANGED <<result, jobs>>

HandOver(c) ==
  /\ c \in pending
  /\ result # NoResult
  /\ pending' = pending \ {c}
  /\ jobs' = Append(jobs, Job(c))
  /\ UNCHANGED result

\* A callback registered with a resolved cell is handed over at once.
HandOverNow(c) ==
  /\ Fresh(c)
  /\ result # NoResult
  /\ jobs' = Append(jobs, Job(c))
  /\ UNCHANGED <<result, pending>>

Next ==
  \/ \E r \in Results : Resolve(r)
  \/ \E c \in Callbacks : Register(c) \/ HandOver(c) \/ HandOverNow(c)

Safety == Init /\ [][Next]_vars

Spec == Safety /\ \A c \in Callbacks : WF_vars(HandOver(c))
=============================================================================
