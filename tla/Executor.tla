------------------------------ MODULE Executor ------------------------------
(***************************************************************************)
(* What a scheduler promises to those that queue jobs on it: every job it  *)
(* accepts is run by one worker, once, and no more jobs run at a time than *)
(* there are workers.  A job may wait, on a worker, for others to finish.  *)
(***************************************************************************)
EXTENDS Naturals

CONSTANTS NumWorkers, Jobs,
          BlocksOn         \* BlocksOn[j]: the jobs that j waits for as it runs

VARIABLES waiting, active, finished

vars == <<waiting, active, finished>>

Init == waiting = {} /\ active = {} /\ finished = {}

Accept(j) ==
  /\ j \notin waiting \cup active \cup finished
  /\ waiting' = waiting \cup {j}
  /\ UNCHANGED <<active, finished>>

\* Each of the jobs can have a worker of its own.
HaveWorkers(js) ==
  \E worker \in [js -> 1 .. NumWorkers] : \A i, k \in js : worker[i] = worker[k] => i = k

Start(j) ==
  /\ j \in waiting /\ HaveWorkers(active \cup {j})
  /\ waiting' = waiting \ {j}
  /\ active' = active \cup {j}
  /\ UNCHANGED finished

Finish(j) ==
  /\ j \in active /\ BlocksOn[j] \subseteq finished
  /\ active' = active \ {j}
  /\ finished' = finished \cup {j}
  /\ UNCHANGED waiting

Next == \E j \in Jobs : Accept(j) \/ Start(j) \/ Finish(j)

Spec == Init /\ [][Next]_vars
=============================================================================
