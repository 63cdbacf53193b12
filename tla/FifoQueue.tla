------------------------------ MODULE FifoQueue ------------------------------
(***************************************************************************)
(* What a job queue promises: a first-in first-out queue of jobs, in which *)
(* a call of dequeue() finds nothing only when nothing is there.           *)
(***************************************************************************)
EXTENDS Sequences

CONSTANTS Threads, Jobs,
          NoJob            \* what dequeue() returns when it finds nothing

VARIABLES contents,        \* the jobs in the queue, the oldest first
          job              \* what the last dequeue() of each thread returned

vars == <<contents, job>>

Init == contents = <<>> /\ job = [t \in Threads |-> NoJob]

Enqueue(x) ==
  /\ contents' = Append(contents, x)
  /\ UNCHANGED job

Dequeue(t) ==
  /\ contents # <<>>
  /\ job' = [job EXCEPT ![t] = Head(contents)]
  /\ contents' = Tail(contents)

DequeueNothing(t) ==
  /\ contents = <<>>
  /\ job' = [job EXCEPT ![t] = NoJob]
  /\ UNCHANGED contents

Next ==
  \/ \E x \in Jobs : Enqueue(x)
  \/ \E t \in Threads : Dequeue(t) \/ DequeueNothing(t)

Spec == Init /\ [][Next]_vars
=============================================================================
