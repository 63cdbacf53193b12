----------------------------- MODULE MCJobQueue -----------------------------
(* JobQueue on small sets of threads and jobs. *)
EXTENDS JobQueue, TLC

Symmetry == Permutations(Threads) \cup Permutations(Jobs)
=============================================================================
