---------------------------- MODULE MCWorkerPool ----------------------------
(* WorkerPool with few workers and jobs. *)
EXTENDS WorkerPool, TLC

CONSTANTS j1, j2, j3

\* No job blocks.
NoneBlocks == [j \in Jobs |-> {}]

\* j1 blocks on j2 and j3, which it, or another thread, queues.
OneBlocks == (j1 :> {j2, j3}) @@ NoneBlocks
=============================================================================
