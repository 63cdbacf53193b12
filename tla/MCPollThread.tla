---------------------------- MODULE MCPollThread ----------------------------
(* PollThread with two sources, polled at different frequencies. *)
EXTENDS PollThread, TLC

CONSTANTS io, timer

\* Less than a tick, as in the code, and more than one.
Frequencies == (io :> 1) @@ (timer :> 2)
=============================================================================
