-------------------------------- MODULE Mutex --------------------------------
(* A mutual exclusion lock as its users see it: free, or held by one thread. *)
CONSTANTS Threads,
          Nobody      \* the lock is free

VARIABLE holder

Init == holder = Nobody

Acquire(t) == holder = Nobody /\ holder' = t

Release(t) == holder = t /\ holder' = Nobody

Next == \E t \in Threads : Acquire(t) \/ Release(t)

Spec == Init /\ [][Next]_holder
=============================================================================
