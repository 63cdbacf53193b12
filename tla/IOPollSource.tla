---------------------------- MODULE IOPollSource ----------------------------
(***************************************************************************)
(* IO::PollSource and IO::AIOManager (src/src/io/src/io_poll_source.cpp,   *)
(* aio.cpp), and the callback that TaskIOSource::read gives them           *)
(* (src/src/async_lib/task_io_source.cpp): the reads in flight, the state  *)
(* that POSIX AIO keeps of each, and the tasks they resolve.               *)
(*                                                                         *)
(* queue_read() starts a read before it takes the spin lock to list it, so *)
(* a read may complete before it is listed.  poll() holds the lock: it is  *)
(* one step, since a read that completes while the loop runs is either     *)
(* seen, or found by the next poll.  It goes through the whole list, and   *)
(* the pool runs its jobs in any order: the list is a set here.            *)
(***************************************************************************)
EXTENDS Naturals, FiniteSets

CONSTANT Reads                   \* the calls of TaskIOSource::read

VARIABLES status,                \* what aio_error() reports of each read
          starting,              \* the reads started and not listed yet
          in_flight_requests,    \* the list of the poll source
          outcome                \* how the task of each read is resolved

ioVars == <<status, starting, in_flight_requests, outcome>>

IOInit ==
  /\ status = [r \in Reads |-> "none"]
  /\ starting = {}
  /\ in_flight_requests = {}
  /\ outcome = [r \in Reads |-> "pending"]

is_completed(r) == status[r] # "EINPROGRESS"

\* enqueue_and_start_read(): aio_read() accepts the read, or refuses it.  The
\* code does not look at its answer.  aio_error() then reports an error of a
\* read that was refused, or the 0 its control block was initialised with, as if
\* the buffer had been filled.
StartRead(r) ==
  /\ status[r] = "none"
  /\ \E s \in {"EINPROGRESS", "0", "error"} : status' = [status EXCEPT ![r] = s]
  /\ starting' = starting \cup {r}
  /\ UNCHANGED <<in_flight_requests, outcome>>

\* The read ends, well or not, whoever looks at it.
EndRead(r) ==
  /\ status[r] = "EINPROGRESS"
  /\ \E s \in {"0", "error"} : status' = [status EXCEPT ![r] = s]
  /\ UNCHANGED <<starting, in_flight_requests, outcome>>

ListRead(r) ==
  /\ r \in starting
  /\ starting' = starting \ {r}
  /\ in_flight_requests' = in_flight_requests \cup {r}
  /\ UNCHANGED <<status, outcome>>

\* poll(): the jobs it returns, and what it leaves in the list.
PollReads == {r \in in_flight_requests : is_completed(r)}

\* Faulty: the pending requests are evicted too.
EvictAll ==
  /\ in_flight_requests' = {}
  /\ UNCHANGED <<status, starting, outcome>>

EvictCompleted ==
  /\ in_flight_requests' = in_flight_requests \ PollReads
  /\ UNCHANGED <<status, starting, outcome>>

\* The job of a completed read: result() asks aio_error() once more, and the
\* callback completes the task with the request, or fails it with IOError.
ResolveRead(r) ==
  /\ outcome' = [outcome EXCEPT ![r] =
       IF status[r] = "0" THEN "request" ELSE "IOError"]
  /\ UNCHANGED <<status, starting, in_flight_requests>>

IOTypeOK ==
  /\ status \in [Reads -> {"none", "EINPROGRESS", "0", "error"}]
  /\ starting \subseteq Reads
  /\ in_flight_requests \subseteq Reads
  /\ outcome \in [Reads -> {"pending", "request", "IOError"}]
=============================================================================
