-------------------------------- MODULE Tasks --------------------------------
(***************************************************************************)
(* Async::Task (src/include/async_lib/task.h): a graph of tasks, built     *)
(* with create(), map(), bind(), when_all() and when_any() on top of value *)
(* sources, and the cells behind them (src/src/cell/include/cell/):        *)
(* TrackingOnceCell behind bind(), WhenAllCell and WhenAnyCell.            *)
(*                                                                         *)
(* The callbacks of a cell become jobs as soon as it is resolved; the pool *)
(* runs the jobs it holds in any order and at the same time, as Executor   *)
(* says.  await() and track() are cut where another thread may come in:    *)
(* await() holds the mutex shared while it appends the callback, so that   *)
(* it races with another await() of the same cell, by the thread that      *)
(* creates tasks or by a track() that passes its callbacks on.  The        *)
(* callbacks of the combinators are cut in the same way.                   *)
(***************************************************************************)
EXTENDS Naturals, Sequences, FiniteSets, SequencesExt

CONSTANTS Program,       \* the tasks, in the order in which a thread creates them
          Kind,          \* how each is made
          Args,          \* the tasks it is made from, in order
          Type,          \* the values it may have: the T of a Task<T>
          Func,          \* the function given to map(): a value for each value
          BindTo,        \* the function given to bind(): a task for each value
          Errors,
          NoResult, NoTask

Tasks == ToSet(Program)

Earlier(t) == {Program[i] : i \in {i \in DOMAIN Program :
                 \E k \in DOMAIN Program : i < k /\ Program[k] = t}}

Ok(v) == [ok |-> TRUE, of |-> v]
Err(e) == [ok |-> FALSE, of |-> e]

ResultsOf(t) == {Ok(v) : v \in Type[t]} \cup {Err(e) : e \in Errors}

\* Each task is created once, and cannot be made from, or bound to, itself or one
\* made from it.  Types are those of the signatures in task.h: tasks given to
\* when_all() and when_any() have the same, and bind() that of its function's tasks.
ASSUME TasksAssumption ==
  /\ Program \in Seq(Tasks) /\ IsInjective(Program)
  /\ Kind \in [Tasks -> {"source", "create", "map", "bind", "all", "any"}]
  /\ Args \in [Tasks -> Seq(Tasks)]
  /\ \A t \in Tasks :
       /\ ToSet(Args[t]) \subseteq Earlier(t)
       /\ Kind[t] \in {"source", "create"} => Args[t] = <<>>
       /\ Kind[t] = "map" =>
            Len(Args[t]) = 1 /\ Func[t] \in [Type[Args[t][1]] -> Type[t]]
       /\ Kind[t] = "bind" =>
            /\ Len(Args[t]) = 1
            /\ BindTo[t] \in [Type[Args[t][1]] -> {u \in Earlier(t) : Type[u] = Type[t]}]
       /\ \A u \in ToSet(Args[t]) :
            /\ Kind[t] = "all" => Type[t] = [DOMAIN Args[t] -> Type[u]]
            /\ Kind[t] = "any" => Type[t] = Type[u]
       /\ NoResult \notin ResultsOf(t)
  /\ NoTask \notin Tasks

VARIABLES created,       \* how many tasks of Program are created
          awaited,       \* how many arguments the next one awaits already
          result,        \* the result in the WriteOnceCell of each task
          tracked,       \* what the TrackingOnceCell of a bind() tracks: a task,
                         \* or the task itself for the error_cell
          callbacks,     \* the callbacks in the vector of the cell of each task
          pushing,       \* the calls of await() that append a callback to a vector
          jobs,          \* the callbacks that are queued or run
          finished,      \* the callbacks that have returned
          lost,          \* the callbacks that another was constructed over
          values,        \* _resolved_values of each WhenAllCell
          count          \* num_resolved_cells, _num_erroneous_cells

build == <<created, awaited>>
combine == <<values, count>>

vars == <<build, result, tracked, callbacks, pushing, jobs, finished, lost, combine>>

Init ==
  /\ created = 0 /\ awaited = 0
  /\ result = [t \in Tasks |-> NoResult]
  /\ tracked = [t \in Tasks |-> NoTask]
  /\ callbacks = [t \in Tasks |-> {}]
  /\ pushing = {} /\ jobs = {} /\ finished = {} /\ lost = {}
  /\ values = [t \in Tasks |-> [i \in DOMAIN Args[t] |-> NoResult]]
  /\ count = [t \in Tasks |-> 0]

\* The cell that a callback given to await() reaches, through TrackingOnceCells.
CellOf[t \in Tasks] ==
  IF tracked[t] \in {NoTask, t} THEN t ELSE CellOf[tracked[t]]

Job(c, r) == [callback |-> c, result |-> r, stage |-> "start"]

\* Faulty: the cell is not tested for a result.
VacantAlways(t) == TRUE

Vacant(t) == result[t] = NoResult

\* await() appends to the vector of the cell of t, and has its mutex shared.
Pushing(t) == \E p \in pushing : p.cell = t

\* The thread is inside such an await(): the one that creates tasks (NoTask), or the
\* track() of bind task t.
PushingBy(t) == \E p \in pushing : p.by = t

\* track() passes on the callbacks of bind task t, and has its mutex exclusively.
Passing(t) == \E j \in jobs : j.callback.task = t /\ j.stage = "passing"

\* await() on t has to wait for one of the mutexes on its way to the cell.
Locked[t \in Tasks] ==
  Passing(t) \/ (tracked[t] \notin {NoTask, t} /\ Locked[tracked[t]])

\* Cell::await on task t with callback c: queued, or to be appended.
Await(t, c, by) ==
  /\ ~Locked[t]
  /\ IF result[CellOf[t]] = NoResult
     THEN /\ pushing' = pushing \cup {[callback |-> c, cell |-> CellOf[t], by |-> by]}
          /\ UNCHANGED jobs
     ELSE /\ jobs' = jobs \cup {Job(c, result[CellOf[t]])}
          /\ UNCHANGED pushing

PushEnd(p) ==
  /\ callbacks' = [callbacks EXCEPT ![p.cell] = @ \cup {p.callback}]
  /\ pushing' = pushing \ {p}
  /\ UNCHANGED <<build, result, tracked, jobs, finished, lost, combine>>

\* Another await() has read the same end of the vector, and constructs its callback
\* over this one before anybody else has the mutex.  (That the end may also move
\* past a slot in which nothing is constructed, as in WriteOnceCell, is left out.)
PushLost(p) ==
  /\ \E q \in pushing \ {p} : q.cell = p.cell
  /\ lost' = lost \cup {p.callback}
  /\ pushing' = pushing \ {p}
  /\ UNCHANGED <<build, result, tracked, callbacks, jobs, finished, combine>>

\* write() or error() on the cell of t, while the jobs are js.
WriteCell(t, r, js) ==
  /\ ~Pushing(t)
  /\ IF Vacant(t)
     THEN /\ result' = [result EXCEPT ![t] = r]
          /\ callbacks' = [callbacks EXCEPT ![t] = {}]
          /\ jobs' = js \cup {Job(c, r) : c \in callbacks[t]}
     ELSE jobs' = js /\ UNCHANGED <<result, callbacks>>

-----------------------------------------------------------------------------
(* A thread calls the factory and the tasks.  A task made from others      *)
(* awaits these in turn; one made from a function queues it.               *)

New == Program[created + 1]

AwaitArg ==
  /\ created < Len(Program) /\ awaited < Len(Args[New]) /\ ~PushingBy(NoTask)
  /\ awaited' = awaited + 1
  /\ Await(Args[New][awaited'], [task |-> New, arg |-> awaited'], NoTask)
  /\ UNCHANGED <<created, result, tracked, callbacks, finished, lost, combine>>

Created ==
  /\ created < Len(Program) /\ awaited = Len(Args[New]) /\ ~PushingBy(NoTask)
  /\ created' = created + 1 /\ awaited' = 0
  /\ UNCHANGED <<result, tracked, callbacks, pushing, finished, lost, combine>>

CreateFromFunction ==
  /\ Created /\ Kind[New] = "create"
  /\ jobs' = jobs \cup {Job([task |-> New, arg |-> 0], NoResult)}

CreateFromCells == Created /\ Kind[New] # "create" /\ UNCHANGED jobs

-----------------------------------------------------------------------------
(* Steps of a job j, the callback of task t                                *)

Finish(j) == finished' = finished \cup {j.callback}

\* j ends by resolving the cell of t, or trying to.
Write(j, t, r) ==
  /\ Finish(j)
  /\ WriteCell(t, r, jobs \ {j})
  /\ UNCHANGED <<build, tracked, pushing, lost, combine>>

Becomes(j, stage) == jobs' = (jobs \ {j}) \cup {[j EXCEPT !.stage = stage]}

Starts(j, kind) == j.stage = "start" /\ Kind[j.callback.task] = kind

RunFunction(j, t) ==
  /\ Starts(j, "create")
  /\ \E v \in Type[t] : Write(j, t, Ok(v))

Map(j, t) ==
  /\ Starts(j, "map")
  /\ Write(j, t, IF j.result.ok THEN Ok(Func[t][j.result.of]) ELSE j.result)

\* bind(): func returns a task, whose cell track() fills the tracking cell with.
TrackBegin(j, t) ==
  /\ Starts(j, "bind") /\ j.result.ok /\ ~Pushing(t)
  /\ tracked' = [tracked EXCEPT ![t] = BindTo[t][j.result.of]]
  /\ Becomes(j, "passing")
  /\ UNCHANGED <<build, result, callbacks, pushing, finished, lost, combine>>

\* An iteration of its loop: a callback that the tracking cell holds awaits the new
\* cell, which may be resolved before, between or after them.
TrackPass(j, t) ==
  /\ j.stage = "passing" /\ ~PushingBy(t)
  /\ \E c \in callbacks[t] :
       /\ callbacks' = [callbacks EXCEPT ![t] = @ \ {c}]
       /\ Await(tracked[t], c, t)
  /\ UNCHANGED <<build, result, tracked, finished, lost, combine>>

\* Faulty: the loop is left after any callback.
PassedSome(t) == ~PushingBy(t)

AllPassed(t) == callbacks[t] = {} /\ ~PushingBy(t)

TrackEnd(j, t) ==
  /\ j.stage = "passing" /\ AllPassed(t)
  /\ callbacks' = [callbacks EXCEPT ![t] = {}]
  /\ jobs' = jobs \ {j}
  /\ Finish(j)
  /\ UNCHANGED <<build, result, tracked, pushing, lost, combine>>

\* bind() of an error: the tracking cell tracks error_cell, resolved with it.
TrackError(j, t) ==
  /\ Starts(j, "bind") /\ ~j.result.ok
  /\ tracked' = [tracked EXCEPT ![t] = t]
  /\ WriteCell(t, j.result, jobs \ {j})
  /\ Finish(j)
  /\ UNCHANGED <<build, pushing, lost, combine>>

\* Faulty: the result is stored, not the value in it.
StoredResult(j) == j.result

Stored(j) == j.result.of

\* when_all(): commit_resolved_value stores the value ...
Commit(j, t) ==
  /\ Starts(j, "all") /\ j.result.ok
  /\ values' = [values EXCEPT ![t][j.callback.arg] = Stored(j)]
  /\ Becomes(j, "committed")
  /\ UNCHANGED <<build, result, tracked, callbacks, pushing, finished, lost, count>>

\* Faulty: the cell counted is thought of as one more, or one less.
CountedOneMore(t) == count[t] + 2 >= Len(Args[t])
CountedOneLess(t) == count[t] >= Len(Args[t])

CountedAll(t) == count[t] + 1 >= Len(Args[t])

\* ... then counts it; when_any() counts an error.  The last to count goes on.
CountCell(j, t) ==
  /\ \/ j.stage = "committed"
     \/ Starts(j, "any") /\ ~j.result.ok
  /\ count' = [count EXCEPT ![t] = @ + 1]
  /\ IF CountedAll(t)
     THEN Becomes(j, "last") /\ UNCHANGED finished
     ELSE jobs' = jobs \ {j} /\ Finish(j)
  /\ UNCHANGED <<build, result, tracked, callbacks, pushing, lost, values>>

\* ... and resolves the cell, with all values or with its error.
ResolveLast(j, t) ==
  /\ j.stage = "last"
  /\ Write(j, t, IF j.result.ok THEN Ok(values[t]) ELSE j.result)

\* The first error resolves when_all(), the first value when_any().
ResolveFirst(j, t) ==
  /\ \/ Starts(j, "all") /\ ~j.result.ok
     \/ Starts(j, "any") /\ j.result.ok
  /\ Write(j, t, j.result)

-----------------------------------------------------------------------------
\* complete() and error() of a TaskValueSource, by any thread, any number of times.
Resolve(t, r) ==
  /\ t \in {Program[i] : i \in 1 .. created} /\ Kind[t] = "source"
  /\ WriteCell(t, r, jobs)
  /\ UNCHANGED <<build, tracked, pushing, finished, lost, combine>>

Run(j, t) ==
  \/ RunFunction(j, t) \/ Map(j, t)
  \/ TrackBegin(j, t) \/ TrackPass(j, t) \/ TrackEnd(j, t) \/ TrackError(j, t)
  \/ Commit(j, t) \/ CountCell(j, t) \/ ResolveLast(j, t) \/ ResolveFirst(j, t)

Push(p) == PushEnd(p) \/ PushLost(p)

RunSome ==
  \/ \E j \in jobs : Run(j, j.callback.task)
  \/ \E p \in pushing : p.by # NoTask /\ Push(p)

Build ==
  \/ AwaitArg \/ CreateFromFunction \/ CreateFromCells
  \/ \E p \in pushing : p.by = NoTask /\ Push(p)

\* Everything is created and nothing is left to run.
AtRest == created = Len(Program) /\ pushing = {} /\ jobs = {} /\ UNCHANGED vars

Next ==
  \/ Build \/ RunSome \/ AtRest
  \/ \E t \in Tasks : \E r \in ResultsOf(t) : Resolve(t, r)

\* The thread that creates the tasks goes on, and the pool runs its jobs; nobody
\* has to resolve a value source.
Safety == Init /\ [][Next]_vars

Spec == Safety /\ WF_vars(Build) /\ WF_vars(RunSome)

-----------------------------------------------------------------------------
Callback(t, i) == [task |-> t, arg |-> i]

CallbackSet == {c \in [task : Tasks, arg : Nat] : c.arg <= Len(Args[c.task])}

\* A task has a result of its type, and so have the cells that WhenAllCell collects.
TypeOK ==
  /\ created \in 0 .. Len(Program) /\ awaited \in Nat
  /\ created < Len(Program) => awaited <= Len(Args[New])
  /\ \A t \in Tasks :
       /\ result[t] \in {NoResult} \cup ResultsOf(t)
       /\ tracked[t] \in Earlier(t) \cup {NoTask, t}
       /\ callbacks[t] \subseteq CallbackSet
       /\ \A i \in DOMAIN Args[t] : values[t][i] \in Type[Args[t][i]] \cup {NoResult}
       /\ count[t] \in 0 .. Len(Args[t])
  /\ \A p \in pushing :
       p.callback \in CallbackSet /\ p.cell \in Tasks /\ p.by \in Tasks \cup {NoTask}
  /\ \A j \in jobs :
       j.callback \in CallbackSet /\ j.stage \in {"start", "passing", "committed", "last"}
  /\ finished \subseteq CallbackSet /\ lost \subseteq CallbackSet

IsCreated(t) == \E i \in 1 .. created : Program[i] = t

IsAwaited(t, i) ==
  IsCreated(t) \/ (created < Len(Program) /\ New = t /\ i <= awaited)

\* The cells that will still do something with the callbacks they hold.
Open == {t \in Tasks : result[t] = NoResult /\ (tracked[t] = NoTask \/ Passing(t))}

\* A callback that was given to await() is in one place until it has returned: in
\* the hands of one await(), in one cell that will still pass it on or queue it, or
\* in one job.  track() passes on each that it holds, and resolving a cell queues
\* each, once.  A callback is lost only by calls of await() on one cell at the same
\* time (NothingLostSerially in TasksProofs).
CallbacksConserved ==
  \A t \in Tasks : \A i \in DOMAIN Args[t] :
    LET c == Callback(t, i)
    IN  Cardinality({u \in Open : c \in callbacks[u]})
          + Cardinality({p \in pushing : p.callback = c})
          + Cardinality({j \in jobs : j.callback = c})
          + (IF c \in finished THEN 1 ELSE 0)
          + (IF c \in lost THEN 1 ELSE 0)
        = IF IsAwaited(t, i) THEN 1 ELSE 0

\* What the readers of a task see: read(), block() and the callbacks.
Seen(t) == result[CellOf[t]]

Arg(t, i) == Seen(Args[t][i])

IsOk(r) == r # NoResult /\ r.ok

IsErr(r) == r # NoResult /\ ~r.ok

Justified(t) ==
  LET r == Seen(t) IN
    CASE Kind[t] = "map" ->
           IF r.ok THEN IsOk(Arg(t, 1)) /\ r.of = Func[t][Arg(t, 1).of] ELSE r = Arg(t, 1)
      [] Kind[t] = "bind" ->
           \/ IsErr(Arg(t, 1)) /\ r = Arg(t, 1)
           \/ IsOk(Arg(t, 1)) /\ r = Seen(BindTo[t][Arg(t, 1).of])
      [] Kind[t] = "all" ->
           IF r.ok THEN r.of = [i \in DOMAIN Args[t] |-> Arg(t, i).of]
                   ELSE \E i \in DOMAIN Args[t] : r = Arg(t, i)
      [] Kind[t] = "any" ->
           /\ \E i \in DOMAIN Args[t] : r = Arg(t, i)
           /\ r.ok \/ \A i \in DOMAIN Args[t] : IsErr(Arg(t, i))
      [] OTHER -> TRUE

\* A task has the result that its arguments give it, however their callbacks
\* race: map() and bind() pass errors on; when_all() has the value of each task
\* at its place (comment on Task::when_all), or an error of one of them;
\* when_any() has an error only if all of them failed (comment on log_error).
ResultsJustified == \A t \in Tasks : Seen(t) # NoResult => Justified(t)

\* Whoever has read a task once reads the same ever after, also through the
\* tracking cells of bind(), and whatever when_any() resolves with first.
ResultsStay ==
  [][\A t \in Tasks : Seen(t) # NoResult => Seen(t)' = Seen(t)]_vars

\* Nobody has to resolve a value source; when_all() and when_any() of nothing have
\* no callback that could resolve them.
Resolvable == {t \in Tasks : Args[t] # <<>> \/ Kind[t] = "create"}

\* What the callback of t for its argument i is told, or will be.
Told(t, i) == IF Callback(t, i) \in lost THEN NoResult ELSE Arg(t, i)

Determined(t) ==
  /\ IsCreated(t)
  /\ CASE Kind[t] = "create" -> TRUE
       [] Kind[t] = "map" -> Told(t, 1) # NoResult
       [] Kind[t] = "bind" ->
            \/ IsErr(Told(t, 1))
            \/ IsOk(Told(t, 1)) /\ Seen(BindTo[t][Told(t, 1).of]) # NoResult
       [] Kind[t] = "all" -> \A i \in DOMAIN Args[t] : Told(t, i) # NoResult
       [] Kind[t] = "any" ->
            \/ \E i \in DOMAIN Args[t] : IsOk(Told(t, i))
            \/ \A i \in DOMAIN Args[t] : IsErr(Told(t, i))

\* A task is resolved once those it is made from determine it: when_all() "when all
\* the underlying tasks have resolved" (task.h:54), when_any() with the first value,
\* even if the others never come.  A callback that overlapping calls of await() have
\* lost tells nothing.  (A task stays determined, and stays resolved: that in the end
\* none is the one without the other says that of each the one leads to the other.)
DeterminedTasksResolve ==
  <>[](\A t \in Resolvable : Determined(t) => Seen(t) # NoResult)
=============================================================================
