SPECIFICATION Spec
CONSTANTS
  io = io
  timer = timer
  TickSize = 2
  NumTicks = 2
  MaxLag = 4
  Sources = {io, timer}
  IOSource = io
  TimerSource = timer
  Frequency <- Frequencies
  Reads = {r1, r2}
  Timers = {x1}
INVARIANTS TypeOK SourcesConserved NoSourceSkipped TasksConserved
PROPERTIES SourcesPolled ReadsResolve TimersResolve
