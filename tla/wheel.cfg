SPECIFICATION Spec
CONSTANTS
  TickSize = 2
  WheelSizes <- ThreeWheels
  Timers = {x1, x2}
  Durations = {3, 7, 20}
  Width = 7
  MaxTime = 48
  MaxLag = 4
  Never = Never
SYMMETRY Symmetry
INVARIANTS TypeOK WheelsKeepTime EarlyByTicksTurned LateByLessThanCapacity
PROPERTY ImplementsPollSource
