SPECIFICATION Spec
CONSTANTS
  TickSize = 1
  WheelSizes <- ThreeWheels
  Timers = {x1}
  Durations = {1}
  Width = 6
  MaxTime = 15
  MaxLag = 1
  Never = Never
INVARIANT TimersNeverLate
