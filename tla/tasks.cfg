SPECIFICATION Spec
CONSTANTS
  source1 = source1
  source2 = source2
  made = made
  mapped = mapped
  anyOf = anyOf
  innerBind = innerBind
  outerBind = outerBind
  allOf = allOf
  allOfNone = allOfNone
  val1 = val1
  val2 = val2
  Program <- AProgram
  Kind <- Kinds
  Args <- AllArgs
  Func <- Maps
  BindTo <- Bindings
  Type <- Types
  Errors = {Rejected, IOError}
  NoResult = NoResult
  NoTask = NoTask
INVARIANTS TypeOK CallbacksConserved ResultsJustified
PROPERTIES ResultsStay DeterminedTasksResolve
