SPECIFICATION Spec
CONSTANTS
  j1 = j1
  j2 = j2
  j3 = j3
  NumWorkers = 2
  Jobs = {j1, j2, j3}
  NoJob = NoJob
  BlocksOn <- OneBlocks
INVARIANTS TypeOK NoJobCutOff
PROPERTIES ImplementsExecutor EveryJobRuns ShutdownCompletes
