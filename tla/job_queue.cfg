SPECIFICATION Spec
CONSTANTS
  Threads = {t1, t2, t3}
  Jobs = {j1, j2, j3, j4, j5, j6}
  NoJob = NoJob
  Nobody = Nobody
  BaseSize = 3
SYMMETRY Symmetry
INVARIANTS TypeOK SizeCountsJobs SlotsHoldJobs
PROPERTY ImplementsFifoQueue
