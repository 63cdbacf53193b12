SPECIFICATION Safety
CONSTANTS
  j1 = j1
  j2 = j2
  j3 = j3
  NumWorkers = 2
  Jobs = {j1, j2}
  NoJob = NoJob
  BlocksOn <- NoneBlocks
INVARIANT StealsFromLiveWorkers
