SPECIFICATION FairSpec
CONSTANTS
  Keys = {k1, k2}
  None = None
  WaitMax = 99
  MaxStores = 3
  MaxSize = 1
  MaxChains = 3
INVARIANTS LastWriteWins WaitingCovered
PROPERTIES RestartKeeps QueueSaved
