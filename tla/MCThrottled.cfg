SPECIFICATION FairThrottledSpec
CONSTANTS
  None = None
  MaxOrders = 2
  PageSize = 2
  MaxFaults = 1
  Burst = 2
  PollTokens = 2
INVARIANTS
  WorkerInv
  RefusedOnlyAsStale
  CountsOnlyUpdates
  ReadyMeansPublished
PROPERTIES
  EveryOrderIsFinished
