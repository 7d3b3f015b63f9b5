SPECIFICATION FairWorkerSpec
CONSTANTS
  None = None
  MaxOrders = 2
  PageSize = 1
  MaxFaults = 0
PROPERTIES
  EveryOrderIsFinished
