SPECIFICATION PipelineSpec
CONSTANTS
  Procs = {p1}
  Addresses = {a1, a2}
  Burst = 2
  MaxIdle = 2
  Interval = 1
  MaxWindow = 5
INVARIANTS
  GaugeIsExact
  StatusIsRecorded
  LimiterInv
  RateIsBounded
PROPERTIES
  EveryRequestIsAnswered
  IdleClientsAreForgotten
  ImplementsTokenBuckets
