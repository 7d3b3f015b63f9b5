SPECIFICATION FairServerSpec
CONSTANTS
  Connections = {c1, c2}
  ReadTimeout = 5
  WriteTimeout = 10
  MaxWork = 7
  Grace = 10
INVARIANTS
  ServerInv
  DatabaseOutlivesRequests
  PromptRequestsAreAnswered
PROPERTIES
  EndsOnceStopped
CHECK_DEADLOCK FALSE
