CONSTANTS
  Operators = {"operator"}
  Grants = {1}
  Weights = {70, 90}
  MaxRequests = 2
  MaxSignals = 1
  MaxFaults = 1
SPECIFICATION Spec
INVARIANTS TypeOK QuarantineDenies EndedGrantsStayEnded IsolationFollowsLastOrder RotationsDoNotPileUp
CHECK_DEADLOCK FALSE
