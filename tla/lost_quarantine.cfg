CONSTANTS
  Operators = {"operator"}
  Grants = {1}
  Weights = {70}
  MaxRequests = 1
  MaxSignals = 1
  MaxFaults = 0
SPECIFICATION Spec
PROPERTIES CompromisedUntilRestored
CHECK_DEADLOCK FALSE
