CONSTANTS
  Operators = {"operator"}
  Grants = {1}
  Weights = {70}
  MaxRequests = 2
  MaxSignals = 1
  MaxFaults = 0
SPECIFICATION FairSpec
PROPERTIES RestoreTakesEffect
CHECK_DEADLOCK FALSE
