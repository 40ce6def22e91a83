CONSTANTS
  Checkers = {"worker", "request"}
  Servers = {1, 2}
  MaxChanges = 2
  MaxFaults = 1
  MaxQueue = 2
SPECIFICATION FairSpec
INVARIANTS TypeOK InSyncIsReal
PROPERTIES RoutesRegressOnlyAfterRestart 
CHECK_DEADLOCK FALSE
