CONSTANTS
  OobCalls = {1}
  Contents = {1}
  MaxSnapshots = 1
  MaxOobFaults = 0
SPECIFICATION OobSpec
INVARIANTS RollbackIsConfirmed
CHECK_DEADLOCK FALSE
