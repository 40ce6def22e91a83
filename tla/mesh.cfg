CONSTANTS
  Hosts = {1, 2, 3}
  Calls = {1, 2}
  PoolSize = 3
  MaxKeys = 3
  MaxAttempts = 2
  MaxFaults = 1
SPECIFICATION Spec
INVARIANTS
  TypeOK
  LeasesAreDistinct
  EnrolmentIsAtomic
  
  KeysAgree
CHECK_DEADLOCK FALSE
