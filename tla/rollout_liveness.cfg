CONSTANTS
  n1 = n1
  n2 = n2
  c1 = c1
  NoCommit = NoCommit
  Nodes = {n1, n2}
  Commits = {c1}
  Limit = 1
  MaxFaults = 1
  WindowsNodes = {n1}
  GrpcNodes = {n2}
  ThresholdNum = 1
  ThresholdDen = 2
SPECIFICATION FairSpec
PROPERTIES ApplyTerminates CommandsDrain
CHECK_DEADLOCK FALSE
