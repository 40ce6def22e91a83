CONSTANTS
  n1 = n1
  c1 = c1
  NoCommit = NoCommit
  Nodes = {n1}
  Commits = {c1}
  Limit = 20
  MaxFaults = 0
  WindowsNodes = {}
  GrpcNodes = {}
  ThresholdNum = 0
  ThresholdDen = 1
SPECIFICATION Spec
PROPERTY FailedAnswersAreSeen
CHECK_DEADLOCK FALSE
