CONSTANTS
  n1 = n1
  c1 = c1
  c2 = c2
  NoCommit = NoCommit
  Nodes = {n1}
  Commits = {c1, c2}
  Limit = 20
  MaxFaults = 0
  WindowsNodes = {}
  GrpcNodes = {}
  ThresholdNum = 0
  ThresholdDen = 1
SPECIFICATION Spec
INVARIANT CommittedRulesAreLive
CHECK_DEADLOCK FALSE
