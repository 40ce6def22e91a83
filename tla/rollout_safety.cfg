CONSTANTS
  n1 = n1
  n2 = n2
  c1 = c1
  NoCommit = NoCommit
  Nodes = {n1, n2}
  Commits = {c1}
  Limit = 20
  MaxFaults = 1
  WindowsNodes = {}
  GrpcNodes = {}
  ThresholdNum = 1
  ThresholdDen = 2
SPECIFICATION Spec
SYMMETRY Symmetry
INVARIANTS TypeOK CommitMeansApplied RollbackReachesEveryTarget CommittedIsUndisturbed RolloutInvariant
PROPERTIES AnsweredRowsAreFinal ImplementsAtomicRollout
CHECK_DEADLOCK FALSE
