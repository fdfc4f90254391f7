SPECIFICATION Spec
CONSTANTS
  NumPhases = 4
  NumFlows = 2
  LeafNodes = 4
  Demands <- ReturningDemands
  Latencies = {3, 5}
  Topologies = {"-s", "-f"}
  Scale = 100
  CosMin = 80
  CompareMin = 50
  CompareMax = 150
INVARIANTS
  CosineBounded
  TotalsAddUp
  ArchiveIsFaithful
  QueueFiguresTraceable
PROPERTIES
  SettledIsFinal
  ImplementsEstimator
CHECK_DEADLOCK FALSE
