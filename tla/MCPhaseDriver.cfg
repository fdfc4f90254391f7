SPECIFICATION FairSpec
CONSTANTS
  NumPhases = 4
  NumFlows = 2
  LeafNodes = 4
  Demands <- FewDemands
  Latencies = {3}
  Topologies = {"-s", "-f", "-d", "other"}
  Scale = 100
  CosMin = 240
  CompareMin = 50
  CompareMax = 150
INVARIANTS
  TypeOK
  EveryPhaseSimulated
PROPERTY EventuallyReported
CHECK_DEADLOCK FALSE
