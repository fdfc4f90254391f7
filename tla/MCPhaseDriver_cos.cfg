SPECIFICATION Spec
CONSTANTS
  NumPhases = 3
  NumFlows = 2
  LeafNodes = 4
  Demands <- SmallDemands
  Latencies = {3, 5}
  Topologies = {"-s", "-f"}
  Scale = 100
  CosMin = 240
  CompareMin = 50
  CompareMax = 150
INVARIANT CosIsOfThisPair
CHECK_DEADLOCK FALSE
