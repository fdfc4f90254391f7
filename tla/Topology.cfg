SPECIFICATION Spec
CONSTANTS
  Sizes = {4, 6, 8, 64}
INVARIANTS
  SizeDecides
  SubnetsDistinct
  FlowsFollowTheMatrix
  EachQueueProbedOnce
  Wired
CHECK_DEADLOCK FALSE
