SPECIFICATION Spec
CONSTANTS
  PhaseSize = 3
  LeafNodes = 2
  Tick = 2
  MaxPhases = 4
  RowWidth = 12
  Word = 256
  WindowSizes = {0, 1}
  MaxStatistics = 24
  Traces <- Captures
  Garbage = {0, 9, 200}
INVARIANTS
  TypeOK
  WellFormedNeverFaults
  TableTilesTheTrace
  MatchedIsLocal
  NeverBinnedAhead
  FlowTotals
PROPERTY BoundsFrozen
CHECK_DEADLOCK FALSE
