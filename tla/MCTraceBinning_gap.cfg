SPECIFICATION Spec
CONSTANTS
  PhaseSize = 3
  LeafNodes = 2
  Tick = 2
  MaxPhases = 4
  RowWidth = 12
  Word = 256
  WindowSizes = {1}
  MaxStatistics = 24
  Traces <- GapTraces
  Garbage = {0, 9, 200}
INVARIANT BinnedInLocalPhase
CHECK_DEADLOCK FALSE
