SPECIFICATION Spec
CONSTANTS
  PhaseSize = 3
  LeafNodes = 4
  Tick = 2
  MaxPhases = 4
  RowWidth = 24
  Word = 256
  WindowSizes = {1}
  MaxStatistics = 24
  Traces <- SshTraces
  Garbage = {0, 9, 200}
INVARIANT CaptureIsProcessed
CHECK_DEADLOCK FALSE
