SPECIFICATION Spec
CONSTANTS
  a = a
  b = b
  Shells = {a, b}
  MaxVms = 3
  MaxNodes = 2
  DefaultVms = 2
  Menus <- Orders
  MaxReboots = 1
INVARIANTS
  VmCommandsDeliver
  ContainersComplete
  CaptureIsWhole
  CapturesEndWithSessions
CHECK_DEADLOCK FALSE
