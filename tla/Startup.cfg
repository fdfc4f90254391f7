SPECIFICATION Spec
CONSTANT MaxCaptures = 2
INVARIANTS
  SimulatesAsConfigured
CHECK_DEADLOCK FALSE
