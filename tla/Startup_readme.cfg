SPECIFICATION Spec
CONSTANT MaxCaptures = 1
INVARIANT ReadmeCommandSimulates
CHECK_DEADLOCK FALSE
