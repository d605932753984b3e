SPECIFICATION Spec
CONSTANTS
  MaxAttempts = 5
  MaxSignals = 1
  MaxLaunches = 1
PROPERTY
  TermEndsMount
CHECK_DEADLOCK FALSE
