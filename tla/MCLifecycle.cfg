SPECIFICATION Spec
CONSTANTS
  MaxAttempts = 5
  MaxSignals = 4
  MaxLaunches = 2
INVARIANTS
  TypeOK
  CleanReturnLeavesNothing
  ReadyIsHonest
PROPERTIES
  AlarmEndsMount
  TermHonoured
  UnmountEndsProcess
  WedgeNoticed
CHECK_DEADLOCK FALSE
