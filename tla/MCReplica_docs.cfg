SPECIFICATION Spec
CONSTANTS
  TTL = 2
  MaxCommits = 1
  MaxStops = 1
  MayPromote = FALSE
PROPERTY
  AStandbyPromiseHolds
