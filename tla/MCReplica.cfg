SPECIFICATION MCSpec
CONSTANTS
  TTL = 2
  MaxCommits = 3
  MaxStops = 1
  MayPromote = TRUE
INVARIANTS
  TypeOK
  FreshVerdictHolds
  BoundedStaleness
PROPERTIES
  SourceAdapts
  ErrorsEnd
