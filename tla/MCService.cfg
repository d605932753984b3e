SPECIFICATION Spec
CONSTANTS
  Names = {1, 2, 3}
  MaxPage = 3
  Op = {"create", "unlink", "readdir"}
  HISTO_THRESHOLDS <- MCThresholds
  Durations = {10, 100, 101}
  MaxCalls = 4
VIEW NoOps
INVARIANTS
  TypeOK
  ScanComplete
  RepeatsBounded
  PercentileClose
  OneSamplePerCall
