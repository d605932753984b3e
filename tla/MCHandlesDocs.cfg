SPECIFICATION MCSpec
CONSTANTS
  BS = 2
  LastBlock = 1
  Cell <- MCCell
  Key <- OneKey
  Writes <- PartAndWhole
  Sizes = {2, 4}
  Reads <- ReadAll
  MaxIno = 2
  MaxFh = 2
  MaxWrites = 3
  MaxFail = 1
  MaxOpen = 1
  NameOpsOnOpenFiles = FALSE
INVARIANT
  AFilePromiseHolds
CHECK_DEADLOCK FALSE
