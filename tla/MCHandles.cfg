SPECIFICATION MCSpec
CONSTANTS
  k1 = k1
  k2 = k2
  BS = 2
  LastBlock = 1
  Cell <- MCCell
  Key <- TwoKeys
  Writes <- AllWrites
  Sizes = {1}
  Reads <- ReadParts
  MaxIno = 3
  MaxFh = 4
  MaxWrites = 4
  MaxFail = 1
  MaxOpen = 3
  NameOpsOnOpenFiles = TRUE
VIEW ReplyOnlyTidy
SYMMETRY KeySymmetry
INVARIANTS
  TypeOK
  BufferHoldsPending
  BufferBelowMaxSize
  ByInoIsOpenHere
  TidyFilesArePosix
  TidyReadsSeeWrites
  TidyLeavesNoOrphans
PROPERTIES
  FlushLands
  SizeShrinksOnlyBySetattr
CHECK_DEADLOCK FALSE
