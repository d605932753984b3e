SPECIFICATION Spec
CONSTANTS
  BS = 2
  LastBlock = 2
  Cell <- MCCell
  Data <- MCData
  Sizes <- AllSizes
  Lens = {2, 6}
INVARIANTS
  TypeOK
  NoHiddenTail
PROPERTIES
  PosixUntilRowKept
  ImplementsWeakFile
