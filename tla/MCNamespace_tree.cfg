SPECIFICATION Spec
CONSTANTS
  n1 = n1
  n2 = n2
  n3 = n3
  Name <- Names2
  Like <- Exact
  MaxDepth = 3
  MaxIno = 5
  MaxId = 3
  DbMayFail = TRUE
VIEW LiveView
SYMMETRY NameSymmetry
INVARIANTS
  TypeOK
  MapsAgree
  KnownInodeResolves
  TreeClosed
  BlocksFollowEntries
  InodeNeverReused
