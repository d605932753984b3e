SPECIFICATION Spec
CONSTANTS
  n1 = n1
  n2 = n2
  n3 = n3
  Name <- Names3
  Like <- Wild
  MaxDepth = 3
  MaxIno = 5
  MaxId = 4
  DbMayFail = FALSE
INVARIANT
  TreeClosed
