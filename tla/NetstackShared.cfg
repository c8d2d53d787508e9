SPECIFICATION Spec
CONSTANTS
  Conn = {c1, c2}
  Fetcher = {c2}
  Literal = {c1, c2}
  Losable = FALSE
  MaxSlot = 2
  ChanDepth = 1
  BufSize = 1
  MaxOut = 0
  MaxIn = 2
  None = None
CHECK_DEADLOCK FALSE
SYMMETRY Symmetry
INVARIANTS TypeOK ReadInOrder
