SPECIFICATION Spec
CONSTANTS
  Conn = {c1, c2}
  Fetcher = {}
  Literal = {c1, c2}
  Losable = FALSE
  MaxSlot = 2
  ChanDepth = 1
  BufSize = 1
  MaxOut = 1
  MaxIn = 1
  None = None
CHECK_DEADLOCK FALSE
SYMMETRY Symmetry
INVARIANT OwnCommandsOnly
