SPECIFICATION FairSpec
CONSTANTS
  Conn = {c1}
  Fetcher = {}
  Literal = {c1}
  Losable = FALSE
  MaxSlot = 1
  ChanDepth = 1
  BufSize = 1
  MaxOut = 1
  MaxIn = 1
  None = None
CHECK_DEADLOCK FALSE
PROPERTY RemoteFinIsEof
