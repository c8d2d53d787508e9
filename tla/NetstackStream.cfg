SPECIFICATION FairSpec
CONSTANTS
  Conn = {c1}
  Fetcher = {}
  Literal = {}
  Losable = TRUE
  MaxSlot = 1
  ChanDepth = 1
  BufSize = 1
  MaxOut = 2
  MaxIn = 2
  None = None
CHECK_DEADLOCK FALSE
INVARIANT DrainedBeforeFin
PROPERTIES WritesArrive ResetEndsRelay ConnectAnswered ResolveAnswered ActorExits
