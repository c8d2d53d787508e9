SPECIFICATION Spec
CONSTANTS
  MaxId = 3
  Account = {a1, a2, a3}
  Corrupt = {}
  Tunnel = {t1}
  MaxFetches = 1
  Pickers = {}
  Status = {200}
  None = None
  Client = {c1, c2}
  Boot = Boot
  Rotator = Rotator
  Calls <- MemberCalls
  Droppable = FALSE
  NumConfigs = 1
  MinRotateSecs = 60
  Intervals = {0, 10}
  Laps = 6
SYMMETRY Symmetry
INVARIANTS OneBuilder DistinctIds
PROPERTY NeverEmptied
