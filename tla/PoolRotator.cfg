SPECIFICATION FairSpec
CONSTANTS
  MaxId = 2
  Account = {a1, a2, a3}
  Corrupt = {a1, a2}
  Tunnel = {t1}
  MaxFetches = 1
  Pickers = {}
  Status = {200}
  None = None
  Client = {c1}
  Boot = Boot
  Rotator = Rotator
  Calls <- RotatorCalls
  Droppable = TRUE
  NumConfigs = 2
  MinRotateSecs = 60
  Intervals = {0, 10}
  Laps = 2
PROPERTIES EveryAccountRotates RotatorExits
CHECK_DEADLOCK FALSE
