SPECIFICATION HistorySpec
CONSTANTS
  MaxId = 2
  Account = {a1, a2}
  Corrupt = {}
  Tunnel = {t1, t2}
  MaxFetches = 1
  Status = {200}
  None = None
  Client = {c1, c2}
  Boot = Boot
  Rotator = Rotator
  Calls <- PickCalls
  Droppable = FALSE
  NumConfigs = 2
  MinRotateSecs = 60
  Intervals = {0, 10}
  Laps = 2
  Pickers = {c1}
SYMMETRY Symmetry
INVARIANTS RefusedOnlyIfNoneReady PinIsHonoured
