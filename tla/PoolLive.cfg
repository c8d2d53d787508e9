SPECIFICATION FairSpec
CONSTANTS
  MaxId = 1
  Account = {a1, a2}
  Corrupt = {}
  Tunnel = {t1, t2}
  MaxFetches = 1
  Pickers = {}
  Status = {200}
  None = None
  Client = {c1}
  Boot = Boot
  Rotator = Rotator
  Calls <- LiveCalls
  Droppable = FALSE
  NumConfigs = 1
  MinRotateSecs = 60
  Intervals = {0, 10}
  Laps = 1
INVARIANTS TypeOK StaleTunnelHasRebuild ServedTunnelIsWatched
PROPERTIES AutoReconnect RequestsTakeEffect
