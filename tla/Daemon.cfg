SPECIFICATION FairSpec
CONSTANTS
  Boot = Boot
  Controller = {k1}
  Registrar = {Boot, k1}
  MaxAccounts = 7
  MaxFaults = 2
  ApiHosts <- Apis
  API_FALLBACK_IPS <- Fallbacks
  Networks <- Nets
  Client = {c1}
  Host = {far, local}
  Loopback = {local}
  NoHost = NoHost
  Requests <- Calls
  MaxCalls = 1
  UsizeMax = 7
  MIN_ROTATE_SECS = 60
  Absent = Absent
  NumAccounts = 2
  Http2 = FALSE
INVARIANTS TypeOK OwnAccount PersistedPool FewOrphans
PROPERTIES SavedForGood ComesUp Answered Released ServiceSpec
CHECK_DEADLOCK FALSE
