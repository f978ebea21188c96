SPECIFICATION FairSpec
CONSTANTS
  Worker = {w1, w2}
  Version = {v1, v2}
  Request = {r1, r2}
  BadVersion = {v1}
  Invalid = {v2, r2}
  MaxPending = 1
  MaxCrashes = 1
  ReloadMayCrash = TRUE
  RestartMayFail = TRUE
  NULL = NULL
PROPERTIES
  CalledBackOnce
  AllReported
  StopTerminates
