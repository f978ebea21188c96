SPECIFICATION Spec
CONSTANTS
  Worker = {w1, w2}
  Version = {v1, v2}
  Request = {r1, r2}
  BadVersion = {}
  Invalid = {}
  MaxPending = 2
  MaxCrashes = 1
  ReloadMayCrash = FALSE
  RestartMayFail = TRUE
  NULL = NULL
SYMMETRY Interchangeable
INVARIANTS
  OneOwner
  LoadedBeforeRun
