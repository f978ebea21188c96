CONSTANTS
  t1 = t1
  t2 = t2
  Token = {t1, t2}
  NumWorkers <- MCNumWorkers
  MaxDeaths = 1
  NULL = NULL
SPECIFICATION FairSpec
INVARIANT NoOrphans
INVARIANT DeletedMeansGone
PROPERTY PoolRefilled
PROPERTY KillTerminates
CHECK_DEADLOCK FALSE
