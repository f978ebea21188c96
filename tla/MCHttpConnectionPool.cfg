CONSTANTS
  Call = {r1, r2}
  Sizes = {1, 2}
  MaxConnections = 2
  MaxErrors = 1
  NULL = NULL
SPECIFICATION FairSpec
INVARIANT FinishedOnce
INVARIANT RecycledOncePerDrop
INVARIANT StopAnswersAll
PROPERTY TakenCallsFinish
PROPERTY StopTerminates
CHECK_DEADLOCK FALSE
