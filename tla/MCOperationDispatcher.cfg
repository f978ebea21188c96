CONSTANTS
  Op = {o1}
  Plain = {p1, p2}
  Exponential = TRUE
  DelayDuration = 1
  MaxRetryCount = 2
  QueueCap = 2
  MaxTime = 2
  NoTask = NoTask
  Task <- MCTask
SPECIFICATION FairSpec
INVARIANT NoLostWakeup
INVARIANT CancelledNeverRuns
INVARIANT OnePlace
PROPERTY RetriesInTime
PROPERTY TasksRun
PROPERTY DestructorReturns
PROPERTY OperationsFinish
CHECK_DEADLOCK FALSE
