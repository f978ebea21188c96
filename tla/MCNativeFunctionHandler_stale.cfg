CONSTANTS
  Worker = {w1}
  Request = {r1, r2}
  MaxCalls = 2
  MaxCrashes = 1
  NULL = NULL
SPECIFICATION Spec
INVARIANT RepliesMatch
CHECK_DEADLOCK FALSE
