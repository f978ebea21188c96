CONSTANTS
  Worker = {w1, w2}
  Request = {r1, r2}
  MaxCalls = 2
  MaxCrashes = 1
  NULL = NULL
SPECIFICATION FairSpec
INVARIANT MetadataPinned
INVARIANT RepliesInStep
PROPERTY MetadataFreed
PROPERTY CallsAnswered
PROPERTY StopTerminates
CHECK_DEADLOCK FALSE
