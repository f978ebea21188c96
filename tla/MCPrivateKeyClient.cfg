SPECIFICATION FairSpec
CONSTANTS
  EndpointCount = 2
  KeyId = {1, 2}
  Scenario <- ListScenarios
  NULL = NULL
INVARIANTS
  FinishedOnce
  SuccessSound
  SuccessComplete
  FailureJustified
PROPERTY ListAnswered
