CONSTANTS
  Peers = 2
  Target = 1
  MaxEvents = 2
  MaxRestarts = 1
  MaxFailures = 1
SPECIFICATION Spec
INVARIANTS SuccessEarned FailureDeserved SuccessReportsMinimum
CHECK_DEADLOCK FALSE
