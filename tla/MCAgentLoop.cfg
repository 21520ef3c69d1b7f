CONSTANTS
  MaxIterations = 3
  MaxToolCalls = 3
  MaxRetries = 1
  Permissions <- MCPermissions
  Files = {"a", "b"}
  MaxBatch = 2
  MaxRuns = 2
  MaxCancels = 1
SPECIFICATION FairSpec
INVARIANTS
  BudgetsHold
  CancelWithinOneIteration
  ResultReportsEdits
  EditsConsented
PROPERTIES
  LegalStates
  RunEnds
CHECK_DEADLOCK FALSE
