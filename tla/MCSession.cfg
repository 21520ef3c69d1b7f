CONSTANTS
  Capacity = 3
  MaxTasks = 2
  MaxCalls = 2
  MaxModes = 3
  MaxStops = 1
SPECIFICATION Spec
INVARIANTS
  OneRunAtATime
  ModeShownIsInForce
  RecordsMatch
  OutcomesMatch
  FinishIsHeard
CHECK_DEADLOCK FALSE
