CONSTANTS
  Drives = {d1, d2}
  MaxQueue = 3
  InitialMode = "Autonomous"
  MaxModes = 4
  MaxStops = 1
  MaxRestarts = 1
SPECIFICATION FairSpec
INVARIANTS
  LandsWithinOneTask
  IdleMeansDrained
  CompletedCountsRuns
PROPERTY DrivesEnd
CHECK_DEADLOCK FALSE
