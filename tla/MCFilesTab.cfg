SPECIFICATION FilesSpec
CONSTANTS
  Paths = {"p", "q"}
  Original <- SmallFiles
  MaxBytes = 5
  Strangers = {"s"}
  AgentMarks = {"g"}
  MaxDoings = 4
  MaxOthers = 2
INVARIANTS
  CursorInBuffer
  OnlyRacesLoseText
  CleanMeansSaved
CHECK_DEADLOCK FALSE
