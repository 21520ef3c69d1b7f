SPECIFICATION Spec
CONSTANTS
  PipeSize = 2
  MaxOutput = 2
  MaxWrites = 3
  Project <- SmallProject
  Root = "root"
  Files = {"a", "big", "b", "c", "t"}
  MaxHits = 2
  Excluded = {"target"}
  Oversized = {"big"}
  MaxMatches = 3
INVARIANTS
  OutputWholeOrCut
  NoShellLeftBehind
  CutIsTold
PROPERTIES
  ToolsComeBack
CHECK_DEADLOCK FALSE
