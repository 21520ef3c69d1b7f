CONSTANTS
  Files = {"api", "low", "util", "out"}
  Dirs = {"root", "src", "deep", "target"}
  Root = "root"
  Parent <- MCParent
  Above <- MCAbove
  PathOrder <- MCPathOrder
  TextOrder <- MCTextOrder
  Excluded = {"target"}
  Depths = {1, 2}
  Counts = {1, 2, 4}
  MaxFileBytes = 16
  MaxFileTokens = 3
  MarkerLen = 2
  Budgets = {9, 16}
  Sizes = {4, 14, 17}
  Scores = {0, 10}
  MaxChanges = 1
SPECIFICATION Spec
INVARIANTS
  MapTellsItsCut
  WithinShare
  BestFirst
CHECK_DEADLOCK FALSE
