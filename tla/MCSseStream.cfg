CONSTANTS
  Lines = 3
  Buffer = 2
SPECIFICATION FairSpec
INVARIANTS
  TextInOrder
  WholeAnswer
PROPERTY BothEnd
CHECK_DEADLOCK FALSE
