CONSTANTS
  UserConfig <- MCEditAllowed
  MaxQuestions = 2
  MaxLocals = 2
  MaxTasks = 2
  MaxModes = 4
SPECIFICATION Spec
INVARIANTS
  TypeOK
  EachYesSpentOnce
  NoConsentLeftOver
CHECK_DEADLOCK FALSE
