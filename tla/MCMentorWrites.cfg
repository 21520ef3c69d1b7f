CONSTANTS
  UserConfig <- MCEditAllowed
  MaxQuestions = 1
  MaxLocals = 0
  MaxTasks = 1
  MaxModes = 0
SPECIFICATION Spec
INVARIANT MentorRevokesWrites
CHECK_DEADLOCK FALSE
