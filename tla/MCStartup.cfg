SPECIFICATION StartupSpec
CONSTANTS
  Unreadable = Unreadable
  Processes = {"p", "q"}
  Projects <- SmallProjects
  Additions <- SmallAdditions
  ReplayLimit = 1
  MaxSessions = 2
  MaxMessages = 2
  MaxKills = 1
PROPERTIES
  ReplayIsTheLastRun
  AdviceEndsOnline
