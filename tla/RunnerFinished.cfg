SPECIFICATION Spec
CONSTANTS
  MaxHead = 1
  MaxRuns = 1
  MaxTurns = 1
  MaxPosts = 1
  MaxFaults = 0
  WorktreeInArgv = FALSE
  KillsInWindow = FALSE
  Endings = {"merged", "closed"}
PROPERTIES FinishedKept
CHECK_DEADLOCK FALSE
