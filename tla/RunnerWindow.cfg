SPECIFICATION Spec
CONSTANTS
  MaxHead = 2
  MaxRuns = 1
  MaxTurns = 2
  MaxPosts = 2
  MaxFaults = 1
  WorktreeInArgv = FALSE
  KillsInWindow = TRUE
  Endings = {"merged"}
INVARIANTS TypeOK OneDriver VerdictPosted PromptOnce
PROPERTIES VerdictStands WorktreeKept
CHECK_DEADLOCK FALSE
