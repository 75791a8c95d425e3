SPECIFICATION Spec
CONSTANTS
  MaxHead = 2
  MaxRuns = 2
  MaxTurns = 3
  MaxPosts = 2
  MaxFaults = 1
  WorktreeInArgv = FALSE
  KillsInWindow = FALSE
  Endings = {"merged"}
INVARIANTS TypeOK OneDriver VerdictPosted PromptOnce
PROPERTIES VerdictStands WorktreeKept
CHECK_DEADLOCK FALSE
