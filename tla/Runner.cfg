SPECIFICATION FairSpec
CONSTANTS
  MaxHead = 2
  MaxRuns = 1
  MaxTurns = 3
  MaxPosts = 2
  MaxFaults = 1
  WorktreeInArgv = TRUE
  KillsInWindow = FALSE
  Endings = {"merged"}
INVARIANTS TypeOK OneDriver VerdictPosted PromptOnce
PROPERTIES VerdictStands WorktreeKept NothingHangs
CHECK_DEADLOCK FALSE
