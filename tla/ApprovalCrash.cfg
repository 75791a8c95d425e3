SPECIFICATION FairSpec
CONSTANTS
  Service = service
  Ticks = {}
  Users = {u1}
  MaxHead = 2
  MaxFaults = 1
PROPERTIES MergeIsCompleted
