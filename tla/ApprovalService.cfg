SPECIFICATION FairSpec
CONSTANTS
  Service = service
  Ticks = {}
  Users = {u1, u2}
  MaxHead = 2
  MaxFaults = 1
INVARIANTS TypeOK MergedWasApproved
PROPERTIES QueuedOnlyAtGate RejectionFinal DecisionLeavesRow
