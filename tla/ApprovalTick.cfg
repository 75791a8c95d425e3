SPECIFICATION Spec
CONSTANTS
  Service = service
  Ticks = {t1}
  Users = {u1}
  MaxHead = 2
  MaxFaults = 0
INVARIANTS MergedWasApproved
