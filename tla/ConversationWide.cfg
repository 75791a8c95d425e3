SPECIFICATION Spec
CONSTANTS
  Convs = {c1, c2, c3, c4}
  First = c1
  Nobody = Nobody
  MaxFaults = 1
  Switches = {s1, s2}
  Manual = {}
  Accounts = {a1, a2}
  Default = a1
  Gates = {g1}
  Dispatchers = {c1}
INVARIANTS TypeOK WorkerOnBoundAccount
PROPERTIES NoticesDelivered SwitchUndisturbed
CHECK_DEADLOCK FALSE
