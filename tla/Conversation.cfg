SPECIFICATION FairSpec
CONSTANTS
  Convs = {c1, c2, c3, c4}
  First = c1
  Nobody = Nobody
  MaxFaults = 1
  Switches = {s1, m1}
  Manual = {m1}
  Accounts = {a1, a2}
  Default = a1
  Gates = {g1}
  Dispatchers = {c1}
INVARIANTS TypeOK WorkerOnBoundAccount
PROPERTIES NoticesDelivered SwitchUndisturbed WaitEnds Informed
CHECK_DEADLOCK FALSE
