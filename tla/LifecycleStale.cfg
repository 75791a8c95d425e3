SPECIFICATION Spec
CONSTANTS
  Commands = {c1, c2}
  Daemons = {d1, d2}
  NoOne = NoOne
  MaxConfig = 1
  MaxFaults = 0
INVARIANTS ConfigurationInForce
