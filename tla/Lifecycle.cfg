SPECIFICATION Spec
CONSTANTS
  Commands = {c1, c2}
  Daemons = {d1, d2, d3}
  NoOne = NoOne
  MaxConfig = 1
  MaxFaults = 2
INVARIANTS TypeOK OneService ServiceFound ServiceUpToDate
