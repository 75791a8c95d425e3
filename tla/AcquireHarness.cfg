SPECIFICATION Spec
CONSTANTS
  Procs = {p1, p2}
  Items = {"i1", "i2"}
  Projects = {"A"}
  Sessions = {s1, s2, s3}
  Native = {}
  Shadow = {}
  Models = {"m1"}
  Harnesses = {"h1"}
  Lanes = {"laneA"}
  ProjectOf <- OneProject
  HarnessLimit <- HarnessOne
  ModelLimit <- ModelMany
  Nobody = Nobody
  NoKey = NoKey
  NoResv = NoResv
  Unborn = Unborn
  Logins = {"login"}
  LoginOf <- SharedLogin
  HarnessOf <- HarnessPerModel
  HomeLane <- HomeOf
  KnownLanes <- AllKnown
  Pool <- MixedPool
  LaneLimit <- LaneDiffers
SYMMETRY Alike
INVARIANTS TypeOK OneWorkerPerItem EveryWorkerReserved HarnessCapacityKept
PROPERTIES UncertainSpawnKept ImplementsPool
