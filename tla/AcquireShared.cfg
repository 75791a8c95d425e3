SPECIFICATION Spec
CONSTANTS
  Procs = {p1, p2}
  Items = {"i1", "i2"}
  Projects = {"A", "B"}
  Sessions = {s1, s2}
  Native = {}
  Shadow = {}
  Models = {"m1", "m2"}
  Harnesses = {"h1", "h2"}
  Lanes = {"laneA", "laneB"}
  ProjectOf <- TwoProjects
  HarnessLimit <- HarnessMany
  ModelLimit <- ModelDiffers
  Nobody = Nobody
  NoKey = NoKey
  NoResv = NoResv
  Unborn = Unborn
  Logins = {"login"}
  LoginOf <- SharedLogin
  HarnessOf <- HarnessPerModel
  HomeLane <- HomeOf
  KnownLanes <- AllKnown
  Pool <- MixedPool
  LaneLimit <- LaneDiffers
SYMMETRY Alike
INVARIANTS ModelCapacityKept LoginCapacityKept
