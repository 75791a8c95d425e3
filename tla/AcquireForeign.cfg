SPECIFICATION FairSpec
CONSTANTS
  Procs = {p1, p2}
  Items = {"i1"}
  Projects = {"A"}
  Sessions = {s1, s3}
  Native = {s3}
  Shadow = {p2}
  Models = {"m1", "m2"}
  Harnesses = {"h1", "h2"}
  Lanes = {"laneA"}
  ProjectOf <- OneProject
  HarnessLimit <- HarnessMany
  ModelLimit <- ModelMany
  Nobody = Nobody
  NoKey = NoKey
  NoResv = NoResv
  Unborn = Unborn
  Logins = {"login"}
  LoginOf <- SharedLogin
  HarnessOf <- HarnessPerModel
  HomeLane <- HomeOf
  KnownLanes <- AllKnown
  Pool <- MixedPool
  LaneLimit <- LaneDiffers
PROPERTIES KnownWorkerKept ShadowLeavesRunnerAlone GlobalLockReleased
