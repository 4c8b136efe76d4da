SPECIFICATION FairSpec
CONSTANTS
  CustomBases <- MCBases
  Paths <- MCPaths
  JobName <- MCJobName
  Legs <- MCLegs
  Jobs <- MCJobs
  FlavorMaps <- MCMaps
  Defaults <- MCDefaults
  Allowlists <- MCAllowlists
  Images <- MCImages
  GoodImages <- MCGood
  good = good
  bad = bad
  Runs = {r1}
  Consoles = {c1, c2}
  Scans = {s1, s2}
  MaxFlavors = 1
  MaxReceive = 2
  Scenarios <- ControlScenarios
  None = None
  Fault = Fault
INVARIANTS
  ValidIsProven
  RegistryBounded
  AdoptNeedsOptIn
  RefusalsAreTrue
  RefusedOnlyInRotation
  LaunchedIsProven
  NoSilentBuiltin
  RoutesCurrent
  NoStrandedRewrite
  DlqNeedsCauses
PROPERTIES
  FailsOnlyOnVerdict
  NoClobber
  CommitIsClaimable
  KeepsMappedLabel
  WorkEnds
CHECK_DEADLOCK FALSE
