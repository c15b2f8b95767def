\* The second role creates a file at the path the first one reported at.
CONSTANTS
  e1 = e1
  e2 = e2
  p1 = p1
  c1 = c1
  c2 = c2
  code = code
  fresh = fresh
  namesake = namesake
  report1 = report1
  report2 = report2
  NoExec = NoExec
  Governance = governance
  Executions = {e1, e2}
  Projects = {p1}
  Commits = {c1, c2}
  Files = {code, report1, report2}
  ProjectOf <- OneProject
  BaseOf <- TwoBases
  DeliverableOf <- OwnDeliverable
  HomeOf <- OneHome
  DefaultBranch = {c1}
  TrackedAt <- SomeTracked
  IgnoredAt <- NoneIgnored
  Hides <- ByPath
  Canonical = TRUE
  Renderings <- SomeRenderings
  BaseConfigs <- SomeBases
  BaseNamed = TRUE
  WritesOf <- CrossedWrites
  PatchMode = {e1, e2}
  MaxTakes <- OnceEach
  MaxCrashes = 0
SPECIFICATION Spec
INVARIANT UntrackedAreCaptured
CHECK_DEADLOCK FALSE
