\* Two executions of one project, one offered twice, the other asked for a patch, one crash.
CONSTANTS
  e1 = e1
  e2 = e2
  p1 = p1
  c1 = c1
  c2 = c2
  code = code
  fresh = fresh
  namesake = namesake
  report1 = report1
  report2 = report2
  NoExec = NoExec
  Governance = governance
  Executions = {e1, e2}
  Projects = {p1}
  Commits = {c1, c2}
  Files = {code, fresh, namesake, report1, report2}
  ProjectOf <- OneProject
  BaseOf <- TwoBases
  DeliverableOf <- OwnDeliverable
  HomeOf <- OneHome
  DefaultBranch = {c1}
  TrackedAt <- SomeTracked
  IgnoredAt <- CodeIgnored
  Hides <- ByName
  Canonical = TRUE
  Renderings <- SomeRenderings
  BaseConfigs <- SomeBases
  BaseNamed = TRUE
  WritesOf <- OwnWrites
  PatchMode = {e2}
  MaxTakes <- TwiceAndOnce
  MaxCrashes = 1
SPECIFICATION Spec
INVARIANT TypeOK
INVARIANT PatchHasRolesWork
INVARIANT PatchLeavesOutBookkeeping
INVARIANT MirrorKnowsDefault
INVARIANT RegistrationsMatch
INVARIANT PublishedIsUsable
INVARIANT ClientReadsOwnConfig
PROPERTY OthersUndisturbed
PROPERTY ImplementsHoldings
CHECK_DEADLOCK FALSE
