\* Two executions with related session names, each taken up twice, one crash.
CONSTANTS
  e1 = e1
  e2 = e2
  NoExec = NoExec
  Executions = {e1, e2}
  Characters <- SomeCharacters
  Dash = "-"
  IdOf <- SomeIds
  RoleOf <- OneRole
  ShortLength = 3
  HandoffLines = 3
  MaxTakes = 2
  MaxCrashes = 1
SPECIFICATION Spec
INVARIANT TypeOK
INVARIANT OwnLinesInOrder
INVARIANT HandoffMeetsClient
INVARIANT LeftoversAreKnown
PROPERTY ApartKillsOwn
CHECK_DEADLOCK FALSE
