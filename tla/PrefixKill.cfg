\* The first session's name is the beginning of the second's.
CONSTANTS
  e1 = e1
  e2 = e2
  NoExec = NoExec
  Executions = {e1, e2}
  Characters <- SomeCharacters
  Dash = "-"
  IdOf <- SomeIds
  RoleOf <- OneRole
  ShortLength = 3
  HandoffLines = 3
  MaxTakes = 1
  MaxCrashes = 0
SPECIFICATION Spec
PROPERTY KillsOwn
CHECK_DEADLOCK FALSE
