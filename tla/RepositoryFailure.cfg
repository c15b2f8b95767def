\* Nothing but the ordinary failures of the steps.
CONSTANTS
  e1 = e1
  e2 = e2
  a1 = a1
  NoExec = NoExec
  Executions = {e1}
  Sessions = {e1}
  SessionOf <- OwnSession
  LongerNames <- NoneLonger
  Aliases = {a1}
  AliasOf <- OneAlias
  Roleless = {}
  Environment = {}
  Offerable = {"offered"}
  MaxCrashes = 0
SPECIFICATION SafeSpec
PROPERTY FailureNamesItsStep
