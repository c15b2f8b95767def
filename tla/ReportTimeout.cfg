\* Responses may be lost; nothing else goes wrong.
CONSTANTS
  e1 = e1
  e2 = e2
  a1 = a1
  NoExec = NoExec
  Executions = {e1}
  Sessions = {e1}
  SessionOf <- OwnSession
  LongerNames <- NoneLonger
  Aliases = {a1}
  AliasOf <- OneAlias
  Roleless = {}
  Environment = {"timeout"}
  Offerable = {"offered"}
  MaxCrashes = 0
SPECIFICATION SafeSpec
PROPERTY EveryPathCleansUp
