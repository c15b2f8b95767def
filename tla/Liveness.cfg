\* Everything may happen; e2 names no role, and its session name begins with e1's.
CONSTANTS
  e1 = e1
  e2 = e2
  a1 = a1
  NoExec = NoExec
  Executions = {e1, e2}
  Sessions = {e1, e2}
  SessionOf <- OwnSession
  LongerNames <- SecondLonger
  Aliases = {a1}
  AliasOf <- OneAlias
  Roleless = {e2}
  Environment = {"unreachable", "gateway", "empty", "timeout", "unexpected", "crash", "withdraw", "expire", "role", "exit"}
  Offerable = {"offered"}
  MaxCrashes = 1
SPECIFICATION Spec
PROPERTY UnreportedOnlyWhen
PROPERTY UncleanedOnlyWhen
PROPERTY PutDownUnlessStuck
PROPERTY ImplementsRoleLiveness
