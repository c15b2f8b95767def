\* Two executions, one crash, late and empty answers, withdrawn offers, roles left alive.
CONSTANTS
  e1 = e1
  e2 = e2
  a1 = a1
  NoExec = NoExec
  Executions = {e1, e2}
  Sessions = {e1, e2}
  SessionOf <- OwnSession
  LongerNames <- NoneLonger
  Aliases = {a1}
  AliasOf <- OneAlias
  Roleless = {}
  Environment = {"gateway", "empty", "timeout", "unexpected", "crash", "withdraw", "role"}
  Offerable = {"offered"}
  MaxCrashes = 1
SYMMETRY Symmetry
SPECIFICATION SafeSpec
INVARIANT TypeOK
INVARIANT CachesMirrorFather
INVARIANT NoWorkWithoutClaim
INVARIANT CompletedMeansRan
INVARIANT NeverContradictsAcknowledgement
INVARIANT FullCleanupLeavesNothing
PROPERTY ImplementsHoldings
PROPERTY ReleaseAfterDurableReport
PROPERTY CleanupFollowsRecord
PROPERTY RoleRunsAtMostOnce
PROPERTY ImplementsRoleExecution
