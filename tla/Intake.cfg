\* Offers of two executions, three taken up, one crash, seven worker.yaml files.
CONSTANTS
  e1 = e1
  e2 = e2
  a1 = a1
  a2 = a2
  NoAttempt = NoAttempt
  NoOffer = NoOffer
  Executions = {e1, e2}
  Attempts = {a1, a2}
  Files <- SomeFiles
  Offers <- SomeOffers
  MaxOffers = 3
  MaxCrashes = 1
SPECIFICATION Spec
INVARIANT TypeOK
INVARIANT VerdictIsRight
INVARIANT LateRefusalsKnown
INVARIANT OneRequestEach
PROPERTY SilenceOnlyWhen
CHECK_DEADLOCK FALSE
