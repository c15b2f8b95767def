\* One offer is taken up; nothing crashes.
CONSTANTS
  e1 = e1
  e2 = e2
  a1 = a1
  a2 = a2
  NoAttempt = NoAttempt
  NoOffer = NoOffer
  Executions = {e1, e2}
  Attempts = {a1, a2}
  Files <- SomeFiles
  Offers <- SomeOffers
  MaxOffers = 1
  MaxCrashes = 0
SPECIFICATION Spec
INVARIANT DeliverableBelowRoot
CHECK_DEADLOCK FALSE
