SPECIFICATION Spec
CONSTANTS
  a1 = a1
  a2 = a2
  c1 = c1
  c2 = c2
  Reconciler = Reconciler
  Awaits <- TwoAwaits
  Children <- OneChild
  Awaited <- SharedChild
  Cancellable <- OnlyA2
  HasTree <- OneAwait
  MaxResumeAttempts = 1
  MaxCrashes = 0
  MaxQueueErrors = 1
INVARIANTS TypeOK GivesUpOnlyInTrouble
PROPERTIES SettledStays
CHECK_DEADLOCK FALSE
CONSTRAINT OneAfterTheOther
