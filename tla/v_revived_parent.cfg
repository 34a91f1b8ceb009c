SPECIFICATION Spec
CONSTANTS
  a1 = a1
  a2 = a2
  c1 = c1
  c2 = c2
  Reconciler = Reconciler
  Awaits <- OneAwait
  Children <- OneChild
  Awaited <- WaitForOne
  Cancellable <- OneAwait
  HasTree <- OneAwait
  MaxResumeAttempts = 1
  MaxCrashes = 0
  MaxQueueErrors = 0
PROPERTIES NeverRevived
CHECK_DEADLOCK FALSE
