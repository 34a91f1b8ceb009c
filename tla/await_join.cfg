SPECIFICATION FairSpec
CONSTANTS
  a1 = a1
  a2 = a2
  c1 = c1
  c2 = c2
  Reconciler = Reconciler
  Awaits <- OneAwait
  Children <- TwoChildren
  Awaited <- JoinBoth
  Cancellable <- NoAwait
  HasTree <- OneAwait
  MaxResumeAttempts = 1
  MaxCrashes = 1
  MaxQueueErrors = 0
INVARIANTS ListenerNamesAll ResumedWasSent
PROPERTIES KeepsContract AwaitSettles
CHECK_DEADLOCK FALSE
