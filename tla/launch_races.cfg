SPECIFICATION Spec
CONSTANTS
  Run = {"a", "b", "c", "d"}
  h1 = h1
  s1 = s1
  k1 = k1
  Hand = {h1}
  Server = {s1}
  Host <- OneHost
  Key = {k1}
  NoKey = NoKey
  NoRun = NoRun
  KeyOf <- ABShareKey
  TriggerOf <- CDAlike
  MaxRuns = 1
  FirstPolicies = {"queue", "cancel_running"}
  MaxUpsets = 0
CHECK_DEADLOCK FALSE
INVARIANTS
  OneLiveRunPerKey
  OneQueuedPerTrigger
PROPERTIES
  OldestFirst
