SPECIFICATION FairSpec
CONSTANTS
  MaxAttempts = 2
  MaxRetries = 0
  MaxCrashes = 1
  Heard <- SomeReports
  Backoff = TRUE
  ListenerFirst = TRUE
  Branching = FALSE
PROPERTIES
  RunSettles
  EveryAttemptEnds
