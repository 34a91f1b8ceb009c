SPECIFICATION Spec
CONSTANTS
  MaxAttempts = 2
  MaxRetries = 1
  MaxCrashes = 0
  Heard <- NoReports
  Backoff = TRUE
  ListenerFirst = TRUE
  Branching = FALSE
CHECK_DEADLOCK FALSE
INVARIANTS
  ReconcilesOwnEnd
