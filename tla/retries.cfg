SPECIFICATION Spec
CONSTANTS
  MaxAttempts = 2
  MaxRetries = 1
  MaxCrashes = 0
  Heard <- NoReports
  Backoff = TRUE
  ListenerFirst = FALSE
  Branching = TRUE
CHECK_DEADLOCK FALSE
INVARIANTS
  TypeOK
  BudgetKept
CONSTRAINT Unfinished
