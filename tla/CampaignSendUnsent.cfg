CONSTANTS
  Total = 2
  MaxAttempts = 2
  Ambiguous = FALSE
  DbFails = FALSE
SPECIFICATION Spec
INVARIANT UnsentNotMailed
CHECK_DEADLOCK FALSE
