CONSTANTS
  Total = 3
  MaxAttempts = 2
  Ambiguous = FALSE
  DbFails = FALSE
SPECIFICATION FairSpec
INVARIANTS TallyClosed
PROPERTIES ImplementsLedger ExecutionEnds SuppressionHonoured
CHECK_DEADLOCK FALSE
