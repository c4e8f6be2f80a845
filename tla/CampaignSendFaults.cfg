CONSTANTS
  Total = 2
  MaxAttempts = 3
  Ambiguous = TRUE
  DbFails = TRUE
SPECIFICATION Spec
INVARIANTS TypeOK LedgerHonest MailedOnce
PROPERTIES OutcomeFinal RecoveryExact
CHECK_DEADLOCK FALSE
