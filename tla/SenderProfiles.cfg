CONSTANTS
  Requests = {r1, r2, r3}
  MaxProfiles = 2
  Nobody = Nobody
SPECIFICATION Spec
SYMMETRY Symmetry
INVARIANTS CredentialsFitType BackedUnlessRaced AttemptOnce AdmittedCanSend
PROPERTIES DeletedStaysDeleted
CHECK_DEADLOCK FALSE
