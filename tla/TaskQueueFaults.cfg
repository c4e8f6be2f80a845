SPECIFICATION Spec
CONSTANTS
  s1 = s1
  s2 = s2
  s3 = s3
  w1 = w1
  w2 = w2
  NoTask = NoTask
  Submissions <- TwoSubmissions
  Workers <- TwoWorkers
  MaxQueued = 2
  Faults <- AllFaults
SYMMETRY Symmetry
INVARIANTS
  TypeOK
  InputAvailable
  ExclusiveExecution
  AtMostOnce
  NoLostWakeup
PROPERTIES
  CleanStart
