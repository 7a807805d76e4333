SPECIFICATION Spec
CONSTANTS
  NoTask = NoTask
  TaskId = {t1, t2, t3}
  MaxPending = 2
  WriteFaults = TRUE
SYMMETRY TaskSymmetry
INVARIANTS
  GrantedAtMostOnce
  ResultsDeliverable
PROPERTIES
  ImplementsLedger
