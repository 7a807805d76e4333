SPECIFICATION Spec
CONSTANTS
  Delivery = {d1, d2}
  Addressee = {a1}
  MaxRetries = 1
  MaxCrashes = 0
  StaleRetry = TRUE
CHECK_DEADLOCK FALSE
SYMMETRY Recipients
INVARIANTS
  CompletedMeansDelivered
