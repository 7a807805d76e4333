\* Deaths of the worker and a retry, also while the campaign is being sent.
SPECIFICATION FairSpec
CONSTANTS
  Delivery = {d1, d2}
  Addressee = {a1, a2}
  MaxRetries = 1
  MaxCrashes = 2
  StaleRetry = TRUE
CHECK_DEADLOCK FALSE
INVARIANTS
  ReportNotResent
PROPERTIES
  ImplementsMailLedger
  QueuedIsFinished
  ReportIsSettled
