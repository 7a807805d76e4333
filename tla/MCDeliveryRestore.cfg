SPECIFICATION Spec
CONSTANTS
  TaskId = {1, 2}
  Prepare <- NoUpdates
  Reboots = {}
  Deadlined = {}
  MaxPending = 2
  RestartAfter = 0
  MaxLate = 0
  MaxRestores = 1
  AllowDelete = FALSE
  Faults = TRUE
  Crashes = TRUE
INVARIANTS
  RunAtMostOnce
