SPECIFICATION Spec
CONSTANTS
  TaskId = {1, 2, 3}
  Prepare <- UpdateJob
  Reboots = {3}
  Deadlined = {3}
  MaxPending = 2
  RestartAfter = 2
  MaxLate = 1
  MaxRestores = 0
  AllowDelete = TRUE
  Faults = TRUE
  Crashes = TRUE
INVARIANTS
  SequenceIsJournaled
  UpdateAfterPreparation
  SuccessIsFaithful
  AcknowledgedIsFinal
  WithdrawnNeverRuns
PROPERTIES
  FinalIsFinal
