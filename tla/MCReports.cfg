\* Two tasks, a template that may split in two, an AI report, both channels.
SPECIFICATION FairSpec
CONSTANTS
  Host = {h1, h2}
  Part = {1, 2}
  Channel = {"email", "confluence"}
  WithAi = TRUE
  MaxGenerations = 2
  MaxEdits = 2
  MaxDeaths = 1
INVARIANTS
  FinishedIsReported
  ReportIsWhole
  AutoOncePerGeneration
  NoFallbackMailed
PROPERTIES
  RequestsSettle
CHECK_DEADLOCK FALSE
