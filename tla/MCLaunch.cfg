CONSTANTS
  Host = {h1}
  Group = {g1, g2}
  Template = {t1, t2}
  Schedule = {s1}
  Rule = {r1}
  Legacy = {r1}
  Script = {plain, asking, drafted, changed}
  Asking = {asking}
  Validated = {drafted}
  Changed = {changed}
  Stock <- MCStock
  Policy <- MCPolicy
  OperatorScopes <- MCOperatorScopes
  KeyScopes <- MCKeyScopes
  Default = g1
  MaxEdits = 2
  None = None
SPECIFICATION FairSpec
INVARIANTS
  OnlyEndorsed
  OneShotOnce
  ActiveIsArmed
  LaunchInScope
PROPERTIES
  RecurringRuns
CHECK_DEADLOCK FALSE
