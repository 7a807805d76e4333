SPECIFICATION FairSpec
CONSTANTS
  Host = {1, 2, 3}
  PlatformOf <- TwoPlatforms
  WaveSize = 1
  MaxWavesPerTick = 2
  Checker = {scheduler, mailer}
CHECK_DEADLOCK FALSE
INVARIANTS
  UpdatedAtMostOnce
  MissedForRemoved
PROPERTIES
  ClosedIsClosed
  RolloutEnds
