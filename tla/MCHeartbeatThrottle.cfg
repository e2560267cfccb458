SPECIFICATION FairSpec
CONSTANTS
  Calls = {c1, c2, c3}
  Manager = manager
  Cooldown = 2
  Interval = 3
  MaxFailures = 1
CHECK_DEADLOCK TRUE
INVARIANTS
  TypeOK
  FlagIsExact
  LossNeedsRace
PROPERTIES
  SpacingNeedsOverlap
  ChangeIsReported
