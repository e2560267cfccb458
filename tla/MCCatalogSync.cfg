SPECIFICATION FairSpec
CONSTANTS
  Orchestrators = {a}
  MaxVersion = 3
  MaxSpawned = 1
  MaxFaults = 2
  Levels = {1, 2, 3}
  Deadband = 1
  MaxUsageChanges = 1
CHECK_DEADLOCK TRUE
INVARIANTS
  TypeOK
  BeliefIsRight
  FullOnlyWhenChanged
  TelemetryIsRight
PROPERTIES
  SyncConverges
  UsageArrives
