SPECIFICATION FairSpec
CONSTANTS
  Orchestrators = {a, b}
  MaxVersion = 2
  MaxSpawned = 0
  MaxFaults = 0
  Levels = {1}
  Deadband = 1
  MaxUsageChanges = 0
CHECK_DEADLOCK TRUE
PROPERTIES
  SyncConverges
