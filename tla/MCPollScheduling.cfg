SPECIFICATION FairSpec
CONSTANTS
  N = 3
  Modes = {"WATERFALL", "ROUND_ROBIN", "FAILOVER"}
  MaxWeight = 2
  Capacity = 2
  HasChecker = TRUE
  BackoffInitial = 1
  BackoffMax = 2
  RateLimitFloor = 3
  RetryAfters = {1}
  MaxFailures = 2
INVARIANTS
  TypeOK
  SharesFollowWeights
PROPERTIES
  PriorityKept
  FloorKept
  NoSpinning
  PollingGoesOn
CHECK_DEADLOCK FALSE
