SPECIFICATION FairSpec
CONSTANTS
  Results = {1, 2, 3}
  Clients = {"down", "healthy"}
  ClientOf <- MCClientOf
  MaxRetries = 2
  Nothing = Nothing
CHECK_DEADLOCK FALSE
INVARIANTS
  TypeOK
  InOrder
  JoinIsExact
  GivenUpAfterAllAttempts
PROPERTIES
  QueuedIsResolved
