SPECIFICATION FairShutdownSpec
CONSTANTS
  Results = {1, 2}
  Clients = {"orchestrator"}
  ClientOf <- MCClientOf
  MaxRetries = 2
  Nothing = Nothing
  Earlier = Earlier
CHECK_DEADLOCK FALSE
INVARIANTS
  ShutdownTypeOK
  OfflineIsLast
  DueResultsSent
PROPERTIES
  ShutdownEnds
