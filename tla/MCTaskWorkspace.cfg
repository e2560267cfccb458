SPECIFICATION Spec
CONSTANTS
  Deliveries = {1, 2, 3}
  TaskIds = {1, 2}
  IdOf <- MCIdOf
  Uris = {"u", "v"}
  InputOf <- MCInputOf
  Contents = {"a", "b"}
  InitialObject <- MCInitialObject
  None = "noetag"
  Chunks = 2
  MaxTransfers = 2
  SyncDeliveries = {1}
  InPlace = {2}
  MaxFaults = 2
INVARIANTS
  TypeOK
  CountersExact
  InputIsWhole
  DirectoryHasOwner
CHECK_DEADLOCK FALSE
