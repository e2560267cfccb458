SPECIFICATION Spec
CONSTANTS
  Deliveries = {1, 2}
  TaskIds = {1, 2}
  IdOf <- MCIdOf
  Uris = {"u", "v"}
  InputOf <- MCInputOf
  Contents = {"a", "b"}
  InitialObject <- MCInitialObject
  None = "noetag"
  Chunks = 2
  MaxTransfers = 2
  SyncDeliveries = {1}
  InPlace = {}
  MaxFaults = 0
INVARIANTS
  AssetIsLinked
CHECK_DEADLOCK FALSE
