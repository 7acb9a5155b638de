SPECIFICATION MCSpec
CONSTANTS
  o1 = o1
  o2 = o2
  o3 = o3
  Ops = {o1, o2, o3}
  QueueMax = 1
  NoOp = NoOp
  Events = {"a", "b", "c"}
  Ingests = {"i1", "i2"}
  Batches <- MCBatches
  DuckBatch = 2
  MaxFaults = 2
INVARIANTS
  LoadedIsStored
PROPERTIES
  CallsReturn
  ImplementsSerialStore
  StoredIsIndexed
CHECK_DEADLOCK FALSE
