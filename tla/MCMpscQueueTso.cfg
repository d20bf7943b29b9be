SPECIFICATION FairSpec
CONSTANTS
  p1 = p1
  Producers = {p1}
  Blocking = {}
  Flushers = {}
  Capacity = 1
  MaxBatch = 1
  MaxCalls = 1
  StoreBufferDepth = 2
  WeakCas = FALSE
  ConsumerMayStall = FALSE
  Tomb = Tomb
  NoRec = NoRec
PROPERTIES
  AlwaysDrains
CHECK_DEADLOCK FALSE
