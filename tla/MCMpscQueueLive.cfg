SPECIFICATION FairSpec
CONSTANTS
  p1 = p1
  p2 = p2
  f1 = f1
  Producers = {p1, p2}
  Blocking = {}
  Flushers = {f1}
  Capacity = 1
  MaxBatch = 2
  MaxCalls = 1
  StoreBufferDepth = 0
  WeakCas = FALSE
  ConsumerMayStall = FALSE
  Tomb = Tomb
  NoRec = NoRec
PROPERTIES
  AlwaysDrains
  FlushReturns
CHECK_DEADLOCK FALSE
