SPECIFICATION FairSpec
CONSTANTS
  p1 = p1
  p2 = p2
  Producers = {p1, p2}
  Blocking = {p1, p2}
  Flushers = {}
  Capacity = 1
  MaxBatch = 1
  MaxCalls = 1
  StoreBufferDepth = 0
  WeakCas = FALSE
  ConsumerMayStall = TRUE
  Tomb = Tomb
  NoRec = NoRec
PROPERTIES
  PutReturns
  CloseEndsConsumer
CHECK_DEADLOCK FALSE
