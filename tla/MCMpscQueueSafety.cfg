SPECIFICATION Spec
CONSTANTS
  p1 = p1
  p2 = p2
  p3 = p3
  Producers = {p1, p2, p3}
  Blocking = {}
  Flushers = {}
  Capacity = 2
  MaxBatch = 2
  MaxCalls = 1
  StoreBufferDepth = 1
  WeakCas = TRUE
  ConsumerMayStall = TRUE
  Tomb = Tomb
  NoRec = NoRec
INVARIANTS
  TakenInOrder
  NoSlotRace
  ResultTells
PROPERTIES
  ImplementsChannel
SYMMETRY Symmetry
CHECK_DEADLOCK FALSE
