SPECIFICATION MCSpec
CONSTANTS
  p1 = p1
  p2 = p2
  Tomb = Tomb
  Producers = {p1, p2}
  Capacity = 4
  MaxBatch = 1
  MaxPuts = 5
  Kinds = {"heap"}
  MayFail = {}
CHECK_DEADLOCK FALSE
PROPERTIES
  StopReturns
