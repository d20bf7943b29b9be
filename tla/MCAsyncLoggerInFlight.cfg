SPECIFICATION Spec
CONSTANTS
  w1 = w1
  w2 = w2
  a1 = a1
  Writers = {w1, w2}
  Admins = {a1}
  Ops = {"init", "reload"}
  Capacity = 1
  MaxBatch = 1
  MaxCalls = 1
  MaxOps = 2
  Quiesced = FALSE
  MayFail = {}
CHECK_DEADLOCK FALSE
INVARIANTS
  NoFreedQueue
SYMMETRY Symmetry
