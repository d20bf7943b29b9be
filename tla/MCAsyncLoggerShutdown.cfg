SPECIFICATION Spec
CONSTANTS
  w1 = w1
  a1 = a1
  Writers = {w1}
  Admins = {a1}
  Ops = {"init", "destroy"}
  Capacity = 1
  MaxBatch = 1
  MaxCalls = 1
  MaxOps = 2
  Quiesced = TRUE
  MayFail = {}
CHECK_DEADLOCK FALSE
INVARIANTS
  ShutdownDrains
