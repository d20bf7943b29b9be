SPECIFICATION FairSpec
CONSTANTS
  w1 = w1
  w2 = w2
  a1 = a1
  Writers = {w1, w2}
  Admins = {a1}
  Ops = {"init", "flush", "destroy", "reload"}
  Capacity = 1
  MaxBatch = 2
  MaxCalls = 1
  MaxOps = 4
  Quiesced = TRUE
  MayFail = {"config", "sinks", "queue", "clone", "stall"}
CHECK_DEADLOCK FALSE
INVARIANTS
  HeldOrWritten
  FlushDelivers
  WrittenOnce
PROPERTIES
  CallsReturn
  AcceptedIsWritten
