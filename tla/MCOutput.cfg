SPECIFICATION OutputSpec
CONSTANTS
  w1 = w1
  w2 = w2
  p1 = p1
  p2 = p2
  Tomb = Tomb
  Writers = {w1, w2}
  Sinks = {1, 2, 3, 4}
  Levels = {0, 2}
  InitCapacity = 2
  Configs <- MCConfigs
  Warn = 1
  MaxRecords = 3
  MaxOps = 3
  MaxTime = 5
  MaxSize = 2
  BackupChoices = {0, 2}
  MaxLines = 6
  MaxFiles = 4
  MaxFaults = 2
  MaxSocketLines = 4
  MaxConnections = 3
  Producers = {p1, p2}
  Capacity = 2
  MaxBatch = 2
  MaxPuts = 3
  Kinds = {"inline", "heap"}
  MayFail = {"alloc", "connect", "send"}
INVARIANTS WithinBudget SuppressedOnce SinkLifetimes OneStream RetainedIsNewest FileBounded StreamOfLines HandledOnce LongSentIsPut
PROPERTIES ImplementsChannel
SYMMETRY Symmetry
CHECK_DEADLOCK FALSE
