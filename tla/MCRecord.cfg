SPECIFICATION Spec
CONSTANTS
  RootKeys = {"log", "max_size", "plugins"}
  InnerKeys = {"path", "plugins"}
  DocValues = {"63K", "64K"}
  MaxEvents = 12
  MaxNesting = 4
  MaxLoads = 2
  MaxPlugins = 1
  SizeMax = 65535
  NameThreads = {"t1", "t2"}
  Names = {"main", "net"}
  MainName = "main"
  MaxSets = 3
  CtxThreads = {"t1"}
  SpanMaxDepth = 3
  MaxIds = 5
  MdcKeys = {"k1", "k2", "k3"}
  MdcValues = {"v"}
  MaxPairs = 2
  MaxMdcOps = 4
  Loggers = {"t1"}
  Texts <- MCTexts
  Patterns <- MCPatterns
  Masks <- MCMasks
  MaxRules = 2
  BufSize = 6
  TmpSize = 5
  JsonTexts <- MCJsonTexts
  JsonSizes = {12, 23, 33, 44, 46, 48, 51, 54, 61}
  FmtThreads = {"t1"}
  FmtLoggers = {"l1", "l2"}
  FmtTexts <- MCFmtTexts
  LineRoom = 6
  Seconds = {1, 2}
  MaxInits = 2
  MemThreads = {"t1", "t2"}
  Shapes <- MCShapes
  InlineSize = 4
  MemSlots = 2
  MemBatch = 2
  MaxMemRecords = 3
INVARIANTS
  
  CopiedNameIsWhole
  ContextIsHistory
  Redacted
  LineIsJson
  LineUsesItsFormat
  ShownAsLogged
  OneOwner
CHECK_DEADLOCK FALSE
