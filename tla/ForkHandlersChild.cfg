SPECIFICATION ForkSpec
CONSTANTS
  ForkThreads = {t1, t2}
  Worker = w
  RingSize = 2
  MaxForkCalls = 2
  MaxForks = 1
INVARIANT TakenIsPut
CHECK_DEADLOCK FALSE
