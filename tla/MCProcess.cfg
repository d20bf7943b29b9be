SPECIFICATION Spec
CONSTANTS
  AppThreads = {a1, a2}
  Signals = {"TERM", "INT"}
  OldActions = {"default", "app"}
  MaxSignals = 2
  MaxCalls = 1
  MaxServers = 3
  MaxClients = 2
  MaxMetric = 2
  Paths = {"p", "q"}
  Slots = {1, 2}
  Features <- MCFeatures
  MaxLives = 3
  ForkThreads = {t1, t2}
  Worker = worker1
  RingSize = 2
  MaxForkCalls = 3
  MaxForks = 1
INVARIANTS SignalHeld DeathFlushed ExporterConfined PluginsMapped NoForkDeadlock
PROPERTY ExporterStops
CHECK_DEADLOCK FALSE
