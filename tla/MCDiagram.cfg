SPECIFICATION TraceSpec
CONSTANTS
  ControlStore <- CONTROL_STORE
  Images <- PowerOn
  Obj = {1, 2, 3, 4, 5}
  NULL = NULL
  DCACHE_RANDOM = {0}
  ICACHE_RANDOM = {0}
  CommandLines <- DiagramPrograms
  RunLengths = {1}
  MaxCycles = 16
INVARIANTS
  DiagramExact
CHECK_DEADLOCK FALSE
