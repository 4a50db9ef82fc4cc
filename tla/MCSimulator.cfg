SPECIFICATION SimSpec
CONSTANTS
  ControlStore <- CONTROL_STORE
  Images <- PowerOn
  Obj = {1, 2, 3, 4, 5}
  NULL = NULL
  DCACHE_RANDOM = {0}
  ICACHE_RANDOM = {0}
  CommandLines <- CommandLines1
  RunLengths = {1, 4, 9}
INVARIANTS
  SimTypeOK
  LoadedInOrder
  HaltIsClean
  HaltInvariant
PROPERTIES
  HaltedForGood
  CommandsReturn
CHECK_DEADLOCK FALSE
