SPECIFICATION Spec
CONSTANTS
  ControlStore <- CONTROL_STORE
  Images <- LatencyImages
  Obj = {1, 2, 3, 4, 5}
  NULL = NULL
  DCACHE_RANDOM = {0, 1}
  ICACHE_RANDOM = {0, 1}
INVARIANTS
  ControlInvariant
  OperandsInvariant
  RefinementInvariant
  ControlInterlock
  SharedObjectHasOneOwner
  OperandsFresh
  NoStaleRedirect
PROPERTIES
  InstructionsAdvance
  ImplementsSequential
