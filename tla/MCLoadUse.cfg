SPECIFICATION Spec
CONSTANTS
  ControlStore <- CONTROL_STORE
  Images <- LoadUseImages
  Obj = {1, 2, 3, 4, 5}
  NULL = NULL
  DCACHE_RANDOM = {0}
  ICACHE_RANDOM = {0}
INVARIANT WritebackReleases
