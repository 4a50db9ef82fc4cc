SPECIFICATION TraceSpec
CONSTANTS
  ControlStore <- CONTROL_STORE
  Images <- PowerOn
  Obj = {1, 2, 3, 4, 5}
  NULL = NULL
  DCACHE_RANDOM = {0, 1}
  ICACHE_RANDOM = {0}
  CommandLines <- TracedPrograms
  RunLengths = {1}
  MaxCycles = 20
INVARIANTS
  HistTypeOK TraceInvariant
  DiagramFaithful
  RecordsAgree
  AddressesFaithful
  LastWordsUnmatched
CHECK_DEADLOCK FALSE
