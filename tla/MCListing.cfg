SPECIFICATION AsmSpec
CONSTANT Sources <- ByteAccess
INVARIANTS
  ListingExact
CHECK_DEADLOCK FALSE
