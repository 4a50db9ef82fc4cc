SPECIFICATION AsmSpec
CONSTANT Sources <- AllSources
INVARIANTS
  AsmTypeOK
  SymbolsAgree
  LabelsReach
  LoadsWhereAssembled
  ListingFaithful
  RejectsOnlyTheUnencodable
CHECK_DEADLOCK FALSE
