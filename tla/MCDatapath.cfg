SPECIFICATION Spec
CONSTANTS
  Codes <- CornerCodes
  Operands <- CornerWords
INVARIANTS
  AluComputes
  ShifterComputes
  AddressComputes
  StoredThenLoaded
