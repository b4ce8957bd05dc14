SPECIFICATION Spec
CONSTANTS
  A = A
  B = B
  a1 = a1
  a2 = a2
  b1 = b1
  None = None
  Symbols <- MCSymbols
  Intents <- MCIntents
  SymbolOf <- MCSymbolOf
  Qty <- MCQtySame
  MaxOpen = 2
  Faults = {"crash", "raise", "blind"}
INVARIANTS
  TypeOK
  LiveHoldsSlot
  ClosedRowIsGone
  FilledHasRow
PROPERTIES
  OrderMovesAllowed
  NoEntryBesideUnknown
  GateSpec
