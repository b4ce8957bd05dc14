SPECIFICATION Spec
CONSTANTS
  A = A
  a1 = a1
  a2 = a2
  None = None
  Symbols <- MCSymbols
  Trades <- MCTrades
  SymbolOf <- MCSymbolOf
  Hazards = {"crash", "raise", "blind", "refuse", "partial", "between"}
INVARIANTS
  TypeOK
  AskedOnce
  HealthyRowNotClosed
  WatchedOrAsked
  MarkIsForThisPosition
