SPECIFICATION FairSpec
CONSTANTS
  A = A
  a1 = a1
  a2 = a2
  None = None
  Symbols <- MCSymbols
  Trades <- MCTrades
  SymbolOf <- MCSymbolOf
  Hazards = {"crash", "refuse", "partial"}
PROPERTIES
  UnprotectedIsAsked
