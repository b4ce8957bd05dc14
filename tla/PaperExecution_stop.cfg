SPECIFICATION Spec
CONSTANTS
  A = A
  a1 = a1
  a2 = a2
  sl = sl
  tp = tp
  None = None
  Symbols <- MCSymbols
  Trades <- MCPair
  SymbolOf <- MCSymbolOf
  Exits <- MCStop
  MaxOpen = 2
  MaxNow = 1
  MaxRestarts = 1
  MaxRaises = 0
INVARIANT
  StopStaysTight
CHECK_DEADLOCK FALSE
