SPECIFICATION FairSpec
CONSTANTS
  A = A
  B = B
  a1 = a1
  a2 = a2
  b1 = b1
  None = None
  Symbols <- MCSymbols
  Intents <- MCIntents
  SymbolOf <- MCSymbolOf
  Qty <- MCQtySame
  MaxOpen = 2
  Faults = {}
PROPERTY
  EveryFillRecorded
