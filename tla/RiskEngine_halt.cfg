SPECIFICATION Spec
CONSTANTS
  A = A
  B = B
  Symbols <- MCSymbols
  Results <- MCResults
  StartEquity = 8
  MaxLoss = 2
  DayLength = 2
  MaxOpen = 2
  MaxTrades = 1
  MaxStreak = 1
  DailyNum = 1
  DailyDen = 5
  DrawNum = 1
  DrawDen = 5
  AfterTrade = 1
  AfterLoss = 2
  PauseSymbol = 3
  MaxClock = 3
  MaxPlaced = 3
  MaxLag = 0
  MaxRestarts = 1
  MaxResumes = 1
SYMMETRY MCSymmetry
PROPERTY
  HaltIsTerminal
CHECK_DEADLOCK FALSE
