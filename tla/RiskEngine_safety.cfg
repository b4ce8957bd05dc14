SPECIFICATION Spec
CONSTANTS
  A = A
  B = B
  Symbols <- MCSymbols
  Results <- MCResults
  StartEquity = 8
  MaxLoss = 2
  DayLength = 2
  MaxOpen = 2
  MaxTrades = 1
  MaxStreak = 1
  DailyNum = 1
  DailyDen = 5
  DrawNum = 1
  DrawDen = 5
  AfterTrade = 0
  AfterLoss = 1
  PauseSymbol = 1
  MaxClock = 2
  MaxPlaced = 3
  MaxLag = 1
  MaxRestarts = 1
  MaxResumes = 1
SYMMETRY MCSymmetry
INVARIANTS
  TypeOK
  NeverOverexposed
  DrawdownBounded
  DailyBounded
PROPERTY
  HaltHolds
  CooldownHolds
CHECK_DEADLOCK FALSE
