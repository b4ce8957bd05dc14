SPECIFICATION FairSpec
CONSTANTS
  A = A
  B = B
  None = None
  DayOf <- MCDayOf
  SymbolOf <- MCSymbolOf
  MaxOpen = 2
  MaxDay = 1
  MaxTrouble = 2
INVARIANTS
  TypeOK
  PositionHasRow
PROPERTIES
  SoldOnceAndNotShut
  DueIsBoughtBack
  UnprotectedIsBoughtBack
