SPECIFICATION FairSpec
CONSTANTS
  None = None
  Verdict <- MCVerdict
  MaxMinute = 4
  MinRun = 1
  Step = 2
  MaxRaises = 1
INVARIANTS
  TypeOK
  HoleIsNoted
  ClearedIsFilled
  NoBarLost
  DecidedOnce
  HaltSuppresses
PROPERTIES
  EveryBarHandled
CHECK_DEADLOCK FALSE
