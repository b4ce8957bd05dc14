SPECIFICATION Spec
CONSTANTS
  None = None
  Verdict <- MCVerdict
  MaxMinute = 4
  MinRun = 1
  Step = 1
  MaxRaises = 0
INVARIANT
  ReopenSkipped
CHECK_DEADLOCK FALSE
