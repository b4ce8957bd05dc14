SPECIFICATION Spec
CONSTANTS
  P1 = P1
  P2 = P2
  Processes = {P1, P2}
  Writes <- MCWrites
  FirstMinute = 1
  DayLength = 2
  LookBack = 2
  MaxMinute = 3
  MaxPolls = 2
  MaxTrouble = 2
SYMMETRY Interchangeable
INVARIANTS
  TypeOK
  ManifestsAgree
  NeverRelabelled
  BackupIsWhole
PROPERTIES
  SnapshotsKept
CHECK_DEADLOCK FALSE
