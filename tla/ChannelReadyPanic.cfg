\* The deadline passes during WaitForSync.
CONSTANTS
  Rounds = 1
  MaxOther = 0
SPECIFICATION Spec
INVARIANTS NoPanic
CHECK_DEADLOCK FALSE
