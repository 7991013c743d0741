CONSTANTS
  Statuses = {On, Off, Invalid}
  MaxTime = 7
  MaxChanges = 3
  Blank = Blank
SPECIFICATION WindowSpec
SYMMETRY Symmetry
CHECK_DEADLOCK FALSE
INVARIANTS
  WindowTypeOK
  Truthful
  NothingMissed
  WindowReported
