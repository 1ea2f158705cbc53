CONSTANTS
  Lap = 4
  Digits = 6
  Unit = 1
  Joins = {0, 52}
  MaxHeaders = 60
  MaxLost = 1
  MaxBranches = 1
  None = None
SPECIFICATION HiresSpec
INVARIANT
  FieldsUnderstood
CHECK_DEADLOCK FALSE
