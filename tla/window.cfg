\* The window of n seconds under irregular ticks.
SPECIFICATION Spec
CONSTANTS
  None = None
  Second = 2
  U64Max = 100
  Buckets = 3
  MaxUnits = 3
  MaxStall = 3
  MaxTime = 13
INVARIANTS
  TypeOK
  NothingRecentMissed
  NothingOldLingers
CHECK_DEADLOCK FALSE
