CONSTANTS
  Task = {t1}
  VolBlocks = 8
  DeltaEvery = 1
  RollupEvery = 2
  LogCap = 2
  BLOCKDIRTY = TRUE
  Faults = {}
  MaxDelta = 6
  MaxEntries = 1
SPECIFICATION Spec
CHECK_DEADLOCK FALSE
INVARIANTS LogEmptyAtRollup
