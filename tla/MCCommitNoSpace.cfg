CONSTANTS
  Task = {t1}
  VolBlocks = 5
  DeltaEvery = 1
  RollupEvery = 2
  LogCap = 2
  BLOCKDIRTY = TRUE
  Faults = {}
  MaxDelta = 8
  MaxEntries = 1
SPECIFICATION Spec
CHECK_DEADLOCK FALSE
INVARIANTS InUseAllocated
