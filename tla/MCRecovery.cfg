CONSTANTS
  Task = {t1}
  VolBlocks = 7
  DeltaEvery = 1
  RollupEvery = 2
  LogCap = 2
  BLOCKDIRTY = TRUE
  Faults = {"super"}
  MaxDelta = 6
  MaxEntries = 1
  CountRange = 16
SPECIFICATION Spec
CHECK_DEADLOCK FALSE
INVARIANTS TypeOK OneHolder LogChainIntact ImagesKept ReplayCovers
