CONSTANTS
  Task = {t1, t2}
  VolBlocks = 6
  DeltaEvery = 1
  RollupEvery = 2
  LogCap = 2
  BLOCKDIRTY = TRUE
  Faults = {"map", "log", "super"}
  MaxDelta = 2
  MaxEntries = 1
SPECIFICATION Spec
CHECK_DEADLOCK FALSE
PROPERTIES CommittedOnReturn ChangeEnds
