CONSTANTS
  Task = {t1, t2}
  NoTask = NoTask
  VolBlocks = 17
  MapBytes = 2
  Reserved <- MCReserved
  Goal = 8
  MaxBlocks = 2
  CountRange = 32
SPECIFICATION Spec
SYMMETRY TaskSymmetry
INVARIANTS TypeOK NothingBeyondVolume RunIsFree
PROPERTIES ImplementsBalloc
