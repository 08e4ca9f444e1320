CONSTANTS
  Task = {t1, t2}
  VolBlocks = 4
  MapBits = 3
  Reserved <- MCReserved
  Goal = 1
  MaxBlocks = 2
  CountRange = 20
SPECIFICATION Spec
INVARIANTS TypeOK FreeblocksMatches HeldDisjoint BitmapIsOwned InOneMapBlock EnospcJustified
PROPERTIES BallocReturns
