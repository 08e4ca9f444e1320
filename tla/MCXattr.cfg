CONSTANTS
  Name = {a, b, c}
  Long = c
  NameLen <- MCNameLen
  NoName = NoName
  BlockSize = 32
  Inode = {i1, i2}
  Value = {1, 2}
  ValueLen <- MCValueLen
  NoValue = 0
  HalfRange = 2
  AtomRange = 4
  SizeRange = 65536
  MaxAtom = 3
  MaxAttrs = 3
  MaxLost = 1
SPECIFICATION Spec
SYMMETRY XattrSymmetry
INVARIANTS TypeOK AttrsKept RefsMatch FreeListSound ReverseMap
