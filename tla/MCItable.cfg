CONSTANTS
  entries_per_node = 2
  Attrs = {small, large}
  Large = large
  AttrsSize <- MCSize
  NoAttrs = NoAttrs
  entries_per_leaf = 2
  LeafRoom = 7
  Inums <- MCInums
  MaxInodes = 3
SPECIFICATION Spec
INVARIANTS TypeOK InumsUnique LeavesInOrder InodesKept
