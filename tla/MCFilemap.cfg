CONSTANTS
  entries_per_node = 2
  LoRange = 3
  MAX_GROUP_ENTRIES = 2
  LeafSpace = 11
  MaxSegs = 3
  MAX_EXTENT = 3
  Blocks <- MCBlocks
  Sizes <- MCSizes
  VolBlocks = 4
  MaxAside = 1
  Spanning = FALSE
SPECIFICATION Spec
INVARIANTS TypeOK MapKept OneOwner TruncatedEmpty
