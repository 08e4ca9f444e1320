CONSTANTS
  Tag = {a, b, c}
  Data = {d1, d2}
  MaxVersions = 6
  NoTag = NoTag
SPECIFICATION Spec
SYMMETRY VersionSymmetry
INVARIANTS TypeOK TreeValid NoOrphans CachesFresh SnapshotsKept
