CONSTANTS
  Name = {a, b, c}
  Long = c
  NameLen <- MCNameLen
  NoName = NoName
  BlockSize = 32
  Inums <- MCInums
  Root = 1
  TUX_LINK_MAX = 4
  MaxBlocks = 2
  MaxEntries = 3
  Watched = {2}
  NoReader = NoReader
  Lost = Lost
SPECIFICATION Spec
INVARIANTS TypeOK NamesKept LinksMatch ReaddirOnce
SYMMETRY ShortNames
