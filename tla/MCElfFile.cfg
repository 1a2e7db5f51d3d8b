SPECIFICATION FSpec
CONSTANTS
  Radix = 16
  Encodings = {2}
  Files <- NewFiles
  Kinds <- MCKinds
  Ranges <- MCRanges
  Addresses = {70}
  Sizes = {3}
  MaxSections = 4
  MaxSegments = 1
  MaxSize = 6
  MaxEdits = 4
  Room = 78
  MapAt = 5
INVARIANTS NoOverlap WhereLinked Covered Valid Resaved
PROPERTIES KeepsContent MemoryNeverShrinks
