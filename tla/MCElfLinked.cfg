SPECIFICATION FSpec
CONSTANTS
  Radix = 16
  Encodings = {1}
  Files <- LinkedFiles
  Kinds <- LinkedKinds
  Ranges <- LinkedRanges
  Addresses = {104}
  Sizes = {3}
  MaxSections = 5
  MaxSegments = 3
  MaxSize = 6
  MaxEdits = 3
  Room = 200
  MapAt = 5
INVARIANTS NoOverlap WhereLinked Covered Valid Resaved
PROPERTIES KeepsContent MemoryNeverShrinks
