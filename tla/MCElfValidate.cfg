SPECIFICATION FSpec
CONSTANTS
  Radix = 16
  Encodings = {1}
  Files <- OverlappingFiles
  Kinds <- LinkedKinds
  Ranges <- LinkedRanges
  Addresses = {104}
  Sizes = {3}
  MaxSections = 4
  MaxSegments = 3
  MaxSize = 6
  MaxEdits = 1
  Room = 200
  MapAt = 5
INVARIANT OverlapReported
