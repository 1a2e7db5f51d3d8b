SPECIFICATION FSpec
CONSTANTS
  Radix = 16
  Encodings = {2}
  Files <- NewFiles
  Kinds <- MCKinds
  Ranges <- MCRanges
  Addresses = {60}
  Sizes = {3}
  MaxSections = 4
  MaxSegments = 1
  MaxSize = 6
  MaxEdits = 4
  Room = 300
  MapAt = 5
INVARIANT NoOverlap
