SPECIFICATION TSpec
CONSTANTS
  Radix = 16
  Encodings = {1, 2}
  Accessors = {a, b}
  Records <- MCRecords
  Needed <- MCNeeded
  MaxRecords = 3
INVARIANTS NewReaderFindsAll OldReadersStayRight SeesOwn
