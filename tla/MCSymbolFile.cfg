SPECIFICATION YSpec
CONSTANTS
  Radix = 16
  Encodings = {2}
  Names <- MCNames
  Types <- MCTypes
  Addends = {3}
  MaxSymbols = 3
  MaxEntries = 1
INVARIANTS RelocationsFollow NothingLost LocalsFirst LookupFinds ValueFinds
CHECK_DEADLOCK FALSE
