SPECIFICATION BSpec
CONSTANTS
  Radix = 16
  Words = 32
  Commands = {1, 2, 3, 4}
  Files <- MCFiles
INVARIANTS MemoryIsImage NeverOutside
PROPERTY LoadableRuns
