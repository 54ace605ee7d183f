SPECIFICATION PowerLossSpec
CONSTANTS
  Keys <- MCKeys
  Values <- MCValues
  Prefix <- MCPrefix
  MemorySize = 20
  PageSize = 4
INVARIANTS BootEnds
