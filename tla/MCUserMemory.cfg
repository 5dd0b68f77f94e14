\* A RAM of 24 cells fills up: the ids and the address run out, and nothing
\* more can be allocated: every further call fails and leaves all as it is.
SPECIFICATION USpec
CONSTANTS
  WordSize = 128
  Mirror = 64
  RamStart = 8
  FirstFree = 16
  RamEnd = 40
  BlockAlign = 8
  MeAlign = 4
  FplAlign = 2
  NumBlocks = 2
  NumPools = 2
  Sizes <- MCSizes
  Pools <- MCPools
  MaxId = 3
INVARIANTS UTypeOK AreasDisjoint PoolsKnowHolders
CHECK_DEADLOCK FALSE
