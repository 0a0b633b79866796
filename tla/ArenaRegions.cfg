SPECIFICATION Spec
CONSTANTS
  HeaderSize = 2
  DefaultChunkSize = 8
  MallocAlign = 2
  Addresses <- ThreeBlocks
  Sizes = {1, 5}
  Alignments = {2, 4}
  MaxWatched = 2
  WordValues = 256
  WideAmounts <- SomeAmounts
INVARIANTS
  RegionsDisjoint
  RegionsInChunks
  TopAboveBottom
  FreeSpaceUnused
  WidthSuffices
PROPERTIES
  ArenaKeepsContract
