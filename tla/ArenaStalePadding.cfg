SPECIFICATION Spec
CONSTANTS
  HeaderSize = 4
  DefaultChunkSize = 16
  MallocAlign = 4
  Addresses <- AlignedBlocks
  Sizes = {1, 2}
  Alignments = {1, 4}
  MaxWatched = 1
  WordValues = 256
  WideAmounts <- SomeAmounts
INVARIANTS
  AllocationsAligned
