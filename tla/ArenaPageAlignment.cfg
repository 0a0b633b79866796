SPECIFICATION Spec
CONSTANTS
  HeaderSize = 4
  DefaultChunkSize = 16
  MallocAlign = 4
  Addresses <- AlignedBlocks
  Sizes = {1}
  Alignments = {32}
  MaxWatched = 1
  WordValues = 256
  WideAmounts <- SomeAmounts
INVARIANTS
  TopAboveBottom
