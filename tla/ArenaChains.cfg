SPECIFICATION FairSpec
CONSTANTS
  HeaderSize = 2
  DefaultChunkSize = 8
  MallocAlign = 2
  Addresses <- FiveBlocks
  Sizes = {1, 7}
  Alignments = {4}
  MaxWatched = 0
  WordValues = 256
  WideAmounts <- SomeAmounts
INVARIANTS
  TypeOK
  ChainsLinked
  ChainsOwnHeap
  NoUseAfterFree
  NothingLeaked
PROPERTIES
  ChunksOnlyFreedByFree
  CallsReturn
