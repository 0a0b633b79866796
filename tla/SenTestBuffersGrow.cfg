SPECIFICATION Spec
CONSTANTS
  VEC_INITIAL_CAPACITY = 2
  Texts <- MCTexts
  MaxSegments = 3
  MaxStrings = 3
INVARIANTS
  InBlocks
  PathNamesSegments
  StringsStay
