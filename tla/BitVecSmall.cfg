SPECIFICATION Spec
CONSTANTS
  CellBits = 2
  CapacitiesBits = {0, 5}
  MaxLength = 7
INVARIANTS
  TypeOK
  BitsInBlock
PROPERTIES
  IsBitStack
