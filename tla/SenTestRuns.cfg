SPECIFICATION Spec
CONSTANTS
  Names <- ShortNames
  Reasons <- OneReason
  Configs <- ConfigsOfAllKinds
  MaxRecords = 5
  MaxBodies = 3
INVARIANTS
  TypeOK
  PathIsWhereWeAre
  FilterSelects
  FlagsFollowLoops
  FailuresPrinted
  ExitCodeTells
  JUnitTotals
  JUnitCases
