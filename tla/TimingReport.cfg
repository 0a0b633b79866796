SPECIFICATION SentimingSpec
CONSTANTS
  Precision = 8
  One = 64
  PowersOfTwo <- MCPowersOfTwo
  NsPerSec = 6
  TwosInSec = 2
  NsPerMicro = 2
  Uint64Values = 32
  Micros = {0, 1}
  RawStarts = {0, 5}
  Garbage <- MCGarbage
  Refusals = TRUE
  Slew = 0
  MaxLate = 2
  MaxSignals = 2
  MicrosPerMilli = 2
  DwordValues = 9
  Freqs = {3, 5, 8}
  CounterStarts = {0, 29}
CHECK_DEADLOCK FALSE
INVARIANTS
  FailureReported
