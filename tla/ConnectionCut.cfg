CONSTANTS
  BufSize = 2
  Total <- ThreeAndNone
  HeaderLen <- OneByteHeaders
  MaxCrashes = 1
  MayReset = {}
SPECIFICATION Spec
INVARIANT StreamsEndWhole
CHECK_DEADLOCK FALSE
