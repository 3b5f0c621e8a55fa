CONSTANTS
  BufSize = 2
  Total <- TwoAndNone
  HeaderLen <- OneByteHeaders
  MaxCrashes = 1
  MayReset = {}
SPECIFICATION Spec
INVARIANT NeverCorrupted
CHECK_DEADLOCK FALSE
