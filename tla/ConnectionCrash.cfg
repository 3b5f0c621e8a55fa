CONSTANTS
  BufSize = 2
  Total <- ThreeAndNone
  HeaderLen <- OneByteHeaders
  MaxCrashes = 1
  MayReset = {"down"}
SPECIFICATION Spec
INVARIANTS
  StreamsIntact
  EofAfterData
CHECK_DEADLOCK FALSE
