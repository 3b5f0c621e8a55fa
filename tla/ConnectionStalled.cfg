CONSTANTS
  BufSize = 1
  Total <- TwoAndNone
  HeaderLen <- OneByteHeaders
  MaxCrashes = 1
  MayReset = {}
SPECIFICATION Spec
PROPERTY ResumesAutomatically
CHECK_DEADLOCK FALSE
