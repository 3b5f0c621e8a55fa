CONSTANTS
  BufSize = 2
  Total <- FourAndOne
  HeaderLen <- TwoByteHeaders
  MaxCrashes = 0
  MayReset = {"down"}
SPECIFICATION QuickSpec
INVARIANTS
  TypeOK
  StreamsIntact
  EofAfterData
  ClosedWhenDelivered
  EventsStayValid
  HeaderAtFront
PROPERTY Delivered
CHECK_DEADLOCK FALSE
