CONSTANTS
  Clients = {c1, c2}
  Workers = {w1, w2}
  NumSlots = 2
  MaxCrashes = 2
SPECIFICATION Spec
CONSTRAINT Unspoiled
INVARIANTS
  TypeOK
  HandledOnce
  RightSockets
  Accounted
  Backed
PROPERTIES
  ReleasedWhenDone
  
  
CHECK_DEADLOCK FALSE
