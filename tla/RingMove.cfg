CONSTANTS
  BufSize = 3
  NumBytes = 4
  MaxTail = 2
SPECIFICATION Spec
INVARIANTS
  TypeOK
  MoveStaysInBounds
PROPERTIES
  BehavesAsQueues
  MoveTerminates
