CONSTANTS
  Clients = {c1, c2}
  Workers = {w1}
  NumSlots = 2
  MaxCrashes = 1
SPECIFICATION Spec
PROPERTY RecoveryCompletes
CHECK_DEADLOCK FALSE
