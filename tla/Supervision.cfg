CONSTANTS
  NumWorkers = 2
  MaxCrashes = 2
  MaxStops = 1
SPECIFICATION Spec
INVARIANTS
  TypeOK
  NoStrays
PROPERTIES
  ReplacedOnlyWhenDead
  Recovers
  ShutdownCompletes
CHECK_DEADLOCK FALSE
