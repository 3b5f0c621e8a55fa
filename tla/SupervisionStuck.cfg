CONSTANTS
  NumWorkers = 1
  MaxCrashes = 2
  MaxStops = 0
SPECIFICATION Spec
PROPERTY Restarted
CHECK_DEADLOCK FALSE
