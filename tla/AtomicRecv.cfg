CONSTANTS
  BufSize = 3
  MaxBytes = 4
  MaxCrashes = 2
SPECIFICATION Spec
INVARIANTS
  TypeOK
  ExactlyOnce
  NothingForgotten
  EofIsLast
PROPERTIES
  ImplementsStream
  EverythingConsumed
  EofReported
CHECK_DEADLOCK FALSE
