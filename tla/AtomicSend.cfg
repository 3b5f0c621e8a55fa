CONSTANTS
  BufSize = 3
  MaxBytes = 5
  MaxCrashes = 2
SPECIFICATION Spec
INVARIANTS
  TypeOK
  ExactlyOnce
  NothingForgotten
  OnlyCrashesClobber
  Coherent
PROPERTIES
  ImplementsStream
  EverythingSent
CHECK_DEADLOCK FALSE
