CONSTANTS
  d1 = d1
  d2 = d2
  d3 = d3
  Drains <- MCDrains
  MaxLen <- MCMaxLen
  MaxBufs <- MCMaxBufs
SPECIFICATION Spec
\* Each goroutine stops once its ReadFrom has returned.
CHECK_DEADLOCK FALSE
INVARIANTS
  TypeOK
  ExclusiveBuffers
  ReturnedOnExit
PROPERTIES
  Termination
