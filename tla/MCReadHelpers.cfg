CONSTANTS
  MaxLen <- MCMaxLen
  BufArgs <- MCBufArgs
  MinArgs <- MCMinArgs
  InitCap <- MCInitCap
SPECIFICATION Spec
\* A call that has returned takes no further step.
CHECK_DEADLOCK FALSE
INVARIANTS
  TypeOK
  AtLeastContract
  ReadAllResult
PROPERTIES
  Termination
