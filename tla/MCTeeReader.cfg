CONSTANTS
  MaxLen <- MCMaxLen
  LenArgs <- MCLenArgs
SPECIFICATION Spec
\* The caller stops reading once a Read has returned an error.
CHECK_DEADLOCK FALSE
INVARIANTS
  TypeOK
  TeeMirror
  LossReported
