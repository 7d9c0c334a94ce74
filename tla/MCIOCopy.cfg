\* Copy, CopyBuffer and CopyN against every Read and Write outcome.
CONSTANTS
  MaxLen <- MCMaxLen
  DefaultSize <- MCDefaultSize
  DiscardSize <- MCDiscardSize
  BufArgs <- MCBufArgs
  NArgs <- MCNArgs
  NilBuf = NilBuf
SPECIFICATION Spec
\* A call that has returned takes no further step.
CHECK_DEADLOCK FALSE
INVARIANTS
  TypeOK
  SinkIsPrefix
  ReportedCount
  CopyComplete
  CopyNExact
  NoUnexpectedPanic
  LimitRespected
PROPERTIES
  CountFollowsSink
  Termination
