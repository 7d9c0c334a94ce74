\* The CopyN comment "written == n if and only if err == nil", for n < 0 too.
CONSTANTS
  MaxLen <- MCMaxLen
  DefaultSize <- MCDefaultSize
  DiscardSize <- MCDiscardSize
  BufArgs <- MCBufArgs
  NArgs <- MCNArgs
  NilBuf = NilBuf
SPECIFICATION Spec
CHECK_DEADLOCK FALSE
INVARIANT CopyNDoc
