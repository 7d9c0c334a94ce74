CONSTANTS
  Width <- MCWidth
  OffArgs <- MCOffArgs
  NArgs <- MCNegNArgs
  LenArgs <- MCLenArgs
  AtArgs <- MCAtArgs
  SeekArgs <- MCSeekArgs
  FileLen <- MCFileLen
SPECIFICATION Spec
INVARIANT WindowSafe
