CONSTANTS
  Width <- MCWidth
  OffArgs <- MCOffArgs
  NArgs <- MCNArgs
  LenArgs <- MCLenArgs
  AtArgs <- MCAtArgs
  SeekArgs <- MCSeekArgs
  FileLen <- MCFileLen
SPECIFICATION Spec
INVARIANTS
  TypeOK
  WindowSafe
  SeekExact
  ReadAtShortHasError
  NoReadPanic
PROPERTIES
  ReadAdvances
