CONSTANTS
  Width <- MCWidth
  OffArgs <- MCOffArgs
  LenArgs <- MCLenArgs
  AtArgs <- MCAtArgs
  SeekArgs <- MCSeekArgs
  DeviceCap <- MCDeviceCap
SPECIFICATION Spec
INVARIANTS
  TypeOK
  PositionExact
