--------------------------- MODULE MCOffsetWriter ---------------------------
(* OffsetWriter at int4: offsets -8..7, so sums of two offsets overflow.   *)
EXTENDS OffsetWriter

MCWidth == 4
MCOffArgs == {0, 2, 5}
MCLenArgs == {0, 1, 2}
MCAtArgs == {-2, 0, 1, 7}
MCSeekArgs == {-8, -1, 0, 2, 7}
MCDeviceCap == 6
=============================================================================
