--------------------------- MODULE MCSectionReader ---------------------------
(* SectionReader at int4: offsets -8..7, so sums of two offsets overflow.  *)
EXTENDS SectionReader

MCWidth == 4
MCOffArgs == {0, 2, 5, 7}
MCNArgs == {0, 3, 7}
MCNegNArgs == {-3, 2}
MCLenArgs == {0, 1, 3}
MCAtArgs == {-1, 0, 2, 6}
MCSeekArgs == {-8, -2, 0, 1, 5, 7}
MCFileLen == 6
=============================================================================
