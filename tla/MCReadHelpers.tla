--------------------------- MODULE MCReadHelpers ---------------------------
EXTENDS ReadHelpers

MCMaxLen == 3
MCBufArgs == {0, 2, 3}
MCMinArgs == {-1, 0, 1, 2, 4}
MCInitCap == 1
=============================================================================
