--------------------------- MODULE MCDiscardPool ---------------------------
EXTENDS DiscardPool

CONSTANTS d1, d2, d3

MCDrains == {d1, d2, d3}
MCMaxLen == 2
MCMaxBufs == 3
=============================================================================
