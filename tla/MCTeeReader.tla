---------------------------- MODULE MCTeeReader ----------------------------
EXTENDS TeeReader

MCMaxLen == 4
MCLenArgs == {1, 3}
=============================================================================
