------------------------------ MODULE MCIOCopy ------------------------------
(* IOCopy on sources of up to 3 bytes, a staging buffer of 2 (so the loop  *)
(* runs several times and a LimitedReader shrinks it), caller buffers of  *)
(* 0, 1 and 3 bytes, and CopyN counts on both sides of the source length  *)
(* and of zero.                                                            *)
EXTENDS IOCopyTransfer

MCMaxLen == 3
MCDefaultSize == 2
MCDiscardSize == 2
MCBufArgs == {0, 1, 3}
MCNArgs == -1..4
MCNArgsNonNeg == 0..4
=============================================================================
