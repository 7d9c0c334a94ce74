--------------------------- MODULE IOCopyTransfer ---------------------------
(***************************************************************************)
(* IOCopy implements TransferSpec.  The refinement mapping hides the      *)
(* staging buffer, the LimitedReader and copyBuffer's running count: the  *)
(* bytes consumed are rpos, the destination's bytes are sink, and the     *)
(* call is running until pc says it returned or panicked.                 *)
(***************************************************************************)
EXTENDS IOCopy

(* The calls Init may start with.                                          *)
InitCalls ==
  {c \in [fn : Fns, src : ReaderKinds \cup {NopCloser(k) : k \in ReaderKinds},
          dst : DstKinds, buf : BufArgs \cup {NilBuf}, n : NArgs \cup {0}] :
     /\ c.buf \in IF c.fn = "CopyBuffer" THEN BufArgs ELSE {NilBuf}
     /\ c.n \in IF c.fn = "CopyN" THEN NArgs ELSE {0}}

Status ==
  CASE pc = "done" -> "done"
    [] pc = "panic" -> "panic"
    [] OTHER -> "running"

Transfer == INSTANCE TransferSpec
              WITH Calls <- InitCalls, taken <- rpos, status <- Status, ret <- result

(* Every behaviour of Copy, CopyBuffer and CopyN, with every Reader and   *)
(* Writer outcome and all three paths (WriteTo, ReadFrom, the staging     *)
(* loop), is a behaviour TransferSpec allows: each step consumes and      *)
(* delivers bytes in order or returns as the abstract call may, and the    *)
(* call returns.                                                           *)
TransferRefined == Transfer!Spec

=============================================================================
