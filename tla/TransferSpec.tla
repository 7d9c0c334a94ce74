---------------------------- MODULE TransferSpec ----------------------------
(***************************************************************************)
(* What a call of Copy, CopyBuffer or CopyN promises its caller, without   *)
(* how it moves the bytes: the source is consumed from the front, the     *)
(* destination only ever grows by the next bytes of the source it has not *)
(* yet got (and none that was not consumed), CopyN consumes at most n     *)
(* bytes, and the call returns once, with a count of bytes the            *)
(* destination really got and nil only for a complete transfer.  The only *)
(* other way out is CopyBuffer's panic on an empty buffer, before         *)
(* anything moves.                                                          *)
(***************************************************************************)
EXTENDS Integers, Sequences

CONSTANTS
  MaxLen,   \* the largest source
  Calls,    \* the calls that may be made: records with fn, buf and n
  Errs      \* the errors a call may return, "nil" among them

VARIABLES
  call,     \* the call made
  srcLen,   \* bytes in the source
  taken,    \* bytes consumed from the source
  sink,     \* the bytes the destination got, as source positions
  status,   \* "running", "done" or "panic"
  ret       \* what the call returned

avars == <<call, srcLen, taken, sink, status, ret>>

MinOf2(a, b) == IF a < b THEN a ELSE b

(* CopyN(dst, src, n) may consume at most n bytes, none for n <= 0.       *)
Bound ==
  IF call.fn = "CopyN" THEN IF call.n > 0 THEN MinOf2(srcLen, call.n) ELSE 0
  ELSE srcLen

Init ==
  /\ call \in Calls
  /\ srcLen \in 0..MaxLen
  /\ taken = 0
  /\ sink = << >>
  /\ status = "running"
  /\ ret = [n |-> 0, err |-> "nil"]

(* Consume k more bytes and hand the destination j more, in order.         *)
Progress ==
  /\ status = "running"
  /\ \E k \in 0..(Bound - taken) :
       /\ taken' = taken + k
       /\ \E j \in 0..(taken + k - Len(sink)) :
            sink' = sink \o [i \in 1..j |-> Len(sink) + i]
  /\ UNCHANGED <<call, srcLen>>

Move == Progress /\ UNCHANGED <<status, ret>>

(* nil only for a complete transfer: the whole source, or exactly n bytes *)
(* for CopyN (none for n <= 0, as the code does).                          *)
Complete(s, r) ==
  IF call.fn = "CopyN"
    THEN IF call.n >= 0 THEN r.n = call.n /\ Len(s) = call.n ELSE r.n = 0
    ELSE r.n = srcLen /\ Len(s) = srcLen

Return ==
  /\ Progress
  /\ status' = "done"
  /\ \E r \in [n : 0..Len(sink'), err : Errs] :
       /\ r.err = "nil" => Complete(sink', r)
       /\ ret' = r

Panic ==
  /\ status = "running" /\ taken = 0
  /\ call.fn = "CopyBuffer" /\ call.buf = 0
  /\ status' = "panic"
  /\ UNCHANGED <<call, srcLen, taken, sink, ret>>

Next == Move \/ Return \/ Panic

(* The call is one goroutine and returns.                                  *)
Spec == Init /\ [][Next]_avars /\ WF_avars(Return \/ Panic)

=============================================================================
