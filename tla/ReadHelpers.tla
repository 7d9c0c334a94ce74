---------------------------- MODULE ReadHelpers ----------------------------
(***************************************************************************)
(* ReadAtLeast, ReadFull (io.go:402-440) and ReadAll (io.go:805-828): one  *)
(* call per behaviour, reading from a Reader whose srcLen bytes are        *)
(* consumed from position rpos.  The Reader answers as the Reader contract *)
(* allows (the same environment as IOCopy's SourceRead).                  *)
(***************************************************************************)
EXTENDS Integers

CONSTANTS
  MaxLen,     \* the largest source
  BufArgs,    \* len(buf) of ReadAtLeast and ReadFull
  MinArgs,    \* the min argument of ReadAtLeast
  InitCap     \* the capacity ReadAll starts with (512 in the code)

ASSUME HelpersAssumption ==
  /\ MaxLen \in Nat /\ BufArgs \subseteq Nat /\ MinArgs \subseteq Int
  /\ InitCap \in Nat \ {0}

VARIABLES
  call,     \* fn and the arguments
  srcLen,   \* bytes in the source
  rpos,     \* bytes the source has handed out
  n,        \* ReadAtLeast's n, or len(b) in ReadAll
  capB,     \* cap(b) in ReadAll
  err,      \* the err of the last Read
  pc,       \* "start", "loop" or "done"
  result    \* what the call returned

vars == <<call, srcLen, rpos, n, capB, err, pc, result>>

Fns == {"ReadAtLeast", "ReadFull", "ReadAll"}

Errs == {"nil", "EOF", "ErrRead", "ErrShortBuffer", "ErrUnexpectedEOF"}

MinOf(a, b) == IF a < b THEN a ELSE b

(* Outcomes of r.Read(p) with len(p) = m >= 1: some available bytes with  *)
(* nil; all remaining bytes with EOF; some bytes with an error.  (0, nil) *)
(* changes nothing and is a stuttering step.                               *)
SourceRead(m) ==
  LET avail == srcLen - rpos IN
       {[n |-> k, err |-> "nil"] : k \in 1..MinOf(m, avail)}
  \cup (IF avail <= m THEN {[n |-> avail, err |-> "EOF"]} ELSE {})
  \cup {[n |-> k, err |-> "ErrRead"] : k \in 0..MinOf(m, avail)}

Init ==
  /\ \E fn \in Fns, len \in BufArgs, min \in MinArgs :
       call = [fn |-> fn, len |-> IF fn = "ReadAll" THEN 0 ELSE len,
               min |-> CASE fn = "ReadAtLeast" -> min
                         [] fn = "ReadFull" -> len
                         [] OTHER -> 0]
  /\ srcLen \in 0..MaxLen
  /\ rpos = 0
  /\ n = 0
  /\ capB = 0
  /\ err = "nil"
  /\ pc = "start"
  /\ result = [n |-> 0, err |-> "nil"]

Return(rn, re) ==
  /\ pc' = "done"
  /\ result' = [n |-> rn, err |-> re]

IsAtLeast == call.fn \in {"ReadAtLeast", "ReadFull"}

(* ReadAtLeast: ErrShortBuffer when min exceeds len(buf).  ReadFull is    *)
(* ReadAtLeast(r, buf, len(buf)).                                          *)
AtLeastStart ==
  /\ pc = "start" /\ IsAtLeast
  /\ IF call.len < call.min
       THEN Return(0, "ErrShortBuffer")
       ELSE /\ pc' = "loop"
            /\ UNCHANGED result
  /\ UNCHANGED <<call, srcLen, rpos, n, capB, err>>

(* for n < min && err == nil { nn, err = r.Read(buf[n:]); n += nn }        *)
LoopGo_IgnoreErr == n < call.min

LoopGo == n < call.min /\ err = "nil"

Rest_WholeBuf == call.len

Rest == call.len - n

AtLeastRead ==
  /\ pc = "loop" /\ IsAtLeast /\ LoopGo
  /\ \E r \in SourceRead(Rest) :
       /\ rpos' = rpos + r.n
       /\ n' = n + r.n
       /\ err' = r.err
  /\ UNCHANGED <<call, srcLen, capB, pc, result>>

(* After the loop: nil once min bytes are in, EOF after some bytes turned *)
(* into ErrUnexpectedEOF.                                                  *)
AtLeastErr_KeepErr(nn, e) ==
  IF nn > 0 /\ e = "EOF" THEN "ErrUnexpectedEOF" ELSE e

AtLeastErr(nn, e) ==
  IF nn >= call.min THEN "nil"
  ELSE IF nn > 0 /\ e = "EOF" THEN "ErrUnexpectedEOF"
  ELSE e

AtLeastReturn ==
  /\ pc = "loop" /\ IsAtLeast /\ ~LoopGo
  /\ Return(n, AtLeastErr(n, err))
  /\ UNCHANGED <<call, srcLen, rpos, n, capB, err>>

(* ReadAll: b := make([]byte, 0, 512).                                     *)
ReadAllStart ==
  /\ pc = "start" /\ call.fn = "ReadAll"
  /\ capB' = InitCap
  /\ pc' = "loop"
  /\ UNCHANGED <<call, srcLen, rpos, n, err, result>>

(* One iteration: grow b when full (append picks the new capacity), read  *)
(* into b[len(b):cap(b)], and on an error return b with EOF made nil.     *)
Grown(c) == IF n = c THEN {c + 1, 2 * c} ELSE {c}

ReadAllErr_KeepEOF(e) == e

ReadAllErr(e) == IF e = "EOF" THEN "nil" ELSE e

ReadAllStep ==
  /\ pc = "loop" /\ call.fn = "ReadAll"
  /\ \E c \in Grown(capB) : \E r \in SourceRead(c - n) :
       /\ capB' = c
       /\ rpos' = rpos + r.n
       /\ n' = n + r.n
       /\ err' = r.err
       /\ IF r.err # "nil"
            THEN Return(n + r.n, ReadAllErr(r.err))
            ELSE UNCHANGED <<pc, result>>
  /\ UNCHANGED <<call, srcLen>>

Next == AtLeastStart \/ AtLeastRead \/ AtLeastReturn \/ ReadAllStart \/ ReadAllStep

(* Each call is one goroutine whose Reads return; weak fairness also rules *)
(* out a source that answers (0, nil) forever.                             *)
Spec == Init /\ [][Next]_vars /\ WF_vars(Next)

-----------------------------------------------------------------------------

(* Types, with the slice bounds: ReadAtLeast's n never passes len(buf)    *)
(* (buf[n:] is in range) and ReadAll's len(b) never passes cap(b).        *)
TypeOK ==
  /\ call \in [fn : Fns, len : Nat, min : Int]
  /\ srcLen \in 0..MaxLen /\ rpos \in 0..srcLen
  /\ IsAtLeast => n \in 0..call.len
  /\ call.fn = "ReadAll" => n \in 0..capB
  /\ err \in Errs /\ pc \in {"start", "loop", "done"}
  /\ result \in [n : Nat, err : Errs]

AtLeastDone == pc = "done" /\ IsAtLeast /\ result.err # "ErrShortBuffer"

(* ReadAtLeast's and ReadFull's comment: "On return, n >= min if and only *)
(* if err == nil" (for ReadFull, n == len(buf)), whatever error the last   *)
(* Read came with.                                                         *)
AtLeastContract ==
  AtLeastDone => (result.n >= call.min <=> result.err = "nil")

(* ReadAll returns nil, never EOF, and nil only with the whole stream.     *)
ReadAllResult ==
  pc = "done" /\ call.fn = "ReadAll" =>
    /\ result.err # "EOF"
    /\ result.err = "nil" => result.n = srcLen

(* Every call returns: each loop stops on the Reader's first error.        *)
Termination == <>(pc = "done")

=============================================================================
