----------------------------- MODULE TeeReader -----------------------------
(***************************************************************************)
(* io.TeeReader (io.go:711-733): a Reader that writes to w what it reads  *)
(* from r.  One behaviour is a caller reading through TeeReader(r, w)     *)
(* until a Read returns an error.  Bytes are their positions 1..srcLen in *)
(* r; r answers as the Reader contract allows and w as the Writer        *)
(* contract does (a short count comes with an error).                      *)
(***************************************************************************)
EXTENDS Integers, Sequences

CONSTANTS
  MaxLen,   \* the largest source
  LenArgs   \* the len(p) the caller reads with

ASSUME TeeAssumption == MaxLen \in Nat /\ LenArgs \subseteq Nat \ {0}

VARIABLES
  srcLen,   \* bytes in r
  rpos,     \* bytes r has handed out
  mirror,   \* the bytes w accepted, in order
  handed,   \* the bytes the caller was told it got, in order
  result    \* the last Read's (n, err)

vars == <<srcLen, rpos, mirror, handed, result>>

Errs == {"nil", "EOF", "ErrRead", "ErrWrite"}

MinOf(a, b) == IF a < b THEN a ELSE b

Chunk(from, k) == [j \in 1..k |-> from + j]

(* r.Read(p) with len(p) = m: some bytes with nil, the rest with EOF, or  *)
(* some bytes with an error.  (0, nil) is a stuttering step.              *)
SourceRead(m) ==
  LET avail == srcLen - rpos IN
       {[n |-> k, err |-> "nil"] : k \in 1..MinOf(m, avail)}
  \cup (IF avail <= m THEN {[n |-> avail, err |-> "EOF"]} ELSE {})
  \cup {[n |-> k, err |-> "ErrRead"] : k \in 0..MinOf(m, avail)}

(* w.Write(p) with len(p) = m: all of it, or fewer bytes with an error.   *)
WriteOutcomes(m) ==
  {[n |-> m, err |-> "nil"]} \cup {[n |-> k, err |-> "ErrWrite"] : k \in 0..m}

(* t.w.Write(p[:n]): only the n bytes read go to w.                        *)
WriteLen_WholeBuf(plen, rn) == plen

WriteLen(plen, rn) == rn

(* The result: a failed Write returns its own (n, err); otherwise the     *)
(* Read's.                                                                 *)
TeeResult_IgnoreWriteErr(r, w) == [n |-> r.n, err |-> r.err]

TeeResult_DropWriteErr(r, w) ==
  IF r.n > 0 /\ w.err # "nil" THEN [n |-> w.n, err |-> r.err] ELSE r

TeeResult(r, w) ==
  IF r.n > 0 /\ w.err # "nil" THEN [n |-> w.n, err |-> w.err] ELSE r

Init ==
  /\ srcLen \in 0..MaxLen
  /\ rpos = 0
  /\ mirror = << >>
  /\ handed = << >>
  /\ result = [n |-> 0, err |-> "nil"]

(* The caller stops once a Read has returned an error.                     *)
Reading == result.err = "nil"

Read ==
  /\ Reading
  /\ \E plen \in LenArgs : \E r \in SourceRead(plen) :
       \E w \in IF r.n > 0 THEN WriteOutcomes(WriteLen(plen, r.n))
                ELSE {[n |-> 0, err |-> "nil"]} :
         /\ rpos' = rpos + r.n
         /\ mirror' = mirror \o Chunk(rpos, w.n)
         /\ handed' = handed \o Chunk(rpos, TeeResult(r, w).n)
         /\ result' = TeeResult(r, w)
         /\ UNCHANGED srcLen

Next == Read

Spec == Init /\ [][Next]_vars

-----------------------------------------------------------------------------

(* Types, with both streams drawn from the bytes of r.                     *)
TypeOK ==
  /\ srcLen \in 0..MaxLen /\ rpos \in 0..srcLen
  /\ mirror \in Seq(1..srcLen) /\ handed \in Seq(1..srcLen)
  /\ result \in [n : Nat, err : Errs]

(* The writer receives exactly the bytes the caller was handed, in the    *)
(* same order: a failed mirror Write makes Read report only what w took   *)
(* (io.go:728-730).                                                        *)
TeeMirror == mirror = handed

(* Bytes consumed from r but never handed to the caller are only ever     *)
(* lost behind an error the caller is told about: while Reads succeed,   *)
(* the caller has every byte r gave out, in order.                         *)
LossReported ==
  \/ /\ Len(handed) = rpos
     /\ \A i \in 1..Len(handed) : handed[i] = i
  \/ result.err \notin {"nil", "EOF"}

=============================================================================
