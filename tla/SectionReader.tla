---------------------------- MODULE SectionReader ----------------------------
(***************************************************************************)
(* io.SectionReader (io.go:595-669): a window [base, limit) onto a         *)
(* ReaderAt, with a current offset off.  Offsets are int64 values, modelled *)
(* at Width bits by WrapInt.  One behaviour is one SectionReader made by    *)
(* NewSectionReader and then used by any sequence of Read, Seek and ReadAt  *)
(* calls.  The underlying ReaderAt holds FileLen bytes and answers as the   *)
(* ReaderAt contract (io.go:246-289) allows.                                *)
(***************************************************************************)
EXTENDS WrapInt

CONSTANTS
  OffArgs,    \* the off arguments given to NewSectionReader
  NArgs,      \* the n arguments given to NewSectionReader
  LenArgs,    \* buffer lengths len(p) of Read and ReadAt
  AtArgs,     \* the off arguments of SectionReader.ReadAt
  SeekArgs,   \* the offset arguments of Seek
  FileLen     \* the size of the underlying input source

ASSUME SectionAssumption ==
  /\ OffArgs \subseteq IntW /\ NArgs \subseteq IntW
  /\ AtArgs \subseteq IntW /\ SeekArgs \subseteq IntW
  /\ LenArgs \subseteq 0..MaxInt
  /\ FileLen \in Nat

VARIABLES
  base, off, limit,  \* the fields of the SectionReader
  size,              \* the n it was made with
  req,               \* the underlying ReadAt request of the last call, if any
  last               \* the last call and what it returned

vars == <<base, off, limit, size, req, last>>

SeekStart == 0
SeekCurrent == 1
SeekEnd == 2

\* io.Seek* are 0..2; any other whence is invalid.
Whences == 0..3

NoReq == [at |-> 0, len |-> -1]

MinOf(a, b) == IF a < b THEN a ELSE b

MaxOf(a, b) == IF a < b THEN b ELSE a

Errs == {"nil", "EOF", "ErrRead", "errWhence", "errOffset", "panic"}

(***************************************************************************)
(* r.ReadAt(p, o) with len(p) = m: n <= m bytes and an error, non-nil when *)
(* n < m; EOF or nil when the m bytes reach the end of the source; an      *)
(* error for a negative offset.                                            *)
(***************************************************************************)
ReadAtOutcomes(o, m) ==
  LET avail == MaxOf(0, FileLen - o)
  IN  IF o < 0 THEN {[n |-> 0, err |-> "ErrRead"]}
      ELSE {[n |-> k, err |-> "ErrRead"] : k \in 0..MinOf(m, avail)}
           \cup (IF avail < m THEN {[n |-> avail, err |-> "EOF"]}
                 ELSE {[n |-> m, err |-> "nil"]})
           \cup (IF avail = m THEN {[n |-> m, err |-> "EOF"]} ELSE {})

\* NewSectionReader's remaining: n + off, or maxint64 when that overflows.
NewLimit_NoCheck(o, n) == AddW(n, o)

NewLimit(o, n) == IF o <= SubW(MaxInt, n) THEN AddW(n, o) ELSE MaxInt

Size == SubW(limit, base)

Call(op, want, n, err, target) ==
  [op |-> op, want |-> want, n |-> n, err |-> err, target |-> target]

Init ==
  \E o \in OffArgs, n \in NArgs :
    /\ base = o
    /\ off = o
    /\ limit = NewLimit(o, n)
    /\ size = n
    /\ req = NoReq
    /\ last = Call("New", 0, 0, "nil", 0)

\* A panic ends the goroutine that uses the reader.
Alive == last.err # "panic"

(***************************************************************************)
(* Read(p): EOF at or past the limit; else p is cut to limit - off bytes   *)
(* (a slice of negative length panics), read at off, and off advances.     *)
(***************************************************************************)
ReadClip_None(plen, max) == plen

\* p = p[0:max+1]: the clip keeps one byte too many.
ReadClip_OffByOne(plen, max) == IF plen > max THEN max + 1 ELSE plen

ReadClip(plen, max) == IF plen > max THEN max ELSE plen

Read ==
  /\ Alive
  /\ \E plen \in LenArgs :
       IF off >= limit
         THEN /\ req' = NoReq
              /\ last' = Call("Read", plen, 0, "EOF", 0)
              /\ UNCHANGED <<base, off, limit, size>>
       ELSE IF ReadClip(plen, SubW(limit, off)) < 0
         THEN /\ req' = NoReq
              /\ last' = Call("Read", plen, 0, "panic", 0)
              /\ UNCHANGED <<base, off, limit, size>>
       ELSE LET m == ReadClip(plen, SubW(limit, off))
            IN  \E r \in ReadAtOutcomes(off, m) :
                  /\ req' = [at |-> off, len |-> m]
                  /\ off' = AddW(off, r.n)
                  /\ last' = Call("Read", plen, r.n, r.err, 0)
                  /\ UNCHANGED <<base, limit, size>>

(***************************************************************************)
(* Seek(offset, whence): the offset is made absolute from base, off or     *)
(* limit, in int64; a position before base is refused.  target is the     *)
(* position asked for, computed without wrapping.                          *)
(***************************************************************************)
SeekOrigin(whence) ==
  CASE whence = SeekStart -> base
    [] whence = SeekCurrent -> off
    [] whence = SeekEnd -> limit

SeekRefused_NoCheck(abs) == FALSE

SeekRefused(abs) == abs < base

Seek ==
  /\ Alive
  /\ \E offset \in SeekArgs, whence \in Whences :
       /\ req' = NoReq
       /\ UNCHANGED <<base, limit, size>>
       /\ IF whence \notin {SeekStart, SeekCurrent, SeekEnd}
            THEN /\ last' = Call("Seek", 0, 0, "errWhence", 0)
                 /\ UNCHANGED off
          ELSE LET abs == AddW(offset, SeekOrigin(whence))
                   target == offset + SeekOrigin(whence)
               IN  IF SeekRefused(abs)
                     THEN /\ last' = Call("Seek", 0, 0, "errOffset", target)
                          /\ UNCHANGED off
                   ELSE /\ off' = abs
                        /\ last' = Call("Seek", 0, SubW(abs, base), "nil", target)

(***************************************************************************)
(* ReadAt(p, o): EOF outside [0, Size()); else read at base + o, cutting p *)
(* to the limit and then reporting EOF for a nil error.                    *)
(***************************************************************************)
ClipErr_Keep(err) == err

ClipErr(err) == IF err = "nil" THEN "EOF" ELSE err

ReadAt ==
  /\ Alive
  /\ \E plen \in LenArgs, o \in AtArgs :
       /\ UNCHANGED <<base, off, limit, size>>
       /\ IF o < 0 \/ o >= Size
            THEN /\ req' = NoReq
                 /\ last' = Call("ReadAt", plen, 0, "EOF", 0)
          ELSE LET at == AddW(o, base)
                   max == SubW(limit, at)
               IN  IF plen > max
                     THEN \E r \in ReadAtOutcomes(at, max) :
                            /\ req' = [at |-> at, len |-> max]
                            /\ last' = Call("ReadAt", plen, r.n, ClipErr(r.err), 0)
                   ELSE \E r \in ReadAtOutcomes(at, plen) :
                            /\ req' = [at |-> at, len |-> plen]
                            /\ last' = Call("ReadAt", plen, r.n, r.err, 0)

Next == Read \/ Seek \/ ReadAt

Spec == Init /\ [][Next]_vars

-----------------------------------------------------------------------------

(* The sections the proofs cover: NewSectionReader called with off >= 0   *)
(* and n >= 0, as its comment intends.                                     *)
Proper == OffArgs \subseteq 0..MaxInt /\ NArgs \subseteq 0..MaxInt

TypeOK ==
  /\ base \in IntW /\ off \in IntW /\ limit \in IntW /\ size \in IntW
  /\ req \in [at : IntW, len : -1..MaxInt]
  /\ last \in [op : {"New", "Read", "Seek", "ReadAt"}, want : 0..MaxInt,
               n : IntW, err : Errs, target : Int]

(* Window safety (NewSectionReader, Read, ReadAt): no ReadAt that the     *)
(* SectionReader issues to the underlying reader touches a byte before    *)
(* base or at or after base + n, whatever Seek calls came before; the      *)
(* clamps at io.go:625 and 657 and the saturation at io.go:600 keep every  *)
(* request inside the section.                                             *)
WindowSafe ==
  req # NoReq =>
    /\ base <= req.at
    /\ req.at + req.len <= base + MaxOf(size, 0)

(* A successful Seek lands exactly on the position asked for, computed    *)
(* without wrapping, and returns it relative to base: an int64 overflow  *)
(* in offset += base/off/limit (io.go:636-643) is never accepted.         *)
SeekExact ==
  last.op = "Seek" /\ last.err = "nil" =>
    /\ off = last.target
    /\ last.n = off - base
    /\ last.n >= 0

(* SectionReader.ReadAt keeps the ReaderAt contract: when it returns     *)
(* fewer bytes than asked for, its error is not nil, even when the       *)
(* request was cut at the limit and the underlying ReadAt said nil.       *)
ReadAtShortHasError ==
  last.op = "ReadAt" /\ last.n < last.want => last.err # "nil"

(* Read moves the offset forward by exactly the count it returns, with no *)
(* int64 wrap, and from inside the section never past its end: the clip   *)
(* to limit - off and off += n (io.go:620-628) make the next Read start   *)
(* where this one stopped, and a Read at the limit return EOF.            *)
ReadStepOK ==
  last'.op = "Read" =>
    /\ off' = off + last'.n
    /\ off < limit => off' <= limit

ReadAdvances == [][ReadStepOK]_vars

(* Read never panics: for every position Seek has accepted, max :=       *)
(* s.limit - s.off (io.go:623) is computed in int64 below the limit, and  *)
(* p[0:max] (io.go:624) would panic if that difference wrapped negative.  *)
(* It holds only because Seek refuses every position before base.         *)
NoReadPanic == last.err # "panic"

=============================================================================
