---------------------------- MODULE OffsetWriter ----------------------------
(***************************************************************************)
(* io.OffsetWriter (io.go:671-709): writes at position p of the writer go  *)
(* to offset base + p of an underlying WriterAt.  Offsets are int64,      *)
(* modelled at Width bits by WrapInt.  One behaviour is one OffsetWriter  *)
(* made by NewOffsetWriter and then used by any sequence of Write, WriteAt *)
(* and Seek calls.  The underlying WriterAt stores bytes at positions      *)
(* 0..DeviceCap-1 and answers as the WriterAt contract (io.go:290-311)     *)
(* allows.                                                                  *)
(***************************************************************************)
EXTENDS WrapInt

CONSTANTS
  OffArgs,    \* the off arguments given to NewOffsetWriter
  LenArgs,    \* buffer lengths len(p) of Write and WriteAt
  AtArgs,     \* the off arguments of OffsetWriter.WriteAt
  SeekArgs,   \* the offset arguments of Seek
  DeviceCap   \* the underlying destination holds positions 0..DeviceCap-1

ASSUME OffsetAssumption ==
  /\ OffArgs \subseteq IntW /\ AtArgs \subseteq IntW /\ SeekArgs \subseteq IntW
  /\ LenArgs \subseteq 0..MaxInt
  /\ DeviceCap \in 0..(MaxInt + 1)

VARIABLES
  base, off,  \* the fields of the OffsetWriter
  pos,        \* the position the caller has reached, without wrapping
  req,        \* the underlying WriteAt of the last call: offset, length
              \* and the position relative to base the caller meant
  last        \* the last call and what it returned

vars == <<base, off, pos, req, last>>

SeekStart == 0
SeekCurrent == 1

\* io.Seek* are 0..2; OffsetWriter refuses SeekEnd and anything else.
Whences == 0..3

NoReq == [at |-> 0, len |-> -1, rel |-> 0]

MinOf(a, b) == IF a < b THEN a ELSE b

MaxOf(a, b) == IF a < b THEN b ELSE a

Errs == {"nil", "ErrWrite", "errWhence", "errOffset"}

(***************************************************************************)
(* w.WriteAt(p, o) with len(p) = m: n <= m bytes, with an error when       *)
(* n < m; a negative offset, or bytes past the device, are an error.      *)
(***************************************************************************)
WriteAtOutcomes(o, m) ==
  LET room == IF o < 0 THEN 0 ELSE MaxOf(0, DeviceCap - o)
  IN  {[n |-> k, err |-> "ErrWrite"] : k \in 0..MinOf(m, room)}
      \cup (IF m <= room THEN {[n |-> m, err |-> "nil"]} ELSE {})

Call(op, want, n, err) == [op |-> op, want |-> want, n |-> n, err |-> err]

Init ==
  \E o \in OffArgs :
    /\ base = o
    /\ off = o
    /\ pos = 0
    /\ req = NoReq
    /\ last = Call("New", 0, 0, "nil")

(* Write(p): write at off, then advance off by what was written.          *)
Advance_Missing(o, n) == o

Advance(o, n) == AddW(o, n)

Write ==
  \E plen \in LenArgs :
    \E w \in WriteAtOutcomes(off, plen) :
      /\ req' = [at |-> off, len |-> plen, rel |-> pos]
      /\ off' = Advance(off, w.n)
      /\ pos' = pos + w.n
      /\ last' = Call("Write", plen, w.n, w.err)
      /\ UNCHANGED base

(* WriteAt(p, o): write at base + o, leaving off alone.                   *)
AtOffset(o) == AddW(o, base)

WriteAt ==
  \E plen \in LenArgs, o \in AtArgs :
    \E w \in WriteAtOutcomes(AtOffset(o), plen) :
      /\ req' = [at |-> AtOffset(o), len |-> plen, rel |-> o]
      /\ last' = Call("WriteAt", plen, w.n, w.err)
      /\ UNCHANGED <<base, off, pos>>

(* Seek(offset, whence): from base or off, in int64; refused before base. *)
SeekRefused_NoCheck(abs) == FALSE

SeekRefused(abs) == abs < base

Seek ==
  \E offset \in SeekArgs, whence \in Whences :
    /\ req' = NoReq
    /\ UNCHANGED base
    /\ IF whence \notin {SeekStart, SeekCurrent}
         THEN /\ last' = Call("Seek", 0, 0, "errWhence")
              /\ UNCHANGED <<off, pos>>
       ELSE LET origin == IF whence = SeekStart THEN base ELSE off
                rel == IF whence = SeekStart THEN offset ELSE pos + offset
                abs == AddW(offset, origin)
            IN  IF SeekRefused(abs)
                  THEN /\ last' = Call("Seek", 0, 0, "errOffset")
                       /\ UNCHANGED <<off, pos>>
                ELSE /\ off' = abs
                     /\ pos' = rel
                     /\ last' = Call("Seek", 0, SubW(abs, base), "nil")

Next == Write \/ WriteAt \/ Seek

Spec == Init /\ [][Next]_vars

-----------------------------------------------------------------------------

(* The writers the proofs cover: a base no caller-visible offset can wrap *)
(* below (base >= 0), over a destination that ends before the last int64 *)
(* offset, so that Write's off += n (io.go:687) cannot wrap either.        *)
Proper == OffArgs \subseteq 0..MaxInt /\ DeviceCap \in 0..MaxInt

TypeOK ==
  /\ base \in IntW /\ off \in IntW /\ pos \in Int
  /\ req \in [at : IntW, len : -1..MaxInt, rel : Int]
  /\ last \in [op : {"New", "Write", "WriteAt", "Seek"}, want : 0..MaxInt,
               n : IntW, err : Errs]

(* The writer's offset is always base plus the position the caller has    *)
(* reached by its writes and seeks, computed without wrapping, and a      *)
(* successful Seek returns that position: Write's off += n (io.go:687)    *)
(* and Seek's offset += base/off with the check against base              *)
(* (io.go:697-706) never lose or wrap the position.                       *)
PositionExact ==
  /\ off = base + pos
  /\ pos >= 0
  /\ last.op = "Seek" /\ last.err = "nil" => last.n = pos

(* The type's comment (io.go:671): writes at offset off go to offset     *)
(* base + off of the underlying writer.  So no byte that a Write or a     *)
(* WriteAt of the OffsetWriter really writes lands before base, the part *)
(* of the destination that is not the writer's.                           *)
NoWriteBeforeBase ==
  last.op \in {"Write", "WriteAt"} /\ last.n > 0 => req.at >= base

=============================================================================
