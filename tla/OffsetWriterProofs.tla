------------------------- MODULE OffsetWriterProofs -------------------------
(***************************************************************************)
(* Proofs about OffsetWriter for every width and every set of arguments:  *)
(* it is well typed, and its offset is always base plus the position the *)
(* caller reached, with Seek returning that position.                     *)
(***************************************************************************)
EXTENDS OffsetWriter, WrapIntProofs

USE WidthAssumption, RangeAssumption, OffsetAssumption

(* What the WriterAt can answer.                                           *)
LEMMA WriteAtFacts ==
  ASSUME NEW o \in Int, NEW m \in 0..MaxInt, NEW w \in WriteAtOutcomes(o, m)
  PROVE  /\ w.n \in 0..m
         /\ w.err \in {"nil", "ErrWrite"}
         /\ o >= 0 => o + w.n <= MaxOf(o, DeviceCap)
BY DEF WriteAtOutcomes, MinOf, MaxOf

-----------------------------------------------------------------------------

(* The inductive invariant: the types, the window's base in range, and    *)
(* the position relation.                                                  *)
IInv ==
  /\ TypeOK
  /\ base \in 0..MaxInt
  /\ pos \in Nat
  /\ off = base + pos
  /\ last.op = "Seek" /\ last.err = "nil" => last.n = pos

(* Every initial state of a proper writer satisfies it.                   *)
LEMMA InitIInv == Proper /\ Init => IInv
BY DEF Proper, Init, IInv, TypeOK, Call, NoReq, Errs, IntW

(* Write: the WriterAt accepts at most the bytes before the end of the   *)
(* destination, so off + n stays in range and off += n does not wrap.      *)
LEMMA WriteIInv == Proper /\ IInv /\ Write => IInv'
<1> SUFFICES ASSUME Proper, IInv, Write PROVE IInv'
  OBVIOUS
<1>1. PICK plen \in LenArgs : \E w \in WriteAtOutcomes(off, plen) :
                                /\ req' = [at |-> off, len |-> plen, rel |-> pos]
                                /\ off' = Advance(off, w.n)
                                /\ pos' = pos + w.n
                                /\ last' = Call("Write", plen, w.n, w.err)
                                /\ UNCHANGED base
  BY DEF Write
<1>2. PICK w \in WriteAtOutcomes(off, plen) :
             /\ req' = [at |-> off, len |-> plen, rel |-> pos]
             /\ off' = Advance(off, w.n)
             /\ pos' = pos + w.n
             /\ last' = Call("Write", plen, w.n, w.err)
             /\ UNCHANGED base
  BY <1>1
<1>3. off \in 0..MaxInt /\ plen \in 0..MaxInt
  BY DEF IInv, TypeOK, IntW
<1>4. /\ w.n \in 0..plen
      /\ w.err \in {"nil", "ErrWrite"}
      /\ off + w.n <= MaxOf(off, DeviceCap)
  BY <1>3, WriteAtFacts
<1>5. off + w.n \in IntW
  BY <1>3, <1>4 DEF Proper, MaxOf, IntW
<1>6. off' = off + w.n
  BY <1>2, <1>3, <1>4, <1>5, AddWExact DEF Advance
<1>. QED  BY <1>2, <1>3, <1>4, <1>5, <1>6 DEF IInv, TypeOK, Call, Errs, IntW

(* WriteAt moves nothing.                                                  *)
LEMMA WriteAtIInv == IInv /\ WriteAt => IInv'
<1> SUFFICES ASSUME IInv, WriteAt PROVE IInv'
  OBVIOUS
<1>1. PICK plen \in LenArgs, o \in AtArgs :
         \E w \in WriteAtOutcomes(AtOffset(o), plen) :
           /\ req' = [at |-> AtOffset(o), len |-> plen, rel |-> o]
           /\ last' = Call("WriteAt", plen, w.n, w.err)
           /\ UNCHANGED <<base, off, pos>>
  BY DEF WriteAt
<1>2. PICK w \in WriteAtOutcomes(AtOffset(o), plen) :
           /\ req' = [at |-> AtOffset(o), len |-> plen, rel |-> o]
           /\ last' = Call("WriteAt", plen, w.n, w.err)
           /\ UNCHANGED <<base, off, pos>>
  BY <1>1
<1>3. AtOffset(o) \in IntW
  <2>1. o + base \in Int
    BY DEF IInv, TypeOK, IntW
  <2>. QED  BY <2>1, WrapType DEF AtOffset, AddW
<1>4. plen \in 0..MaxInt /\ w.n \in 0..plen /\ w.err \in {"nil", "ErrWrite"}
  BY <1>3, WriteAtFacts DEF IntW
<1>. QED  BY <1>2, <1>3, <1>4 DEF IInv, TypeOK, Call, Errs, IntW

(* Seek: from a non-negative origin, a sum that overflows wraps below     *)
(* zero and so below base, and is refused; an accepted sum is exact.      *)
LEMMA SeekIInv == IInv /\ Seek => IInv'
<1> SUFFICES ASSUME IInv, Seek PROVE IInv'
  OBVIOUS
<1>1. PICK offset \in SeekArgs, whence \in Whences :
         /\ req' = NoReq
         /\ UNCHANGED base
         /\ IF whence \notin {SeekStart, SeekCurrent}
              THEN /\ last' = Call("Seek", 0, 0, "errWhence")
                   /\ UNCHANGED <<off, pos>>
            ELSE LET origin == IF whence = SeekStart THEN base ELSE off
                     rel == IF whence = SeekStart THEN offset ELSE pos + offset
                     abs == AddW(offset, origin)
                 IN  IF SeekRefused(abs)
                       THEN /\ last' = Call("Seek", 0, 0, "errOffset")
                            /\ UNCHANGED <<off, pos>>
                     ELSE /\ off' = abs
                          /\ pos' = rel
                          /\ last' = Call("Seek", 0, SubW(abs, base), "nil")
  BY DEF Seek
<1>2. req' \in [at : IntW, len : -1..MaxInt, rel : Int]
  BY <1>1 DEF NoReq, IntW
<1>3. CASE whence \notin {SeekStart, SeekCurrent}
  BY <1>1, <1>2, <1>3 DEF IInv, TypeOK, Call, Errs, IntW
<1>4. CASE whence \in {SeekStart, SeekCurrent}
  <2> DEFINE origin == IF whence = SeekStart THEN base ELSE off
             rel == IF whence = SeekStart THEN offset ELSE pos + offset
             abs == AddW(offset, origin)
  <2>1. origin \in 0..MaxInt /\ rel = offset + origin - base
    BY DEF IInv, TypeOK, IntW
  <2>2. offset \in IntW
    BY DEF IntW
  <2>0. abs \in IntW
    <3>1. offset + origin \in Int
      BY <2>1, <2>2 DEF IntW
    <3>. QED  BY <3>1, WrapType DEF AddW
  <2>3. CASE SeekRefused(abs)
    BY <1>1, <1>2, <1>4, <2>3 DEF IInv, TypeOK, Call, Errs, IntW
  <2>4. CASE ~SeekRefused(abs)
    <3>1. abs >= base
      BY <2>0, <2>4 DEF SeekRefused, IInv, IntW
    <3>2. offset + origin <= MaxInt
      <4>1. SUFFICES ASSUME offset + origin > MaxInt PROVE FALSE
        BY <2>1, <2>2 DEF IntW
      <4>2. abs < 0
        BY <2>1, <2>2, <4>1, AddWOverflow DEF abs
      <4>. QED  BY <2>0, <3>1, <4>2 DEF IInv, IntW
    <3>3. offset + origin \in IntW
      BY <2>1, <2>2, <3>2 DEF IntW
    <3>4. abs = offset + origin
      BY <3>3, WrapId DEF abs, AddW
    <3>5. abs - base \in IntW
      BY <2>0, <3>1, <3>3, <3>4 DEF IInv, IntW
    <3>6. SubW(abs, base) = abs - base
      BY <3>5, WrapId DEF SubW
    <3>7. /\ off' = abs
          /\ pos' = rel
          /\ last' = Call("Seek", 0, SubW(abs, base), "nil")
      BY <1>1, <1>4, <2>4
    <3>. QED  BY <1>1, <1>2, <2>1, <3>1, <3>3, <3>4, <3>5, <3>6, <3>7
                 DEF IInv, TypeOK, Call, Errs
  <2>. QED  BY <2>3, <2>4
<1>. QED  BY <1>3, <1>4

(* The invariant is inductive.                                             *)
LEMMA NextIInv == Proper /\ IInv /\ [Next]_vars => IInv'
<1> SUFFICES ASSUME Proper, IInv, [Next]_vars PROVE IInv'
  OBVIOUS
<1>1. CASE Write
  BY <1>1, WriteIInv
<1>2. CASE WriteAt
  BY <1>2, WriteAtIInv
<1>3. CASE Seek
  BY <1>3, SeekIInv
<1>4. CASE UNCHANGED vars
  BY <1>4 DEF IInv, TypeOK, vars
<1>. QED  BY <1>1, <1>2, <1>3, <1>4 DEF Next

(* OffsetWriter is well typed: every offset it holds, passes on or       *)
(* returns is an int64, whatever the calls.                              *)
THEOREM TypeCorrect == Proper => (Spec => []TypeOK)
<1> SUFFICES ASSUME Proper PROVE Spec => []TypeOK
  OBVIOUS
<1>1. Init => IInv
  BY InitIInv
<1>2. IInv /\ [Next]_vars => IInv'
  BY NextIInv
<1>3. IInv => TypeOK
  BY DEF IInv
<1>. QED  BY <1>1, <1>2, <1>3, PTL DEF Spec

(* For a base >= 0 over a destination that ends before the last int64     *)
(* offset, Write's off += n and Seek's offset += base/off never wrap: off *)
(* is always base plus the caller's position and a successful Seek       *)
(* returns that position (PositionExact, checked by run offset_writer).   *)
THEOREM PositionExactHolds == Proper => (Spec => []PositionExact)
<1> SUFFICES ASSUME Proper PROVE Spec => []PositionExact
  OBVIOUS
<1>1. Init => IInv
  BY InitIInv
<1>2. IInv /\ [Next]_vars => IInv'
  BY NextIInv
<1>3. IInv => PositionExact
  BY DEF IInv, PositionExact
<1>. QED  BY <1>1, <1>2, <1>3, PTL DEF Spec

====
