------------------------- MODULE SectionReaderProofs -------------------------
(***************************************************************************)
(* Proofs about SectionReader for every width and every set of arguments  *)
(* NewSectionReader is meant for (off >= 0, n >= 0): it is well typed, no *)
(* underlying ReadAt leaves the section, Seek is exact, a short ReadAt has *)
(* an error, and Read never slices with a negative length.                 *)
(***************************************************************************)
EXTENDS SectionReader, WrapIntProofs

USE WidthAssumption, RangeAssumption, SectionAssumption

(* NewSectionReader's limit: off + n, or maxint64 when that overflows;     *)
(* either way between off and off + n.                                     *)
LEMMA NewLimitFacts ==
  ASSUME NEW o \in 0..MaxInt, NEW n \in 0..MaxInt
  PROVE  NewLimit(o, n) \in o..MaxInt /\ NewLimit(o, n) <= o + n
<1>1. SubW(MaxInt, n) = MaxInt - n
  <2>1. MaxInt - n \in IntW
    BY DEF IntW
  <2>. QED  BY <2>1, WrapId DEF SubW
<1>2. CASE o <= MaxInt - n
  <2>1. n + o \in IntW
    BY <1>2 DEF IntW
  <2>2. AddW(n, o) = n + o
    BY <2>1, AddWExact
  <2>. QED  BY <1>1, <1>2, <2>2 DEF NewLimit
<1>3. CASE o > MaxInt - n
  BY <1>1, <1>3 DEF NewLimit
<1>. QED  BY <1>2, <1>3

(* What the underlying ReaderAt can answer: at most m bytes, and an error *)
(* whenever fewer.                                                         *)
LEMMA ReadAtFacts ==
  ASSUME NEW o \in Int, NEW m \in 0..MaxInt, NEW r \in ReadAtOutcomes(o, m)
  PROVE  /\ r.n \in 0..m
         /\ r.err \in {"nil", "EOF", "ErrRead"}
         /\ r.n < m => r.err # "nil"
BY DEF ReadAtOutcomes, MinOf, MaxOf

-----------------------------------------------------------------------------

(* The inductive invariant: the window lies in range and inside base + n, *)
(* off never goes before base, the last request lies inside the window,    *)
(* and no panic has happened.                                              *)
IInv ==
  /\ TypeOK
  /\ base \in 0..MaxInt /\ size \in 0..MaxInt
  /\ limit \in base..MaxInt /\ limit <= base + size
  /\ off \in base..MaxInt
  /\ req # NoReq => /\ req.len \in 0..MaxInt
                    /\ base <= req.at /\ req.at + req.len <= limit
  /\ last.err # "panic"
  /\ SeekExact
  /\ ReadAtShortHasError

(* Every initial state of a proper section satisfies it.                  *)
LEMMA InitIInv == Proper /\ Init => IInv
<1> SUFFICES ASSUME Proper, Init PROVE IInv
  OBVIOUS
<1>1. PICK o \in OffArgs, n \in NArgs :
        /\ base = o /\ off = o /\ limit = NewLimit(o, n) /\ size = n
        /\ req = NoReq /\ last = Call("New", 0, 0, "nil", 0)
  BY DEF Init
<1>2. o \in 0..MaxInt /\ n \in 0..MaxInt
  BY DEF Proper
<1>3. NewLimit(o, n) \in o..MaxInt /\ NewLimit(o, n) <= o + n
  BY <1>2, NewLimitFacts
<1>. QED  BY <1>1, <1>2, <1>3
          DEF IInv, TypeOK, Call, Errs, IntW, NoReq, SeekExact, ReadAtShortHasError

(* Read: below the limit, limit - off is a positive int64, so the clip    *)
(* never has a negative length and off += n stops at the limit.           *)
LEMMA ReadIInv == IInv /\ Read => IInv'
<1> SUFFICES ASSUME IInv, Read PROVE IInv'
  OBVIOUS
<1>1. PICK plen \in LenArgs :
        IF off >= limit
          THEN /\ req' = NoReq
               /\ last' = Call("Read", plen, 0, "EOF", 0)
               /\ UNCHANGED <<base, off, limit, size>>
        ELSE IF ReadClip(plen, SubW(limit, off)) < 0
          THEN /\ req' = NoReq
               /\ last' = Call("Read", plen, 0, "panic", 0)
               /\ UNCHANGED <<base, off, limit, size>>
        ELSE LET m == ReadClip(plen, SubW(limit, off))
             IN  \E r \in ReadAtOutcomes(off, m) :
                   /\ req' = [at |-> off, len |-> m]
                   /\ off' = AddW(off, r.n)
                   /\ last' = Call("Read", plen, r.n, r.err, 0)
                   /\ UNCHANGED <<base, limit, size>>
  BY DEF Read
<1>2. plen \in 0..MaxInt
  OBVIOUS
<1>3. CASE off >= limit
  BY <1>1, <1>2, <1>3 DEF IInv, TypeOK, Call, Errs, IntW, NoReq,
                          SeekExact, ReadAtShortHasError
<1>4. CASE off < limit
  <2>1. SubW(limit, off) = limit - off
    <3>1. limit - off \in IntW
      BY <1>4 DEF IInv, IntW
    <3>. QED  BY <3>1, WrapId DEF SubW
  <2> DEFINE m == ReadClip(plen, SubW(limit, off))
  <2>2. m \in 0..(limit - off)
    BY <1>2, <1>4, <2>1 DEF ReadClip, IInv, IntW
  <2>3. PICK r \in ReadAtOutcomes(off, m) :
             /\ req' = [at |-> off, len |-> m]
             /\ off' = AddW(off, r.n)
             /\ last' = Call("Read", plen, r.n, r.err, 0)
             /\ UNCHANGED <<base, limit, size>>
    <3>1. ~(off >= limit) /\ ~(ReadClip(plen, SubW(limit, off)) < 0)
      BY <1>4, <2>2 DEF m, IInv, IntW
    <3>. QED  BY <1>1, <3>1
  <2>4. m \in 0..MaxInt
    BY <2>2 DEF IInv, IntW
  <2>5. r.n \in 0..m /\ r.err \in {"nil", "EOF", "ErrRead"}
    BY <2>4, ReadAtFacts DEF IInv, IntW
  <2>6. off + r.n \in IntW
    BY <2>2, <2>5 DEF IInv, IntW
  <2>7. off' = off + r.n
    BY <2>3, <2>6, WrapId DEF AddW
  <2>8. req' # NoReq /\ req'.len = m /\ req'.at = off
    BY <2>2, <2>3 DEF NoReq, IInv, IntW
  <2>9. last' = [op |-> "Read", want |-> plen, n |-> r.n, err |-> r.err, target |-> 0]
    BY <2>3 DEF Call
  <2>10. TypeOK'
    BY <1>2, <2>2, <2>3, <2>4, <2>5, <2>6, <2>7, <2>8, <2>9
       DEF IInv, TypeOK, Errs, IntW
  <2>. QED  BY <2>2, <2>3, <2>4, <2>5, <2>7, <2>8, <2>9, <2>10
            DEF IInv, IntW, SeekExact, ReadAtShortHasError
<1>. QED  BY <1>3, <1>4 DEF IInv, IntW

(* Seek: every origin (base, off, limit) is a non-negative int64, so a    *)
(* sum that overflows wraps below zero, below base, and is refused.        *)
LEMMA SeekIInv == IInv /\ Seek => IInv'
<1> SUFFICES ASSUME IInv, Seek PROVE IInv'
  OBVIOUS
<1>1. PICK offset \in SeekArgs, whence \in Whences :
        /\ req' = NoReq
        /\ UNCHANGED <<base, limit, size>>
        /\ IF whence \notin {SeekStart, SeekCurrent, SeekEnd}
             THEN /\ last' = Call("Seek", 0, 0, "errWhence", 0)
                  /\ UNCHANGED off
           ELSE LET abs == AddW(offset, SeekOrigin(whence))
                    target == offset + SeekOrigin(whence)
                IN  IF SeekRefused(abs)
                      THEN /\ last' = Call("Seek", 0, 0, "errOffset", target)
                           /\ UNCHANGED off
                    ELSE /\ off' = abs
                         /\ last' = Call("Seek", 0, SubW(abs, base), "nil", target)
  BY DEF Seek
<1>2. req' = NoReq /\ UNCHANGED <<base, limit, size>> /\ offset \in IntW
  BY <1>1
<1>3. CASE whence \notin {SeekStart, SeekCurrent, SeekEnd}
  BY <1>1, <1>2, <1>3 DEF IInv, TypeOK, Call, Errs, IntW, NoReq,
                          SeekExact, ReadAtShortHasError
<1>4. CASE whence \in {SeekStart, SeekCurrent, SeekEnd}
  <2> DEFINE origin == SeekOrigin(whence)
             abs == AddW(offset, origin)
             target == offset + origin
  <2>1. origin \in 0..MaxInt
    BY <1>4 DEF SeekOrigin, SeekStart, SeekCurrent, SeekEnd, IInv, IntW
  <2>0. target \in Int
    BY <1>2, <2>1 DEF target, IntW
  <2>2. abs \in IntW
    <3>1. offset + origin \in Int
      BY <1>2, <2>1 DEF IntW
    <3>. QED  BY <3>1, WrapType DEF AddW
  <2>3. CASE SeekRefused(abs)
    <3>1. /\ last' = Call("Seek", 0, 0, "errOffset", target)
          /\ UNCHANGED off
      BY <1>1, <1>4, <2>3
    <3>. QED  BY <1>2, <2>0, <3>1 DEF IInv, TypeOK, Call, Errs, IntW, NoReq,
                                    SeekExact, ReadAtShortHasError
  <2>4. CASE ~SeekRefused(abs)
    <3>1. abs >= base
      BY <2>2, <2>4 DEF SeekRefused, IInv, IntW
    <3>2. offset + origin <= MaxInt
      <4>1. SUFFICES ASSUME offset + origin > MaxInt PROVE FALSE
        BY <1>2, <2>1 DEF IntW
      <4>2. abs < 0
        BY <1>2, <2>1, <4>1, AddWOverflow DEF abs
      <4>. QED  BY <2>2, <3>1, <4>2 DEF IInv, IntW
    <3>3. offset + origin \in IntW
      BY <1>2, <2>1, <3>2 DEF IntW
    <3>4. abs = target
      BY <3>3, WrapId DEF abs, target, AddW
    <3>5. abs - base \in 0..MaxInt
      BY <2>2, <3>1 DEF IInv, IntW
    <3>6. SubW(abs, base) = abs - base
      <4>1. abs - base \in IntW
        BY <3>5 DEF IntW
      <4>. QED  BY <4>1, WrapId DEF SubW
    <3>7. /\ off' = abs
          /\ last' = Call("Seek", 0, abs - base, "nil", target)
      BY <1>1, <1>4, <2>4, <3>6
    <3>8. TypeOK'
      BY <1>2, <2>0, <2>2, <3>5, <3>7 DEF IInv, TypeOK, Call, Errs, IntW, NoReq
    <3>9. SeekExact' /\ ReadAtShortHasError'
      BY <1>2, <2>0, <3>4, <3>5, <3>7 DEF SeekExact, ReadAtShortHasError, Call, IntW
    <3>. QED  BY <1>2, <2>2, <3>1, <3>7, <3>8, <3>9 DEF IInv, IntW, Call, NoReq
  <2>. QED  BY <2>3, <2>4
<1>. QED  BY <1>3, <1>4

(* ReadAt: an offset inside [0, Size()) lands below the limit, so the     *)
(* request, cut to limit - (base + o) when it would cross it, stays inside *)
(* the section, and the cut request reports EOF for a nil error.          *)
LEMMA ReadAtIInv == IInv /\ ReadAt => IInv'
<1> SUFFICES ASSUME IInv, ReadAt PROVE IInv'
  OBVIOUS
<1>1. PICK plen \in LenArgs, o \in AtArgs :
        /\ UNCHANGED <<base, off, limit, size>>
        /\ IF o < 0 \/ o >= Size
             THEN /\ req' = NoReq
                  /\ last' = Call("ReadAt", plen, 0, "EOF", 0)
           ELSE LET at == AddW(o, base)
                    max == SubW(limit, at)
                IN  IF plen > max
                      THEN \E r \in ReadAtOutcomes(at, max) :
                             /\ req' = [at |-> at, len |-> max]
                             /\ last' = Call("ReadAt", plen, r.n, ClipErr(r.err), 0)
                    ELSE \E r \in ReadAtOutcomes(at, plen) :
                             /\ req' = [at |-> at, len |-> plen]
                             /\ last' = Call("ReadAt", plen, r.n, r.err, 0)
  BY DEF ReadAt
<1>2. plen \in 0..MaxInt /\ o \in IntW /\ UNCHANGED <<base, off, limit, size>>
  BY <1>1
<1>3. Size = limit - base
  <2>1. limit - base \in IntW
    BY DEF IInv, IntW
  <2>. QED  BY <2>1, WrapId DEF Size, SubW
<1>4. CASE o < 0 \/ o >= Size
  <2>1. req' = NoReq /\ last' = Call("ReadAt", plen, 0, "EOF", 0)
    BY <1>1, <1>4
  <2>. QED  BY <1>2, <2>1 DEF IInv, TypeOK, Call, Errs, IntW, NoReq,
                              SeekExact, ReadAtShortHasError
<1>5. CASE ~(o < 0 \/ o >= Size)
  <2> DEFINE at == AddW(o, base)
             max == SubW(limit, at)
  <2>1. o \in 0..(limit - base - 1)
    BY <1>2, <1>3, <1>5 DEF IInv, IntW
  <2>2. at = o + base /\ at \in base..(limit - 1)
    <3>1. o + base \in IntW
      BY <2>1 DEF IInv, IntW
    <3>. QED  BY <2>1, <3>1, WrapId DEF at, AddW, IInv, IntW
  <2>3. max = limit - at /\ max \in 1..MaxInt
    <3>1. limit - at \in IntW
      BY <2>2 DEF IInv, IntW
    <3>. QED  BY <2>2, <3>1, WrapId DEF max, SubW, IInv, IntW
  <2>4. CASE plen > max
    <3>1. PICK r \in ReadAtOutcomes(at, max) :
               /\ req' = [at |-> at, len |-> max]
               /\ last' = Call("ReadAt", plen, r.n, ClipErr(r.err), 0)
      BY <1>1, <1>5, <2>4
    <3>2. r.n \in 0..max /\ r.err \in {"nil", "EOF", "ErrRead"}
      BY <2>2, <2>3, ReadAtFacts DEF IInv, IntW
    <3>3. ClipErr(r.err) \in {"EOF", "ErrRead"}
      BY <3>2 DEF ClipErr
    <3>4. TypeOK'
      BY <1>2, <2>2, <2>3, <3>1, <3>2, <3>3 DEF IInv, TypeOK, Call, Errs, IntW
    <3>. QED  BY <1>2, <2>2, <2>3, <2>4, <3>1, <3>2, <3>3, <3>4
              DEF IInv, Call, NoReq, IntW, SeekExact, ReadAtShortHasError
  <2>5. CASE ~(plen > max)
    <3>1. PICK r \in ReadAtOutcomes(at, plen) :
               /\ req' = [at |-> at, len |-> plen]
               /\ last' = Call("ReadAt", plen, r.n, r.err, 0)
      BY <1>1, <1>5, <2>5
    <3>2. /\ r.n \in 0..plen /\ r.err \in {"nil", "EOF", "ErrRead"}
          /\ r.n < plen => r.err # "nil"
      BY <1>2, <2>2, ReadAtFacts DEF IInv, IntW
    <3>3. TypeOK'
      BY <1>2, <2>2, <3>1, <3>2 DEF IInv, TypeOK, Call, Errs, IntW
    <3>. QED  BY <1>2, <2>2, <2>3, <2>5, <3>1, <3>2, <3>3
              DEF IInv, Call, NoReq, IntW, SeekExact, ReadAtShortHasError
  <2>. QED  BY <2>4, <2>5
<1>. QED  BY <1>4, <1>5

(* The invariant is inductive.                                             *)
LEMMA NextIInv == IInv /\ [Next]_vars => IInv'
<1> SUFFICES ASSUME IInv, [Next]_vars PROVE IInv'
  OBVIOUS
<1>1. CASE Read
  BY <1>1, ReadIInv
<1>2. CASE Seek
  BY <1>2, SeekIInv
<1>3. CASE ReadAt
  BY <1>3, ReadAtIInv
<1>4. CASE UNCHANGED vars
  BY <1>4 DEF IInv, TypeOK, SeekExact, ReadAtShortHasError, vars
<1>. QED  BY <1>1, <1>2, <1>3, <1>4 DEF Next

-----------------------------------------------------------------------------

(* A proper SectionReader is well typed: every offset it holds, passes on *)
(* or returns is an int64, whatever the calls.                           *)
THEOREM TypeCorrect == Proper => (Spec => []TypeOK)
<1> SUFFICES ASSUME Proper PROVE Spec => []TypeOK
  OBVIOUS
<1>1. Init => IInv
  BY InitIInv
<1>2. IInv /\ [Next]_vars => IInv'
  BY NextIInv
<1>3. IInv => TypeOK
  BY DEF IInv
<1>. QED  BY <1>1, <1>2, <1>3, PTL DEF Spec

(* For a section made with off >= 0 and n >= 0, no ReadAt that Read or   *)
(* ReadAt issues to the underlying reader leaves [base, base + n), after  *)
(* any sequence of Seeks, including ones that overflow int64 (WindowSafe, *)
(* checked by run section_reader).                                          *)
THEOREM WindowSafeHolds == Proper => (Spec => []WindowSafe)
<1> SUFFICES ASSUME Proper PROVE Spec => []WindowSafe
  OBVIOUS
<1>1. Init => IInv
  BY InitIInv
<1>2. IInv /\ [Next]_vars => IInv'
  BY NextIInv
<1>3. IInv => WindowSafe
  BY DEF IInv, TypeOK, WindowSafe, MaxOf, IntW
<1>. QED  BY <1>1, <1>2, <1>3, PTL DEF Spec

(* A successful Seek of a proper section lands on the position asked for, *)
(* computed without wrapping, and returns it relative to base; the int64 *)
(* overflow of offset += base/off/limit is always refused (SeekExact).    *)
THEOREM SeekExactHolds == Proper => (Spec => []SeekExact)
<1> SUFFICES ASSUME Proper PROVE Spec => []SeekExact
  OBVIOUS
<1>1. Init => IInv
  BY InitIInv
<1>2. IInv /\ [Next]_vars => IInv'
  BY NextIInv
<1>3. IInv => SeekExact
  BY DEF IInv
<1>. QED  BY <1>1, <1>2, <1>3, PTL DEF Spec

(* SectionReader.ReadAt of a proper section returns an error whenever it  *)
(* returns fewer bytes than asked for, also when the request was cut at   *)
(* the limit (ReadAtShortHasError).                                        *)
THEOREM ReadAtShortHasErrorHolds == Proper => (Spec => []ReadAtShortHasError)
<1> SUFFICES ASSUME Proper PROVE Spec => []ReadAtShortHasError
  OBVIOUS
<1>1. Init => IInv
  BY InitIInv
<1>2. IInv /\ [Next]_vars => IInv'
  BY NextIInv
<1>3. IInv => ReadAtShortHasError
  BY DEF IInv
<1>. QED  BY <1>1, <1>2, <1>3, PTL DEF Spec

-----------------------------------------------------------------------------

(* Read's step: at or past the limit it returns 0 and leaves off; below   *)
(* it the clip keeps the request within limit - off, so off += n is exact *)
(* and stops at the limit.                                                 *)
LEMMA ReadStepAdvances == IInv /\ Read => ReadStepOK
<1> SUFFICES ASSUME IInv, Read PROVE ReadStepOK
  OBVIOUS
<1>1. PICK plen \in LenArgs :
        IF off >= limit
          THEN /\ req' = NoReq
               /\ last' = Call("Read", plen, 0, "EOF", 0)
               /\ UNCHANGED <<base, off, limit, size>>
        ELSE IF ReadClip(plen, SubW(limit, off)) < 0
          THEN /\ req' = NoReq
               /\ last' = Call("Read", plen, 0, "panic", 0)
               /\ UNCHANGED <<base, off, limit, size>>
        ELSE LET m == ReadClip(plen, SubW(limit, off))
             IN  \E r \in ReadAtOutcomes(off, m) :
                   /\ req' = [at |-> off, len |-> m]
                   /\ off' = AddW(off, r.n)
                   /\ last' = Call("Read", plen, r.n, r.err, 0)
                   /\ UNCHANGED <<base, limit, size>>
  BY DEF Read
<1>2. plen \in 0..MaxInt
  OBVIOUS
<1>ty. off \in 0..MaxInt /\ limit \in 0..MaxInt
  BY DEF IInv
<1>3. CASE off >= limit
  <2>1. off' = off /\ last' = Call("Read", plen, 0, "EOF", 0)
    BY <1>1, <1>3
  <2>. QED  BY <1>ty, <1>3, <2>1 DEF ReadStepOK, Call
<1>4. CASE off < limit
  <2>1. SubW(limit, off) = limit - off
    <3>1. limit - off \in IntW
      BY <1>ty, <1>4 DEF IntW
    <3>. QED  BY <3>1, WrapId DEF SubW
  <2> DEFINE m == ReadClip(plen, SubW(limit, off))
  <2>2. m \in 0..(limit - off)
    BY <1>2, <1>ty, <1>4, <2>1 DEF ReadClip
  <2>3. PICK r \in ReadAtOutcomes(off, m) :
             /\ off' = AddW(off, r.n)
             /\ last' = Call("Read", plen, r.n, r.err, 0)
    <3>1. ~(off >= limit) /\ ~(ReadClip(plen, SubW(limit, off)) < 0)
      BY <1>ty, <1>4, <2>2 DEF m
    <3>. QED  BY <1>1, <3>1
  <2>4. r.n \in 0..m
    <3>1. m \in 0..MaxInt
      BY <1>ty, <2>2
    <3>. QED  BY <3>1, <1>ty, ReadAtFacts
  <2>5. off + r.n \in IntW /\ off + r.n <= limit
    BY <1>ty, <2>2, <2>4 DEF IntW
  <2>6. off' = off + r.n
    BY <2>3, <2>5, WrapId DEF AddW
  <2>7. last'.n = r.n
    BY <2>3 DEF Call
  <2>. QED  BY <2>5, <2>6, <2>7 DEF ReadStepOK
<1>. QED  BY <1>3, <1>4, <1>ty

(* Every step of the model satisfies ReadStepOK: only Read reports        *)
(* "Read" as the last call.                                                *)
LEMMA NextReadStepOK == IInv /\ [Next]_vars => [ReadStepOK]_vars
<1> SUFFICES ASSUME IInv, [Next]_vars PROVE [ReadStepOK]_vars
  OBVIOUS
<1>1. CASE Read
  BY <1>1, ReadStepAdvances
<1>2. CASE Seek
  <2>1. last'.op = "Seek"
    BY <1>2 DEF Seek, Call
  <2>. QED  BY <2>1 DEF ReadStepOK
<1>3. CASE ReadAt
  <2>1. last'.op = "ReadAt"
    BY <1>3 DEF ReadAt, Call
  <2>. QED  BY <2>1 DEF ReadStepOK
<1>4. CASE UNCHANGED vars
  BY <1>4 DEF vars
<1>. QED  BY <1>1, <1>2, <1>3, <1>4 DEF Next

(* For a section made with off >= 0 and n >= 0, every Read moves the      *)
(* offset forward by exactly the count it returns, without an int64 wrap, *)
(* and a Read from inside the section never leaves off past its end, after *)
(* any Seeks (ReadAdvances, checked by run section_reader).                *)
THEOREM ReadAdvancesHolds == Proper => (Spec => ReadAdvances)
<1> SUFFICES ASSUME Proper PROVE Spec => ReadAdvances
  OBVIOUS
<1>1. Init => IInv
  BY InitIInv
<1>2. IInv /\ [Next]_vars => IInv'
  BY NextIInv
<1>3. IInv /\ [Next]_vars => [ReadStepOK]_vars
  BY NextReadStepOK
<1>. QED  BY <1>1, <1>2, <1>3, PTL DEF Spec, ReadAdvances

(* For a section made with off >= 0 and n >= 0, Read never slices p with  *)
(* a negative length, whatever Seeks came before: limit - off does not    *)
(* wrap because Seek refuses every position before base (NoReadPanic,     *)
(* checked by run section_reader).                                         *)
THEOREM NoReadPanicHolds == Proper => (Spec => []NoReadPanic)
<1> SUFFICES ASSUME Proper PROVE Spec => []NoReadPanic
  OBVIOUS
<1>1. Init => IInv
  BY InitIInv
<1>2. IInv /\ [Next]_vars => IInv'
  BY NextIInv
<1>3. IInv => NoReadPanic
  BY DEF IInv, NoReadPanic
<1>. QED  BY <1>1, <1>2, <1>3, PTL DEF Spec

====
