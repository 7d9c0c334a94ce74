------------------------- MODULE ReadHelpersProofs -------------------------
(***************************************************************************)
(* Proofs about ReadAtLeast, ReadFull and ReadAll, for every source size,  *)
(* buffer length, min argument and starting capacity: the documented      *)
(* contracts between the count and the error they return.                 *)
(***************************************************************************)
EXTENDS ReadHelpers, TLAPS

USE HelpersAssumption

(* The inductive invariant: the count is what the source has handed out, *)
(* the last Read's error is one a Reader returns, and the contracts hold.  *)
IInv ==
  /\ TypeOK
  /\ n = rpos
  /\ capB \in Nat
  /\ pc = "start" => n = 0
  /\ err \in {"nil", "EOF", "ErrRead"}
  /\ AtLeastContract
  /\ ReadAllResult

(* What r.Read(p) with len(p) = m can return: at most m of the bytes     *)
(* left, a Reader's error, and with EOF every byte that was left.          *)
LEMMA SourceReadFacts ==
  ASSUME srcLen \in Nat, rpos \in 0..srcLen, NEW m \in Int,
         NEW r \in SourceRead(m)
  PROVE  /\ r \in [n : 0..(srcLen - rpos), err : {"nil", "EOF", "ErrRead"}]
         /\ r.n <= m
         /\ r.err = "EOF" => r.n = srcLen - rpos
<1>1. \A k \in 0..MinOf(m, srcLen - rpos) : k \in 0..(srcLen - rpos) /\ k <= m
  BY DEF MinOf
<1>2. CASE r \in {[n |-> k, err |-> "nil"] : k \in 1..MinOf(m, srcLen - rpos)}
  BY <1>1, <1>2
<1>3. CASE r \in (IF srcLen - rpos <= m
                   THEN {[n |-> srcLen - rpos, err |-> "EOF"]} ELSE {})
  BY <1>3
<1>4. CASE r \in {[n |-> k, err |-> "ErrRead"] : k \in 0..MinOf(m, srcLen - rpos)}
  BY <1>1, <1>4
<1>. QED  BY <1>2, <1>3, <1>4 DEF SourceRead

(* Every initial state satisfies the invariant.                            *)
LEMMA InitIInv == Init => IInv
<1> SUFFICES ASSUME Init PROVE IInv
  OBVIOUS
<1>1. call \in [fn : Fns, len : Nat, min : Int]
  BY DEF Init, Fns
<1>. QED  BY <1>1 DEF Init, IInv, TypeOK, IsAtLeast, Errs, AtLeastContract,
                     ReadAllResult, AtLeastDone

(* ReadAtLeast's first step returns ErrShortBuffer or enters the loop.     *)
LEMMA AtLeastStartIInv == IInv /\ AtLeastStart => IInv'
BY DEF IInv, AtLeastStart, Return, TypeOK, Errs, AtLeastContract,
       ReadAllResult, AtLeastDone, IsAtLeast

(* A Read of the loop moves the count and the source together.             *)
LEMMA AtLeastReadIInv == IInv /\ AtLeastRead => IInv'
<1> SUFFICES ASSUME IInv, AtLeastRead PROVE IInv'
  OBVIOUS
<1>1. PICK r \in SourceRead(Rest) : /\ rpos' = rpos + r.n
                                    /\ n' = n + r.n
                                    /\ err' = r.err
  BY DEF AtLeastRead
<1>2. /\ r \in [n : 0..(srcLen - rpos), err : {"nil", "EOF", "ErrRead"}]
      /\ r.n <= call.len - n
  BY SourceReadFacts DEF IInv, TypeOK, Rest
<1>. QED  BY <1>1, <1>2 DEF AtLeastRead, IInv, TypeOK, Errs, AtLeastContract,
                           ReadAllResult, AtLeastDone, IsAtLeast

(* The return after the loop: nil once min bytes are in, otherwise the     *)
(* Read's error, with EOF after some bytes turned into ErrUnexpectedEOF.   *)
LEMMA AtLeastReturnIInv == IInv /\ AtLeastReturn => IInv'
<1> SUFFICES ASSUME IInv, AtLeastReturn PROVE IInv'
  OBVIOUS
<1>1. n >= call.min \/ err # "nil"
  BY DEF AtLeastReturn, LoopGo, IInv, TypeOK, IsAtLeast
<1>2. /\ result' = [n |-> n, err |-> AtLeastErr(n, err)]
      /\ pc' = "done" /\ IsAtLeast /\ UNCHANGED <<call, srcLen, rpos, n, capB, err>>
  BY DEF AtLeastReturn, Return, IsAtLeast
<1>3. /\ AtLeastErr(n, err) \in Errs
      /\ AtLeastErr(n, err) = "nil" <=> n >= call.min
  <2>1. n \in Nat /\ call.min \in Int /\ err \in {"nil", "EOF", "ErrRead"}
    BY DEF AtLeastReturn, IInv, TypeOK, IsAtLeast
  <2>. QED  BY <1>1, <2>1 DEF AtLeastErr, Errs
<1>. QED  BY <1>2, <1>3 DEF IInv, TypeOK, AtLeastContract,
                           ReadAllResult, AtLeastDone, IsAtLeast

(* ReadAll's make([]byte, 0, 512).                                         *)
LEMMA ReadAllStartIInv == IInv /\ ReadAllStart => IInv'
<1> SUFFICES ASSUME IInv, ReadAllStart PROVE IInv'
  OBVIOUS
<1>1. n = 0 /\ capB' = InitCap /\ pc' = "loop" /\ ~IsAtLeast
  BY DEF IInv, ReadAllStart, IsAtLeast
<1>2. TypeOK'
  BY <1>1 DEF IInv, ReadAllStart, TypeOK, IsAtLeast
<1>. QED  BY <1>1, <1>2 DEF IInv, ReadAllStart, AtLeastContract,
                           ReadAllResult, AtLeastDone

(* One ReadAll iteration: the capacity append picks holds len(b), the    *)
(* Read fills at most the rest, and an EOF comes with the whole stream.    *)
LEMMA ReadAllStepIInv == IInv /\ ReadAllStep => IInv'
<1> SUFFICES ASSUME IInv, ReadAllStep PROVE IInv'
  OBVIOUS
<1>0. PICK c \in Grown(capB) : \E r \in SourceRead(c - n) :
        /\ capB' = c
        /\ rpos' = rpos + r.n
        /\ n' = n + r.n
        /\ err' = r.err
        /\ IF r.err # "nil"
             THEN Return(n + r.n, ReadAllErr(r.err))
             ELSE UNCHANGED <<pc, result>>
  BY DEF ReadAllStep
<1>1. PICK r \in SourceRead(c - n) :
        /\ capB' = c
        /\ rpos' = rpos + r.n
        /\ n' = n + r.n
        /\ err' = r.err
        /\ IF r.err # "nil"
             THEN Return(n + r.n, ReadAllErr(r.err))
             ELSE UNCHANGED <<pc, result>>
  BY <1>0
<1>2. c \in Nat /\ n <= c /\ ~IsAtLeast /\ pc = "loop" /\ UNCHANGED <<call, srcLen>>
  BY DEF Grown, IInv, TypeOK, ReadAllStep, IsAtLeast
<1>3. /\ r \in [n : 0..(srcLen - rpos), err : {"nil", "EOF", "ErrRead"}]
      /\ r.n <= c - n
      /\ r.err = "EOF" => r.n = srcLen - rpos
  BY <1>2, SourceReadFacts DEF IInv, TypeOK
<1>4. /\ srcLen' \in 0..MaxLen /\ rpos' \in 0..srcLen'
      /\ n' = rpos' /\ n' \in 0..capB' /\ capB' \in Nat
      /\ err' \in {"nil", "EOF", "ErrRead"} /\ ~IsAtLeast'
  BY <1>1, <1>2, <1>3 DEF IInv, TypeOK, IsAtLeast
<1>5. CASE r.err # "nil"
  <2>1. result' = [n |-> n + r.n, err |-> ReadAllErr(r.err)] /\ pc' = "done"
    BY <1>1, <1>5 DEF Return
  <2>2. /\ ReadAllErr(r.err) \in {"nil", "ErrRead"}
        /\ ReadAllErr(r.err) = "nil" => n + r.n = srcLen
    BY <1>3, <1>5 DEF ReadAllErr, IInv, TypeOK
  <2>3. n + r.n \in Nat
    BY <1>3 DEF IInv, TypeOK
  <2>4. TypeOK'
    BY <1>1, <1>2, <1>4, <2>1, <2>2, <2>3 DEF IInv, TypeOK, Errs
  <2>. QED  BY <1>1, <1>2, <1>4, <2>1, <2>2, <2>4
            DEF IInv, AtLeastContract, ReadAllResult, AtLeastDone
<1>6. CASE r.err = "nil"
  <2>1. UNCHANGED <<pc, result>> /\ pc' = "loop"
    BY <1>1, <1>2, <1>6
  <2>2. TypeOK'
    BY <1>1, <1>2, <1>4, <2>1 DEF IInv, TypeOK, Errs
  <2>. QED  BY <1>4, <2>1, <2>2
            DEF IInv, AtLeastContract, ReadAllResult, AtLeastDone
<1>. QED  BY <1>5, <1>6

(* The invariant is inductive.                                             *)
LEMMA NextIInv == IInv /\ [Next]_vars => IInv'
<1> SUFFICES ASSUME IInv, [Next]_vars PROVE IInv'
  OBVIOUS
<1>1. CASE UNCHANGED vars
  BY <1>1 DEF vars, IInv, TypeOK, IsAtLeast, AtLeastContract,
              ReadAllResult, AtLeastDone
<1>. QED  BY <1>1, AtLeastStartIInv, AtLeastReadIInv, AtLeastReturnIInv,
             ReadAllStartIInv, ReadAllStepIInv DEF Next

(* ReadAtLeast's n never passes len(buf), so buf[n:] is always in range,   *)
(* and ReadAll's len(b) never passes cap(b), for every input.              *)
THEOREM TypeCorrect == Spec => []TypeOK
<1>1. IInv => TypeOK  BY DEF IInv
<1>. QED  BY InitIInv, NextIInv, <1>1, PTL DEF Spec

(* ReadAtLeast and ReadFull return err = nil exactly when n >= min, for    *)
(* every buffer length, min and source, as their comments promise.         *)
THEOREM AtLeastContractHolds == Spec => []AtLeastContract
<1>1. IInv => AtLeastContract  BY DEF IInv
<1>. QED  BY InitIInv, NextIInv, <1>1, PTL DEF Spec

(* ReadAll never returns EOF, and returns nil only with the whole stream.  *)
THEOREM ReadAllResultHolds == Spec => []ReadAllResult
<1>1. IInv => ReadAllResult  BY DEF IInv
<1>. QED  BY InitIInv, NextIInv, <1>1, PTL DEF Spec

=============================================================================
