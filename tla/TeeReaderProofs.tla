-------------------------- MODULE TeeReaderProofs --------------------------
(***************************************************************************)
(* Proofs about io.TeeReader, for every source size and every set of read *)
(* lengths: the writer receives exactly the bytes the caller is handed,    *)
(* and bytes are lost only behind an error the caller is told about.       *)
(***************************************************************************)
EXTENDS TeeReader, SequenceTheorems, TLAPS

USE TeeAssumption

(* Chunk(from, k) is the sequence from+1 .. from+k.                        *)
LEMMA ChunkFacts ==
  ASSUME NEW from \in Nat, NEW k \in Nat, NEW hi \in Nat, from + k <= hi
  PROVE  /\ Chunk(from, k) \in Seq(1..hi)
         /\ Len(Chunk(from, k)) = k
         /\ \A j \in 1..k : Chunk(from, k)[j] = from + j
<1>1. \A j \in 1..k : from + j \in 1..hi
  OBVIOUS
<1>2. Chunk(from, k) \in Seq(1..hi)
  BY <1>1, IsASeq DEF Chunk
<1>. QED  BY <1>2 DEF Chunk

(* Appending the next k positions to the prefix 1..Len(s) gives the        *)
(* prefix 1..Len(s)+k.                                                     *)
LEMMA AppendChunk ==
  ASSUME NEW hi \in Nat, NEW s \in Seq(1..hi), NEW k \in Nat,
         Len(s) + k <= hi,
         \A i \in 1..Len(s) : s[i] = i
  PROVE  /\ s \o Chunk(Len(s), k) \in Seq(1..hi)
         /\ Len(s \o Chunk(Len(s), k)) = Len(s) + k
         /\ \A i \in 1..(Len(s) + k) : (s \o Chunk(Len(s), k))[i] = i
<1> DEFINE c == Chunk(Len(s), k)
<1>1. /\ c \in Seq(1..hi)
      /\ Len(c) = k
      /\ \A j \in 1..k : c[j] = Len(s) + j
  BY ChunkFacts
<1>2. /\ s \o c \in Seq(1..hi)
      /\ Len(s \o c) = Len(s) + Len(c)
      /\ \A i \in 1 .. Len(s) + Len(c) :
            (s \o c)[i] = IF i <= Len(s) THEN s[i] ELSE c[i - Len(s)]
  <2>. HIDE DEF c
  <2>. QED  BY <1>1, ConcatProperties
<1>. QED  BY <1>1, <1>2

(* One Read through the TeeReader: r gives at most what is left; the      *)
(* count returned is what w took, and it is all r gave unless a Write     *)
(* error is returned.                                                      *)
LEMMA ReadChoice ==
  ASSUME srcLen \in Nat, rpos \in 0..srcLen,
         NEW plen \in LenArgs, NEW r \in SourceRead(plen),
         NEW w \in IF r.n > 0 THEN WriteOutcomes(WriteLen(plen, r.n))
                   ELSE {[n |-> 0, err |-> "nil"]}
  PROVE  /\ r.n \in 0..(srcLen - rpos)
         /\ TeeResult(r, w).n = w.n
         /\ TeeResult(r, w).n \in 0..r.n
         /\ TeeResult(r, w) \in [n : Nat, err : Errs]
         /\ TeeResult(r, w).err \in {"nil", "EOF"} => TeeResult(r, w).n = r.n
<1>1. r \in [n : 0..(srcLen - rpos), err : {"nil", "EOF", "ErrRead"}]
  <2> DEFINE avail == srcLen - rpos
  <2>1. MinOf(plen, avail) \in 0..avail
    BY DEF MinOf
  <2>2. CASE r \in {[n |-> k, err |-> "nil"] : k \in 1..MinOf(plen, avail)}
    BY <2>1, <2>2
  <2>3. CASE r \in (IF avail <= plen THEN {[n |-> avail, err |-> "EOF"]} ELSE {})
    BY <2>3
  <2>4. CASE r \in {[n |-> k, err |-> "ErrRead"] : k \in 0..MinOf(plen, avail)}
    BY <2>1, <2>4
  <2>. QED  BY <2>2, <2>3, <2>4 DEF SourceRead
<1>2. CASE r.n > 0
  <2>1. w \in WriteOutcomes(r.n)
    BY <1>2 DEF WriteLen
  <2>2. \/ w = [n |-> r.n, err |-> "nil"]
        \/ w.n \in 0..r.n /\ w.err = "ErrWrite"
    BY <2>1 DEF WriteOutcomes
  <2>. QED  BY <1>1, <1>2, <2>2 DEF TeeResult, Errs
<1>3. CASE ~(r.n > 0)
  <2>1. w = [n |-> 0, err |-> "nil"] /\ r.n = 0
    BY <1>1, <1>3
  <2>. QED  BY <1>1, <2>1 DEF TeeResult, Errs
<1>. QED  BY <1>2, <1>3

(* The inductive invariant: the caller holds a gap-free prefix of r, and  *)
(* the writer holds the same bytes; the prefix is all of what r gave out   *)
(* unless the last Read returned an error other than EOF.                  *)
Prefix(s) == \A i \in 1..Len(s) : s[i] = i

IInv ==
  /\ TypeOK
  /\ mirror = handed
  /\ Prefix(handed)
  /\ Len(handed) <= rpos
  /\ result.err \in {"nil", "EOF"} => Len(handed) = rpos

(* Every initial state satisfies it.                                       *)
LEMMA InitIInv == Init => IInv
BY DEF Init, IInv, TypeOK, Prefix, Errs

(* A Read, which the caller only makes while every earlier Read returned   *)
(* nil, extends both streams by the same run of positions.                 *)
LEMMA ReadIInv == IInv /\ Read => IInv'
<1> SUFFICES ASSUME IInv, Read PROVE IInv'
  OBVIOUS
<1>0. PICK plen \in LenArgs : \E r \in SourceRead(plen) :
        \E w \in IF r.n > 0 THEN WriteOutcomes(WriteLen(plen, r.n))
                 ELSE {[n |-> 0, err |-> "nil"]} :
          /\ rpos' = rpos + r.n
          /\ mirror' = mirror \o Chunk(rpos, w.n)
          /\ handed' = handed \o Chunk(rpos, TeeResult(r, w).n)
          /\ result' = TeeResult(r, w)
          /\ UNCHANGED srcLen
  BY DEF Read
<1>1. PICK r \in SourceRead(plen) :
        \E w \in IF r.n > 0 THEN WriteOutcomes(WriteLen(plen, r.n))
                 ELSE {[n |-> 0, err |-> "nil"]} :
          /\ rpos' = rpos + r.n
          /\ mirror' = mirror \o Chunk(rpos, w.n)
          /\ handed' = handed \o Chunk(rpos, TeeResult(r, w).n)
          /\ result' = TeeResult(r, w)
          /\ UNCHANGED srcLen
  BY <1>0
<1>2. PICK w \in IF r.n > 0 THEN WriteOutcomes(WriteLen(plen, r.n))
                 ELSE {[n |-> 0, err |-> "nil"]} :
          /\ rpos' = rpos + r.n
          /\ mirror' = mirror \o Chunk(rpos, w.n)
          /\ handed' = handed \o Chunk(rpos, TeeResult(r, w).n)
          /\ result' = TeeResult(r, w)
          /\ UNCHANGED srcLen
  BY <1>1
<1> DEFINE t == TeeResult(r, w)
<1>3. /\ r.n \in 0..(srcLen - rpos)
      /\ t.n = w.n
      /\ t.n \in 0..r.n
      /\ t \in [n : Nat, err : Errs]
      /\ t.err \in {"nil", "EOF"} => t.n = r.n
  BY ReadChoice DEF IInv, TypeOK
<1>4. Len(handed) = rpos
  BY DEF Read, Reading, IInv
<1>5. /\ handed' \in Seq(1..srcLen)
      /\ Len(handed') = rpos + t.n
      /\ Prefix(handed')
  <2>1. handed \in Seq(1..srcLen) /\ Prefix(handed) /\ srcLen \in Nat
    BY DEF IInv, TypeOK
  <2>2. rpos + t.n <= srcLen /\ t.n \in Nat
    BY <1>3, <1>4, <2>1
  <2>3. handed' = handed \o Chunk(Len(handed), t.n)
    BY <1>2, <1>4
  <2>4. /\ handed \o Chunk(Len(handed), t.n) \in Seq(1..srcLen)
        /\ Len(handed \o Chunk(Len(handed), t.n)) = Len(handed) + t.n
        /\ \A i \in 1..(Len(handed) + t.n) : (handed \o Chunk(Len(handed), t.n))[i] = i
    <3>. HIDE DEF t
    <3>. QED  BY <1>4, <2>1, <2>2, AppendChunk DEF Prefix
  <2>. QED  BY <1>4, <2>3, <2>4 DEF Prefix
<1>6. mirror' = handed'
  BY <1>2, <1>3 DEF IInv
<1>7. TypeOK'
  <2>1. srcLen' \in 0..MaxLen /\ rpos' \in 0..srcLen'
    BY <1>2, <1>3 DEF IInv, TypeOK
  <2>2. result' \in [n : Nat, err : Errs]
    BY <1>2, <1>3 DEF t
  <2>. QED  BY <1>2, <1>5, <1>6, <2>1, <2>2 DEF TypeOK
<1>8. Len(handed') <= rpos' /\ (result'.err \in {"nil", "EOF"} => Len(handed') = rpos')
  BY <1>2, <1>3, <1>5 DEF IInv, TypeOK, t
<1>. QED  BY <1>5, <1>6, <1>7, <1>8 DEF IInv

(* The invariant is inductive.                                             *)
LEMMA NextIInv == IInv /\ [Next]_vars => IInv'
<1>1. IInv /\ Read => IInv'  BY ReadIInv
<1>2. IInv /\ UNCHANGED vars => IInv'  BY DEF IInv, TypeOK, Prefix, vars
<1>. QED  BY <1>1, <1>2 DEF Next

(* Every byte TeeReader hands its caller has gone to w first, and nothing  *)
(* else has: a failed mirror Write shortens the count the caller is given  *)
(* to what w took (io.go:728-730).                                         *)
THEOREM TeeMirrorHolds == Spec => []TeeMirror
<1>1. IInv => TeeMirror  BY DEF IInv, TeeMirror
<1>. QED  BY InitIInv, NextIInv, <1>1, PTL DEF Spec

(* While TeeReader's Reads succeed or end at EOF, the caller has every     *)
(* byte r gave out, in order; bytes r gave out and the caller never got    *)
(* are always reported by a Read or Write error.                           *)
THEOREM LossReportedHolds == Spec => []LossReported
<1>1. IInv => LossReported  BY DEF IInv, LossReported, Prefix
<1>. QED  BY InitIInv, NextIInv, <1>1, PTL DEF Spec

(* TeeReader's state keeps its types: both streams hold bytes of r.        *)
THEOREM TypeCorrect == Spec => []TypeOK
<1>1. IInv => TypeOK  BY DEF IInv
<1>. QED  BY InitIInv, NextIInv, <1>1, PTL DEF Spec

=============================================================================
