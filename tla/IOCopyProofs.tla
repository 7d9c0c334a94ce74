---------------------------- MODULE IOCopyProofs ----------------------------
(***************************************************************************)
(* Proofs about the transfer engine of IOCopy, for every value of the      *)
(* constants: type correctness, and that the destination only ever holds   *)
(* an in-order, gap-free prefix of the source.                             *)
(***************************************************************************)
EXTENDS IOCopy, SequenceTheorems, TLAPS

USE MaxLenAssumption, SizeAssumption, ArgsAssumption, NilAssumption

(***************************************************************************)
(* Lemmas about the operators of the model.                                *)
(***************************************************************************)

(* Chunk(from, k) is the sequence from+1 .. from+k.                        *)
LEMMA ChunkFacts ==
  ASSUME NEW from \in Nat, NEW k \in Nat, NEW hi \in Nat, from + k <= hi
  PROVE  /\ Chunk(from, k) \in Seq(1..hi)
         /\ Len(Chunk(from, k)) = k
         /\ \A j \in 1..k : Chunk(from, k)[j] = from + j
<1>1. \A j \in 1..k : from + j \in 1..hi
  OBVIOUS
<1>2. Chunk(from, k) \in Seq(1..hi)
  BY <1>1, IsASeq DEF Chunk
<1>. QED  BY <1>2 DEF Chunk

(* What a Read of the source can return: at most the bytes left.           *)
LEMMA SourceReadFacts ==
  ASSUME NEW m \in Int, srcLen \in Nat, rpos \in 0..srcLen,
         NEW r \in SourceRead(m)
  PROVE  /\ r.n \in 0..(srcLen - rpos)
         /\ r.n <= m \/ r.n = 0
         /\ r.err \in {"nil", "EOF", "ErrRead"}
BY DEF SourceRead, MinOf

(* What a Read through CopyN's LimitedReader (or directly) can return.     *)
LEMMA ReadOutcomeFacts ==
  ASSUME TypeOK, NEW m \in Int, NEW r \in ReadOutcomes(m)
  PROVE  /\ r.n \in 0..(srcLen - rpos)
         /\ r.err \in {"nil", "EOF", "ErrRead"}
         /\ Limited /\ limN > 0 => r.n <= limN
         /\ Limited /\ limN <= 0 => r.n = 0
<1>. USE DEF TypeOK
<1>1. CASE ~Limited
  BY <1>1, SourceReadFacts DEF ReadOutcomes
<1>2. CASE Limited /\ limN <= 0
  BY <1>2 DEF ReadOutcomes
<1>3. CASE Limited /\ limN > 0
  <2>1. r \in SourceRead(LimitClamp(m))
    BY <1>3 DEF ReadOutcomes
  <2>2. LimitClamp(m) \in Int /\ LimitClamp(m) <= limN
    BY DEF LimitClamp, MinOf
  <2>. QED  BY <1>3, <2>1, <2>2, SourceReadFacts
<1>. QED  BY <1>1, <1>2, <1>3

(* A Write the count checks accept kept exactly the bytes it reported.     *)
LEMMA WriteOutcomeFacts ==
  ASSUME NEW nr \in Nat, NEW w \in WriteOutcomes(nr) \cup {NoWrite}
  PROVE  /\ w.took \in 0..nr
         /\ w.ret \in Int
         /\ w.err \in {"nil", "ErrWrite"}
         /\ ~InvalidCount(nr, w.ret) => w.took = w.ret
BY DEF WriteOutcomes, NoWrite, InvalidCount

(* The errors a loop iteration can stop with.                              *)
LEMMA ExitErrs ==
  ASSUME NEW nr \in Int, NEW nw \in Int, NEW ew \in Errs, NEW er \in Errs
  PROVE  /\ WriteCheck(nr, nw, ew) \in Errs
         /\ ReadErr(er) \in Errs
BY DEF WriteCheck, ReadErr, Errs

(* Return produces a well-typed result.                                    *)
LEMMA ReturnType ==
  ASSUME TypeOK, NEW w \in Int, NEW e \in Errs, Return(w, e)
  PROVE  result' \in [n : Int, err : Errs] /\ pc' = "done"
BY DEF Return, CopyNResult, TypeOK, Errs

(* Appending the next k bytes to a gap-free prefix keeps it gap-free.     *)
LEMMA AppendChunk ==
  ASSUME NEW hi \in Nat, NEW s \in Seq(1..hi), NEW k \in Nat,
         Len(s) + k <= hi,
         \A i \in 1..Len(s) : s[i] = i
  PROVE  /\ s \o Chunk(Len(s), k) \in Seq(1..hi)
         /\ Len(s \o Chunk(Len(s), k)) = Len(s) + k
         /\ \A i \in 1..(Len(s) + k) : (s \o Chunk(Len(s), k))[i] = i
<1> DEFINE c == Chunk(Len(s), k)
<1>1. /\ c \in Seq(1..hi)
      /\ Len(c) = k
      /\ \A j \in 1..k : c[j] = Len(s) + j
  BY ChunkFacts
<1>2. /\ s \o c \in Seq(1..hi)
      /\ Len(s \o c) = Len(s) + Len(c)
      /\ \A i \in 1 .. Len(s) + Len(c) :
            (s \o c)[i] = IF i <= Len(s) THEN s[i] ELSE c[i - Len(s)]
  <2>. HIDE DEF c
  <2>. QED  BY <1>1, ConcatProperties
<1>. QED  BY <1>1, <1>2

(* A write the loop goes on after kept every byte it was given.           *)
LEMMA ContinueMeansFull ==
  ASSUME NEW nr \in Nat, NEW w \in WriteOutcomes(nr) \cup {NoWrite},
         WriteExit(nr, w) = "nil"
  PROVE  w.took = nr /\ CountOf(nr, w) = nr
<1>1. w.err = "nil" /\ ~InvalidCount(nr, w.ret)
  BY DEF WriteExit, WriteCheck, ErrOf, WriteOutcomes, NoWrite
<1>2. CountOf(nr, w) = nr
  BY <1>1 DEF WriteExit, WriteCheck, ErrOf, CountOf
<1>. QED  BY <1>1, <1>2, WriteOutcomeFacts DEF CountOf

(***************************************************************************)
(* Type correctness.                                                       *)
(***************************************************************************)

LEMMA InitTypeOK == Init => TypeOK
<1> SUFFICES ASSUME Init PROVE TypeOK
  OBVIOUS
<1>1. PICK fn \in Fns, s \in ReaderKinds \cup {NopCloser(k) : k \in ReaderKinds},
          d \in DstKinds :
        \E b \in IF fn = "CopyBuffer" THEN BufArgs ELSE {NilBuf},
           n \in IF fn = "CopyN" THEN NArgs ELSE {0} :
          call = [fn |-> fn, src |-> s, dst |-> d, buf |-> b, n |-> n]
  BY DEF Init
<1>2. PICK b \in IF fn = "CopyBuffer" THEN BufArgs ELSE {NilBuf},
           n \in IF fn = "CopyN" THEN NArgs ELSE {0} :
          call = [fn |-> fn, src |-> s, dst |-> d, buf |-> b, n |-> n]
  BY <1>1
<1>3. s \in SrcKinds /\ b \in BufArgs \cup {NilBuf} /\ n \in Int
  BY DEF NopCloser, SrcKinds, ReaderKinds
<1>4. call \in [fn : Fns, src : SrcKinds, dst : DstKinds,
                buf : BufArgs \cup {NilBuf}, n : Int]
  BY <1>2, <1>3
<1>. QED  BY <1>4, EmptySeq DEF Init, TypeOK, PCs, Errs

(* Each action keeps every variable in its type.                           *)
LEMMA TypeOKStep == TypeOK /\ [Next]_vars => TypeOK'
<1> SUFFICES ASSUME TypeOK, [Next]_vars PROVE TypeOK'
  OBVIOUS
<1>. USE DEF TypeOK
<1>1. CASE PanicEmptyBuffer
  BY <1>1 DEF PanicEmptyBuffer, PCs
<1>2. CASE WriteToPath
  <2>1. PICK k \in 0..(srcLen - rpos), e \in {"nil", "ErrRead", "ErrWrite"} :
          /\ rpos' = rpos + k
          /\ sink' = sink \o Chunk(rpos, k)
          /\ Return(k, e)
    BY <1>2 DEF WriteToPath
  <2>2. Chunk(rpos, k) \in Seq(1..srcLen)
    BY ChunkFacts
  <2>3. sink' \in Seq(1..srcLen)
    BY <2>1, <2>2, ConcatProperties
  <2>4. result' \in [n : Int, err : Errs] /\ pc' = "done"
    BY <2>1, ReturnType DEF Errs
  <2>. QED  BY <1>2, <2>1, <2>3, <2>4 DEF WriteToPath, PCs
<1>3. CASE ReadFromPath
  BY <1>3 DEF ReadFromPath, PCs
<1>4. CASE AllocBuffer
  <2>1. StagingSize \in Nat
    BY DEF StagingSize
  <2>2. call.buf # NilBuf => call.buf \in Nat
    OBVIOUS
  <2>. QED  BY <1>4, <2>1, <2>2 DEF AllocBuffer, PCs
<1>5. CASE CopyStep
  <2>1. PICK r \in ReadOutcomes(bufLen) :
          /\ rpos' = rpos + r.n
          /\ limN' = LimitAfter(r)
          /\ \E w \in IF r.n > 0 THEN WriteOutcomes(r.n) ELSE {NoWrite} :
               /\ sink' = sink \o Chunk(rpos, w.took)
               /\ written' = written + CountOf(r.n, w)
               /\ IF WriteExit(r.n, w) # "nil"
                    THEN Return(written + CountOf(r.n, w), WriteExit(r.n, w))
                  ELSE IF ReadBreak(r.err)
                    THEN Return(written + CountOf(r.n, w), ReadErr(r.err))
                  ELSE UNCHANGED <<pc, result>>
    BY <1>5 DEF CopyStep
  <2>2. r.n \in 0..(srcLen - rpos) /\ r.err \in {"nil", "EOF", "ErrRead"}
    BY ReadOutcomeFacts
  <2>3. PICK w \in IF r.n > 0 THEN WriteOutcomes(r.n) ELSE {NoWrite} :
          /\ sink' = sink \o Chunk(rpos, w.took)
          /\ written' = written + CountOf(r.n, w)
          /\ IF WriteExit(r.n, w) # "nil"
               THEN Return(written + CountOf(r.n, w), WriteExit(r.n, w))
             ELSE IF ReadBreak(r.err)
               THEN Return(written + CountOf(r.n, w), ReadErr(r.err))
             ELSE UNCHANGED <<pc, result>>
    BY <2>1
  <2>4. w.took \in 0..r.n /\ w.ret \in Int /\ w.err \in {"nil", "ErrWrite"}
    BY <2>2, WriteOutcomeFacts
  <2>5. CountOf(r.n, w) \in Int /\ ErrOf(r.n, w) \in Errs
    BY <2>4 DEF CountOf, ErrOf, Errs
  <2>6. WriteExit(r.n, w) \in Errs /\ ReadErr(r.err) \in Errs
    BY <2>2, <2>5, ExitErrs DEF WriteExit, Errs
  <2>7. sink' \in Seq(1..srcLen)
    <3>1. rpos \in Nat /\ w.took \in Nat /\ srcLen \in Nat /\ rpos + w.took <= srcLen
      BY <2>2, <2>4
    <3>2. Chunk(rpos, w.took) \in Seq(1..srcLen)
      BY <3>1, ChunkFacts
    <3>. QED  BY <2>3, <3>2, ConcatProperties
  <2>8. result' \in [n : Int, err : Errs] /\ pc' \in PCs
    <3>1. CASE WriteExit(r.n, w) # "nil"
      BY <2>3, <2>5, <2>6, <3>1, ReturnType DEF PCs
    <3>2. CASE WriteExit(r.n, w) = "nil" /\ ReadBreak(r.err)
      BY <2>3, <2>5, <2>6, <3>2, ReturnType DEF PCs
    <3>3. CASE WriteExit(r.n, w) = "nil" /\ ~ReadBreak(r.err)
      BY <2>3, <3>3
    <3>. QED  BY <3>1, <3>2, <3>3
  <2>9. UNCHANGED <<call, srcLen, bufLen>>
    BY <1>5 DEF CopyStep
  <2>10. limN' \in Int
    BY <2>1, <2>2 DEF LimitAfter
  <2>11. rpos' \in 0..srcLen'
    <3>1. rpos \in 0..srcLen /\ srcLen \in Nat
      OBVIOUS
    <3>2. rpos' = rpos + r.n
      BY <2>1
    <3>3. srcLen' = srcLen
      BY <2>9
    <3>. HIDE DEF TypeOK
    <3>. QED  BY <2>2, <3>1, <3>2, <3>3
  <2>12. written' \in Int
    BY <2>3, <2>5
  <2>. QED  BY <2>7, <2>8, <2>9, <2>10, <2>11, <2>12
<1>6. CASE DrainStep
  <2>1. PICK r \in ReadOutcomes(bufLen) :
          /\ rpos' = rpos + r.n
          /\ limN' = LimitAfter(r)
          /\ sink' = sink \o Chunk(rpos, r.n)
          /\ written' = written + r.n
          /\ IF r.err = "nil"
               THEN UNCHANGED <<pc, result>>
               ELSE Return(written + r.n, IF r.err = "EOF" THEN "nil" ELSE r.err)
    BY <1>6 DEF DrainStep
  <2>2. r.n \in 0..(srcLen - rpos) /\ r.err \in {"nil", "EOF", "ErrRead"}
    BY ReadOutcomeFacts
  <2>3. sink' \in Seq(1..srcLen)
    <3>1. Chunk(rpos, r.n) \in Seq(1..srcLen)
      BY <2>2, ChunkFacts
    <3>. QED  BY <2>1, <3>1, ConcatProperties
  <2>4. result' \in [n : Int, err : Errs] /\ pc' \in PCs
    <3>1. CASE r.err = "nil"
      BY <2>1, <3>1 DEF TypeOK
    <3>2. CASE r.err # "nil"
      <4>1. written + r.n \in Int
        BY <2>2 DEF TypeOK
      <4>2. (IF r.err = "EOF" THEN "nil" ELSE r.err) \in Errs
        BY <2>2 DEF Errs
      <4>3. Return(written + r.n, IF r.err = "EOF" THEN "nil" ELSE r.err)
        BY <2>1, <3>2
      <4>. QED  BY <4>1, <4>2, <4>3, ReturnType DEF PCs
    <3>. QED  BY <3>1, <3>2
  <2>5. UNCHANGED <<call, srcLen, bufLen>>
    BY <1>6 DEF DrainStep
  <2>6. /\ rpos' = rpos + r.n
        /\ limN' = LimitAfter(r)
        /\ written' = written + r.n
    BY <2>1
  <2>7. limN' \in Int /\ written' \in Int
    <3>1. limN \in Int /\ written \in Int /\ r.n \in Int
      BY <2>2 DEF TypeOK
    <3>2. LimitAfter(r) \in Int
      BY <3>1 DEF LimitAfter
    <3>. QED  BY <2>6, <3>1, <3>2
  <2>8. rpos' \in 0..srcLen'
    <3>1. srcLen' = srcLen
      BY <2>5
    <3>2. rpos \in 0..srcLen /\ srcLen \in Nat
      OBVIOUS
    <3>. HIDE DEF TypeOK
    <3>. QED  BY <2>2, <2>6, <3>1, <3>2
  <2>. QED  BY <2>3, <2>4, <2>5, <2>7, <2>8
<1>7. CASE UNCHANGED vars
  BY <1>7 DEF vars
<1>. QED  BY <1>1, <1>2, <1>3, <1>4, <1>5, <1>6, <1>7 DEF Next

(* Every reachable state is well typed.                                    *)
THEOREM TypeCorrect == Spec => []TypeOK
BY InitTypeOK, TypeOKStep, PTL DEF Spec

(***************************************************************************)
(* The destination holds a gap-free prefix of the source.                  *)
(*                                                                         *)
(* SinkIsPrefix alone is not inductive: a CopyStep appends the chunk it    *)
(* read at position rpos, which continues the prefix only if the           *)
(* destination already holds every byte consumed so far.  That is true     *)
(* while the call runs (the loop goes on only after a write that kept all  *)
(* nr bytes), and fails only once the call has returned.                   *)
(***************************************************************************)
PrefixInv ==
  /\ TypeOK
  /\ SinkIsPrefix
  /\ pc \in {"start", "loop", "drain"} => Len(sink) = rpos

LEMMA PrefixInit == Init => PrefixInv
<1> SUFFICES ASSUME Init PROVE PrefixInv
  OBVIOUS
<1>1. TypeOK
  BY InitTypeOK
<1>2. sink = << >> /\ rpos = 0
  BY DEF Init
<1>3. Len(sink) = 0
  BY <1>2, EmptySeq
<1>. QED  BY <1>1, <1>2, <1>3 DEF PrefixInv, SinkIsPrefix

(* The parts of CopyStep the prefix depends on.                            *)
LEMMA CopyStepFacts ==
  ASSUME TypeOK, CopyStep
  PROVE  \E r : \E w :
           /\ w \in WriteOutcomes(r.n) \cup {NoWrite}
           /\ r.n \in 0..(srcLen - rpos)
           /\ w.took \in 0..r.n
           /\ rpos' = rpos + r.n
           /\ sink' = sink \o Chunk(rpos, w.took)
           /\ pc' = "loop" => WriteExit(r.n, w) = "nil"
<1>1. PICK r \in ReadOutcomes(bufLen) :
        /\ rpos' = rpos + r.n
        /\ \E w \in IF r.n > 0 THEN WriteOutcomes(r.n) ELSE {NoWrite} :
             /\ sink' = sink \o Chunk(rpos, w.took)
             /\ IF WriteExit(r.n, w) # "nil"
                  THEN Return(written + CountOf(r.n, w), WriteExit(r.n, w))
                ELSE IF ReadBreak(r.err)
                  THEN Return(written + CountOf(r.n, w), ReadErr(r.err))
                ELSE UNCHANGED <<pc, result>>
  BY DEF CopyStep
<1>2. r.n \in 0..(srcLen - rpos)
  <2>1. bufLen \in Int
    BY DEF TypeOK
  <2>. QED  BY <2>1, ReadOutcomeFacts
<1>3. PICK w \in IF r.n > 0 THEN WriteOutcomes(r.n) ELSE {NoWrite} :
        /\ sink' = sink \o Chunk(rpos, w.took)
        /\ IF WriteExit(r.n, w) # "nil"
             THEN Return(written + CountOf(r.n, w), WriteExit(r.n, w))
           ELSE IF ReadBreak(r.err)
             THEN Return(written + CountOf(r.n, w), ReadErr(r.err))
           ELSE UNCHANGED <<pc, result>>
  BY <1>1
<1>4. w.took \in 0..r.n
  BY <1>2, WriteOutcomeFacts DEF TypeOK
<1>5. pc' = "loop" => WriteExit(r.n, w) = "nil"
  BY <1>3 DEF Return, CopyStep
<1>6. w \in WriteOutcomes(r.n) \cup {NoWrite}
  BY <1>3
<1>. QED  BY <1>1, <1>2, <1>3, <1>4, <1>5, <1>6

(* Each action keeps the destination a prefix that, while the call runs,  *)
(* holds every byte consumed.                                              *)
LEMMA PrefixStep == PrefixInv /\ [Next]_vars => PrefixInv'
<1> SUFFICES ASSUME PrefixInv, [Next]_vars PROVE PrefixInv'
  OBVIOUS
<1>0. TypeOK /\ TypeOK'
  BY TypeOKStep DEF PrefixInv
<1>a. (\A i \in 1..Len(sink) : sink[i] = i) /\ Len(sink) <= rpos
  BY DEF PrefixInv, SinkIsPrefix
<1>b. sink \in Seq(1..srcLen) /\ srcLen \in Nat /\ rpos \in 0..srcLen
  BY <1>0 DEF TypeOK
<1>1. CASE PanicEmptyBuffer
  BY <1>0, <1>1 DEF PanicEmptyBuffer, PrefixInv, SinkIsPrefix
<1>2. CASE WriteToPath
  <2>1. PICK k \in 0..(srcLen - rpos), e \in {"nil", "ErrRead", "ErrWrite"} :
          /\ rpos' = rpos + k
          /\ sink' = sink \o Chunk(rpos, k)
          /\ Return(k, e)
    BY <1>2 DEF WriteToPath
  <2>2. Len(sink) = rpos
    BY <1>2 DEF WriteToPath, PrefixInv
  <2>3. (\A i \in 1..Len(sink') : sink'[i] = i) /\ Len(sink') = rpos'
    <3>1. k \in Nat /\ Len(sink) + k <= srcLen
      BY <1>b, <2>2
    <3>2. sink' = sink \o Chunk(Len(sink), k)
      BY <2>1, <2>2
    <3>3. /\ Len(sink \o Chunk(Len(sink), k)) = Len(sink) + k
          /\ \A i \in 1..(Len(sink) + k) : (sink \o Chunk(Len(sink), k))[i] = i
      BY <1>a, <1>b, <3>1, AppendChunk
    <3>. QED  BY <2>1, <2>2, <3>2, <3>3
  <2>4. pc' = "done"
    BY <2>1 DEF Return
  <2>. QED  BY <1>0, <2>3, <2>4 DEF PrefixInv, SinkIsPrefix
<1>3. CASE ReadFromPath
  BY <1>0, <1>3 DEF ReadFromPath, PrefixInv, SinkIsPrefix
<1>4. CASE AllocBuffer
  BY <1>0, <1>4 DEF AllocBuffer, PrefixInv, SinkIsPrefix
<1>5. CASE CopyStep
  <2>1. PICK r : \E w :
           /\ w \in WriteOutcomes(r.n) \cup {NoWrite}
           /\ r.n \in 0..(srcLen - rpos)
           /\ w.took \in 0..r.n
           /\ rpos' = rpos + r.n
           /\ sink' = sink \o Chunk(rpos, w.took)
           /\ pc' = "loop" => WriteExit(r.n, w) = "nil"
    BY <1>0, <1>5, CopyStepFacts
  <2>2. PICK w :
           /\ w \in WriteOutcomes(r.n) \cup {NoWrite}
           /\ r.n \in 0..(srcLen - rpos)
           /\ w.took \in 0..r.n
           /\ rpos' = rpos + r.n
           /\ sink' = sink \o Chunk(rpos, w.took)
           /\ pc' = "loop" => WriteExit(r.n, w) = "nil"
    BY <2>1
  <2>3. Len(sink) = rpos
    BY <1>5 DEF CopyStep, PrefixInv
  <2>4. (\A i \in 1..Len(sink') : sink'[i] = i) /\ Len(sink') = rpos + w.took
    <3>1. w.took \in Nat /\ Len(sink) + w.took <= srcLen
      BY <1>b, <2>2, <2>3
    <3>2. sink' = sink \o Chunk(Len(sink), w.took)
      BY <2>2, <2>3
    <3>3. /\ Len(sink \o Chunk(Len(sink), w.took)) = Len(sink) + w.took
          /\ \A i \in 1..(Len(sink) + w.took) :
                (sink \o Chunk(Len(sink), w.took))[i] = i
      <4>1. PICK t \in Nat : t = w.took
        BY <3>1
      <4>2. Len(sink) + t <= srcLen
        BY <3>1, <4>1
      <4>3. /\ Len(sink \o Chunk(Len(sink), t)) = Len(sink) + t
            /\ \A i \in 1..(Len(sink) + t) : (sink \o Chunk(Len(sink), t))[i] = i
        BY <1>a, <1>b, <4>2, AppendChunk
      <4>. QED  BY <4>1, <4>3
    <3>. QED  BY <2>3, <3>2, <3>3
  <2>5. pc' = "loop" => w.took = r.n
    BY <2>2, ContinueMeansFull
  <2>6. pc' \in {"loop", "done"}
    BY <1>5 DEF CopyStep, Return
  <2>7. Len(sink') <= rpos'
    BY <1>b, <2>2, <2>4
  <2>8. pc' \in {"start", "loop", "drain"} => Len(sink') = rpos'
    <3> SUFFICES ASSUME pc' \in {"start", "loop", "drain"}
                 PROVE  Len(sink') = rpos'
      OBVIOUS
    <3>1. w.took = r.n
      BY <2>5, <2>6
    <3>. QED  BY <1>b, <2>2, <2>4, <3>1
  <2>. QED  BY <1>0, <2>4, <2>7, <2>8 DEF PrefixInv, SinkIsPrefix
<1>6. CASE DrainStep
  <2>1. PICK r :
          /\ r \in ReadOutcomes(bufLen)
          /\ rpos' = rpos + r.n
          /\ sink' = sink \o Chunk(rpos, r.n)
          /\ pc' \in {"drain", "done"}
    BY <1>6 DEF DrainStep, Return
  <2>2. r.n \in 0..(srcLen - rpos)
    <3>1. bufLen \in Int
      BY <1>0 DEF TypeOK
    <3>. QED  BY <1>0, <2>1, <3>1, ReadOutcomeFacts
  <2>3. Len(sink) = rpos
    BY <1>6 DEF DrainStep, PrefixInv
  <2>4. (\A i \in 1..Len(sink') : sink'[i] = i) /\ Len(sink') = rpos'
    <3>1. r.n \in Nat /\ Len(sink) + r.n <= srcLen
      BY <1>b, <2>2, <2>3
    <3>2. sink' = sink \o Chunk(Len(sink), r.n)
      BY <2>1, <2>3
    <3>3. /\ Len(sink \o Chunk(Len(sink), r.n)) = Len(sink) + r.n
          /\ \A i \in 1..(Len(sink) + r.n) : (sink \o Chunk(Len(sink), r.n))[i] = i
      <4>1. PICK t \in Nat : t = r.n
        BY <3>1
      <4>2. Len(sink) + t <= srcLen
        BY <3>1, <4>1
      <4>3. /\ Len(sink \o Chunk(Len(sink), t)) = Len(sink) + t
            /\ \A i \in 1..(Len(sink) + t) : (sink \o Chunk(Len(sink), t))[i] = i
        BY <1>a, <1>b, <4>2, AppendChunk
      <4>. QED  BY <4>1, <4>3
    <3>. QED  BY <2>1, <2>3, <3>2, <3>3
  <2>. QED  BY <1>0, <2>1, <2>4 DEF PrefixInv, SinkIsPrefix
<1>7. CASE UNCHANGED vars
  BY <1>0, <1>7 DEF vars, PrefixInv, SinkIsPrefix
<1>. QED  BY <1>1, <1>2, <1>3, <1>4, <1>5, <1>6, <1>7 DEF Next

(* Whatever the source and the destination do, the destination of Copy,   *)
(* CopyBuffer or CopyN only ever holds the first bytes of the source, in   *)
(* order, none skipped or repeated: copyBuffer's short-write and           *)
(* invalid-count checks stop the loop before a gap can form.               *)
THEOREM SinkIsPrefixHolds == Spec => []SinkIsPrefix
<1>1. PrefixInv => SinkIsPrefix
  BY DEF PrefixInv
<1>. QED  BY PrefixInit, PrefixStep, <1>1, PTL DEF Spec

(***************************************************************************)
(* What the call returns.                                                  *)
(*                                                                         *)
(* The result properties speak of the state a call returns in, which no   *)
(* step changes afterwards; what they need from the state before the      *)
(* return is that the running count is what the source gave out, and that *)
(* CopyN's LimitedReader has counted down from n exactly.                  *)
(***************************************************************************)
CountInv ==
  /\ PrefixInv
  /\ pc = "start" => rpos = 0
  /\ pc \in {"start", "loop", "drain"} => written = rpos
  /\ Limited => /\ limN = call.n - rpos
                /\ rpos <= IF call.n > 0 THEN call.n ELSE 0
  /\ ReportedCount
  /\ pc = "done" => result.n >= 0
  /\ CopyComplete
  /\ CopyNExact
  /\ NoUnexpectedPanic

(* With EOF an unlimited source hands out every byte it has left.         *)
LEMMA ReadEOFFacts ==
  ASSUME TypeOK, ~Limited, NEW m \in Int, NEW r \in ReadOutcomes(m), r.err = "EOF"
  PROVE  r.n = srcLen - rpos
<1>1. r \in SourceRead(m)
  BY DEF ReadOutcomes
<1>2. \A k \in Int : [n |-> k, err |-> "nil"] # r /\ [n |-> k, err |-> "ErrRead"] # r
  OBVIOUS
<1>. QED  BY <1>1, <1>2 DEF SourceRead

(* A Read through CopyN's LimitedReader keeps N = n - consumed, and never  *)
(* takes the source past n.                                                *)
LEMMA LimitFacts ==
  ASSUME TypeOK, Limited, limN = call.n - rpos,
         rpos <= IF call.n > 0 THEN call.n ELSE 0,
         NEW m \in Int, NEW r \in ReadOutcomes(m)
  PROVE  /\ LimitAfter(r) = call.n - (rpos + r.n)
         /\ rpos + r.n <= IF call.n > 0 THEN call.n ELSE 0
<1>1. /\ r.n \in 0..(srcLen - rpos)
      /\ limN > 0 => r.n <= limN
      /\ limN <= 0 => r.n = 0
  BY ReadOutcomeFacts
<1>. QED  BY <1>1 DEF LimitAfter, TypeOK

(* The count copyBuffer adds for a Write is at most what the Write kept.  *)
LEMMA CountOfFacts ==
  ASSUME NEW nr \in Nat, NEW w \in WriteOutcomes(nr) \cup {NoWrite}
  PROVE  CountOf(nr, w) \in 0..w.took
<1>1. w.took \in 0..nr /\ w.ret \in Int /\ (~InvalidCount(nr, w.ret) => w.took = w.ret)
  BY WriteOutcomeFacts
<1>. QED  BY <1>1 DEF CountOf, InvalidCount

(* What a return leaves behind: the reported count is within the bytes    *)
(* the destination kept, Copy's nil comes with the whole source, and      *)
(* CopyN's tail turns the count into the documented error.                 *)
LEMMA ReturnProps ==
  ASSUME NEW w \in Int, NEW e \in Errs, Return(w, e),
         call' = call, srcLen' = srcLen,
         call.n \in Int, rpos' \in Int, Len(sink') \in Int,
         Len(sink') <= rpos', 0 <= w, w <= Len(sink'),
         ~Limited /\ e = "nil" => w = srcLen /\ Len(sink') = srcLen,
         Limited => rpos' <= IF call.n > 0 THEN call.n ELSE 0
  PROVE  ReportedCount' /\ (pc' = "done" => result'.n >= 0)
         /\ CopyComplete' /\ CopyNExact' /\ NoUnexpectedPanic'
<1>1. pc' = "done"
  BY DEF Return
<1>2. CASE ~Limited
  <2>1. result' = [n |-> w, err |-> e]
    BY <1>2 DEF Return
  <2>. QED  BY <1>1, <1>2, <2>1
            DEF ReportedCount, CopyComplete, CopyNExact, NoUnexpectedPanic, Limited
<1>3. CASE Limited
  <2>1. result' = CopyNResult(w, e)
    BY <1>3 DEF Return
  <2>2. result'.n = w
    BY <2>1 DEF CopyNResult
  <2>3. call.n >= 0 => /\ (result'.err = "nil") <=> (result'.n = call.n)
                       /\ result'.err = "nil" => Len(sink') = call.n
    BY <1>3, <2>1 DEF CopyNResult, Errs
  <2>. QED  BY <1>1, <1>3, <2>2, <2>3
            DEF ReportedCount, CopyComplete, CopyNExact, NoUnexpectedPanic, Limited
<1>. QED  BY <1>2, <1>3

(* One iteration of copyBuffer's loop: it goes on only after a Write that *)
(* kept and counted every byte read, and a return reports at most what the *)
(* Writes kept.                                                            *)
LEMMA CopyStepCount ==
  ASSUME CountInv, CopyStep, PrefixInv', TypeOK'
  PROVE  CountInv'
<1>0. TypeOK /\ pc = "loop" /\ written = rpos /\ Len(sink) = rpos
      /\ UNCHANGED <<call, srcLen, bufLen>>
  BY DEF CountInv, PrefixInv, CopyStep
<1>ty. /\ rpos \in 0..srcLen /\ srcLen \in Nat /\ written \in Int
      /\ bufLen \in Int /\ sink \in Seq(1..srcLen)
  BY <1>0 DEF TypeOK
<1>1. PICK r \in ReadOutcomes(bufLen) :
        /\ rpos' = rpos + r.n
        /\ limN' = LimitAfter(r)
        /\ \E w \in IF r.n > 0 THEN WriteOutcomes(r.n) ELSE {NoWrite} :
             /\ sink' = sink \o Chunk(rpos, w.took)
             /\ written' = written + CountOf(r.n, w)
             /\ IF WriteExit(r.n, w) # "nil"
                  THEN Return(written + CountOf(r.n, w), WriteExit(r.n, w))
                ELSE IF ReadBreak(r.err)
                  THEN Return(written + CountOf(r.n, w), ReadErr(r.err))
                ELSE UNCHANGED <<pc, result>>
  BY DEF CopyStep
<1>2. r.n \in 0..(srcLen - rpos) /\ r.err \in {"nil", "EOF", "ErrRead"}
  <2>1. bufLen \in Int
    BY <1>0 DEF TypeOK
  <2>. QED  BY <1>0, <2>1, ReadOutcomeFacts
<1>3. PICK w \in IF r.n > 0 THEN WriteOutcomes(r.n) ELSE {NoWrite} :
        /\ sink' = sink \o Chunk(rpos, w.took)
        /\ written' = written + CountOf(r.n, w)
        /\ IF WriteExit(r.n, w) # "nil"
             THEN Return(written + CountOf(r.n, w), WriteExit(r.n, w))
           ELSE IF ReadBreak(r.err)
             THEN Return(written + CountOf(r.n, w), ReadErr(r.err))
           ELSE UNCHANGED <<pc, result>>
  BY <1>1
<1>4. /\ w \in WriteOutcomes(r.n) \cup {NoWrite}
      /\ w.took \in 0..r.n
      /\ CountOf(r.n, w) \in 0..w.took
  BY <1>2, <1>3, WriteOutcomeFacts, CountOfFacts
<1>5. Len(sink') = rpos + w.took
  <2>1. rpos \in Nat /\ srcLen \in Nat /\ rpos + w.took <= srcLen
    BY <1>ty, <1>2, <1>4
  <2>2. Chunk(rpos, w.took) \in Seq(1..srcLen) /\ Len(Chunk(rpos, w.took)) = w.took
    BY <1>4, <2>1, ChunkFacts
  <2>3. sink \in Seq(1..srcLen)
    BY <1>0 DEF TypeOK
  <2>4. PICK t \in Nat : t = w.took
    BY <1>4
  <2>5. Len(sink \o Chunk(rpos, t)) = Len(sink) + t
    <3>1. \A s1, s2 \in Seq(1..srcLen) : Len(s1 \o s2) = Len(s1) + Len(s2)
      BY ConcatProperties
    <3>. QED  BY <2>2, <2>3, <2>4, <3>1
  <2>. QED  BY <1>0, <1>3, <2>4, <2>5
<1>6. Limited => /\ limN' = call.n - rpos'
                 /\ rpos' <= IF call.n > 0 THEN call.n ELSE 0
  <2>1. bufLen \in Int
    BY <1>0 DEF TypeOK
  <2>. QED  BY <1>0, <1>1, <2>1, LimitFacts DEF CountInv
<1>7. /\ call' = call /\ srcLen' = srcLen /\ call.n \in Int /\ rpos' \in Int
      /\ Len(sink') \in Int /\ Len(sink') <= rpos' /\ written \in Int
  <2>1. call' = call /\ srcLen' = srcLen /\ call.n \in Int /\ written \in Int
    BY <1>0 DEF TypeOK
  <2>2. rpos' = rpos + r.n /\ rpos \in Int /\ r.n \in Int
    <3>1. rpos' = rpos + r.n
      BY <1>1
    <3>. QED  BY <1>ty, <1>2, <3>1
  <2>3. w.took <= r.n /\ w.took \in Int
    BY <1>4
  <2>. QED  BY <1>5, <2>1, <2>2, <2>3
<1>8. CASE WriteExit(r.n, w) # "nil"
  <2>1. Return(written + CountOf(r.n, w), WriteExit(r.n, w))
    BY <1>3, <1>8
  <2>2. WriteExit(r.n, w) \in Errs /\ written + CountOf(r.n, w) \in Int
    <3>1. CountOf(r.n, w) \in Int /\ ErrOf(r.n, w) \in Errs
      BY <1>2, <1>4, WriteOutcomeFacts DEF CountOf, ErrOf, Errs
    <3>2. WriteCheck(r.n, CountOf(r.n, w), ErrOf(r.n, w)) \in Errs
      BY <3>1 DEF WriteCheck, Errs
    <3>. QED  BY <1>7, <3>1, <3>2 DEF WriteExit
  <2>3. 0 <= written + CountOf(r.n, w) /\ written + CountOf(r.n, w) <= Len(sink')
    BY <1>0, <1>ty, <1>2, <1>4, <1>5
  <2>4. ReportedCount' /\ (pc' = "done" => result'.n >= 0)
         /\ CopyComplete' /\ CopyNExact' /\ NoUnexpectedPanic'
    BY <1>6, <1>7, <1>8, <2>1, <2>2, <2>3, ReturnProps
  <2>5. pc' = "done"
    BY <2>1 DEF Return
  <2>. QED  BY <1>6, <1>7, <2>4, <2>5 DEF CountInv, Limited
<1>9. CASE WriteExit(r.n, w) = "nil" /\ ReadBreak(r.err)
  <2>1. w.took = r.n /\ CountOf(r.n, w) = r.n
    BY <1>2, <1>4, <1>9, ContinueMeansFull
  <2>2. Return(written + r.n, ReadErr(r.err))
    BY <1>3, <1>9, <2>1
  <2>3. ReadErr(r.err) \in Errs /\ written + r.n \in Int
    BY <1>2, <1>7 DEF ReadErr, Errs
  <2>4. ~Limited /\ ReadErr(r.err) = "nil" => r.n = srcLen - rpos
    <3>1. ReadErr(r.err) = "nil" => r.err = "EOF"
      BY <1>9 DEF ReadErr, ReadBreak
    <3>2. bufLen \in Int
      BY <1>0 DEF TypeOK
    <3>. QED  BY <1>0, <3>1, <3>2, ReadEOFFacts
  <2>5. 0 <= written + r.n /\ written + r.n <= Len(sink')
    BY <1>0, <1>ty, <1>2, <1>5, <2>1
  <2>6. ~Limited /\ ReadErr(r.err) = "nil"
          => written + r.n = srcLen /\ Len(sink') = srcLen
    BY <1>0, <1>ty, <1>2, <1>5, <2>1, <2>4
  <2>7. ReportedCount' /\ (pc' = "done" => result'.n >= 0)
         /\ CopyComplete' /\ CopyNExact' /\ NoUnexpectedPanic'
    BY <1>6, <1>7, <2>2, <2>3, <2>5, <2>6, ReturnProps
  <2>8. pc' = "done"
    BY <2>2 DEF Return
  <2>. QED  BY <1>6, <1>7, <2>7, <2>8 DEF CountInv, Limited
<1>10. CASE WriteExit(r.n, w) = "nil" /\ ~ReadBreak(r.err)
  <2>1. CountOf(r.n, w) = r.n
    BY <1>2, <1>4, <1>10, ContinueMeansFull
  <2>2. pc' = "loop" /\ written' = rpos'
    BY <1>0, <1>1, <1>3, <1>10, <2>1
  <2>. QED  BY <1>6, <1>7, <2>2
            DEF CountInv, Limited, ReportedCount, CopyComplete, CopyNExact,
                NoUnexpectedPanic
<1>. QED  BY <1>8, <1>9, <1>10

(* One iteration of discard.ReadFrom: it counts exactly the bytes it     *)
(* drops, and turns only EOF into success.                                 *)
LEMMA DrainStepCount ==
  ASSUME CountInv, DrainStep, PrefixInv', TypeOK'
  PROVE  CountInv'
<1>0. TypeOK /\ pc = "drain" /\ written = rpos /\ Len(sink) = rpos
      /\ UNCHANGED <<call, srcLen, bufLen>> /\ bufLen \in Int
  <2>1. pc = "drain" /\ UNCHANGED <<call, srcLen, bufLen>>
    BY DEF DrainStep
  <2>2. TypeOK /\ written = rpos /\ Len(sink) = rpos
    BY <2>1 DEF CountInv, PrefixInv
  <2>3. bufLen \in Int
    BY <2>2 DEF TypeOK
  <2>. QED  BY <2>1, <2>2, <2>3
<1>ty. /\ rpos \in 0..srcLen /\ srcLen \in Nat /\ written \in Int
      /\ sink \in Seq(1..srcLen)
  BY <1>0 DEF TypeOK
<1>1. PICK r \in ReadOutcomes(bufLen) :
        /\ rpos' = rpos + r.n
        /\ limN' = LimitAfter(r)
        /\ sink' = sink \o Chunk(rpos, r.n)
        /\ written' = written + r.n
        /\ IF r.err = "nil"
             THEN UNCHANGED <<pc, result>>
             ELSE Return(written + r.n, IF r.err = "EOF" THEN "nil" ELSE r.err)
  BY DEF DrainStep
<1>2. r.n \in 0..(srcLen - rpos) /\ r.err \in {"nil", "EOF", "ErrRead"}
  BY <1>0, ReadOutcomeFacts
<1>3. Len(sink') = rpos + r.n
  <2>1. rpos \in Nat /\ srcLen \in Nat /\ rpos + r.n <= srcLen
    BY <1>ty, <1>2
  <2>2. Chunk(rpos, r.n) \in Seq(1..srcLen) /\ Len(Chunk(rpos, r.n)) = r.n
    BY <1>2, <2>1, ChunkFacts
  <2>3. sink \in Seq(1..srcLen)
    BY <1>0 DEF TypeOK
  <2>4. PICK t \in Nat : t = r.n
    BY <1>2
  <2>5. Len(sink \o Chunk(rpos, t)) = Len(sink) + t
    <3>1. \A s1, s2 \in Seq(1..srcLen) : Len(s1 \o s2) = Len(s1) + Len(s2)
      BY ConcatProperties
    <3>. QED  BY <2>2, <2>3, <2>4, <3>1
  <2>. QED  BY <1>0, <1>1, <2>4, <2>5
<1>4. Limited => /\ limN' = call.n - rpos'
                 /\ rpos' <= IF call.n > 0 THEN call.n ELSE 0
  BY <1>0, <1>1, LimitFacts DEF CountInv
<1>5. /\ call' = call /\ srcLen' = srcLen /\ call.n \in Int /\ rpos' \in Int
      /\ Len(sink') \in Int /\ Len(sink') <= rpos' /\ written + r.n = Len(sink')
      /\ 0 <= written + r.n
  <2>1. rpos' = rpos + r.n
    BY <1>1
  <2>2. call' = call /\ srcLen' = srcLen /\ call.n \in Int
    BY <1>0 DEF TypeOK
  <2>. QED  BY <1>0, <1>ty, <1>2, <1>3, <2>1, <2>2
<1>6. CASE r.err = "nil"
  <2>1. pc' = "drain" /\ written' = rpos'
    BY <1>0, <1>1, <1>6
  <2>. QED  BY <1>4, <1>5, <2>1
            DEF CountInv, Limited, ReportedCount, CopyComplete, CopyNExact,
                NoUnexpectedPanic
<1>7. CASE r.err # "nil"
  <2> DEFINE e == IF r.err = "EOF" THEN "nil" ELSE r.err
  <2>1. Return(written + r.n, e)
    BY <1>1, <1>7
  <2>2. e \in Errs /\ written + r.n \in Int
    BY <1>2, <1>5 DEF Errs
  <2>3. ~Limited /\ e = "nil" => written + r.n = srcLen /\ Len(sink') = srcLen
    <3>1. e = "nil" => r.err = "EOF"
      BY <1>7
    <3>2. ~Limited /\ e = "nil" => r.n = srcLen - rpos
      BY <1>0, <3>1, ReadEOFFacts
    <3>. QED  BY <1>0, <1>ty, <1>2, <1>3, <3>2
  <2>4. ReportedCount' /\ (pc' = "done" => result'.n >= 0)
         /\ CopyComplete' /\ CopyNExact' /\ NoUnexpectedPanic'
    <3>. HIDE DEF e
    <3>. QED  BY <1>4, <1>5, <2>1, <2>2, <2>3, ReturnProps
  <2>5. pc' = "done"
    BY <2>1 DEF Return
  <2>. QED  BY <1>4, <1>5, <2>4, <2>5 DEF CountInv, Limited
<1>. QED  BY <1>6, <1>7

(* Every initial state satisfies CountInv.                                 *)
LEMMA CountInit == Init => CountInv
<1> SUFFICES ASSUME Init PROVE CountInv
  OBVIOUS
<1>1. PrefixInv /\ TypeOK
  BY PrefixInit, InitTypeOK
<1>2. /\ pc = "start" /\ rpos = 0 /\ written = 0 /\ limN = call.n
      /\ result = [n |-> 0, err |-> "nil"]
  BY DEF Init
<1>3. call.n \in Int
  BY <1>1 DEF TypeOK
<1>4. Limited => /\ limN = call.n - rpos
                 /\ rpos <= IF call.n > 0 THEN call.n ELSE 0
  BY <1>2, <1>3
<1>5. ReportedCount /\ CopyComplete /\ CopyNExact /\ NoUnexpectedPanic
  BY <1>2 DEF ReportedCount, CopyComplete, CopyNExact, NoUnexpectedPanic
<1>. QED  BY <1>1, <1>2, <1>4, <1>5 DEF CountInv

(* CountInv is inductive.                                                  *)
LEMMA CountStep == CountInv /\ [Next]_vars => CountInv'
<1> SUFFICES ASSUME CountInv, [Next]_vars PROVE CountInv'
  OBVIOUS
<1>0. /\ PrefixInv' /\ TypeOK /\ TypeOK'
      /\ pc = "start" => rpos = 0 /\ written = 0 /\ Len(sink) = 0
  BY PrefixStep, TypeOKStep DEF CountInv, PrefixInv
<1>1. CASE PanicEmptyBuffer
  BY <1>0, <1>1 DEF PanicEmptyBuffer, CountInv, Limited, ReportedCount,
                   CopyComplete, CopyNExact, NoUnexpectedPanic
<1>2. CASE WriteToPath
  <2>1. PICK k \in 0..(srcLen - rpos), e \in {"nil", "ErrRead", "ErrWrite"} :
          /\ e = "nil" => k = srcLen - rpos
          /\ rpos' = rpos + k
          /\ sink' = sink \o Chunk(rpos, k)
          /\ Return(k, e)
    BY <1>2 DEF WriteToPath
  <2>2. pc = "start" /\ ~Limited /\ UNCHANGED <<call, srcLen>>
    BY <1>2 DEF WriteToPath
  <2>3. Len(sink') = k /\ rpos' = k
    <3>1. srcLen \in Nat /\ rpos = 0 /\ Len(sink) = 0
      BY <1>0, <2>2 DEF TypeOK
    <3>2. Chunk(0, k) \in Seq(1..srcLen) /\ Len(Chunk(0, k)) = k
      BY <3>1, ChunkFacts
    <3>3. sink \in Seq(1..srcLen)
      BY <1>0 DEF TypeOK
    <3>. QED  BY <2>1, <3>1, <3>2, <3>3, ConcatProperties
  <2>4. ReportedCount' /\ (pc' = "done" => result'.n >= 0)
         /\ CopyComplete' /\ CopyNExact' /\ NoUnexpectedPanic'
    <3>1. k \in Int /\ e \in Errs /\ call.n \in Int /\ srcLen \in Int
      BY <1>0 DEF Errs, TypeOK
    <3>2. e = "nil" => k = srcLen
      BY <1>0, <2>1, <2>2 DEF TypeOK
    <3>. QED  BY <2>1, <2>2, <2>3, <3>1, <3>2, ReturnProps
  <2>5. pc' = "done"
    BY <2>1 DEF Return
  <2>. QED  BY <1>0, <2>2, <2>4, <2>5 DEF CountInv, Limited
<1>3. CASE ReadFromPath
  BY <1>0, <1>3 DEF ReadFromPath, CountInv, Limited, ReportedCount,
                   CopyComplete, CopyNExact, NoUnexpectedPanic
<1>4. CASE AllocBuffer
  <2>0. StagingSize \in Nat
    BY <1>0 DEF StagingSize, TypeOK
  <2>1. StagingSize \in Nat /\ (call.buf # NilBuf => call.buf \in Nat)
    BY <1>0, <2>0 DEF TypeOK
  <2>2. pc' = "loop"
    BY <1>4, <2>1 DEF AllocBuffer
  <2>. QED  BY <1>0, <1>4, <2>2 DEF AllocBuffer, CountInv, Limited, ReportedCount,
                                   CopyComplete, CopyNExact, NoUnexpectedPanic
<1>5. CASE CopyStep
  BY <1>0, <1>5, CopyStepCount
<1>6. CASE DrainStep
  BY <1>0, <1>6, DrainStepCount
<1>7. CASE UNCHANGED vars
  BY <1>0, <1>7 DEF vars, CountInv, Limited, ReportedCount, CopyComplete,
                   CopyNExact, NoUnexpectedPanic
<1>. QED  BY <1>1, <1>2, <1>3, <1>4, <1>5, <1>6, <1>7 DEF Next

(* The count Copy, CopyBuffer or CopyN returns never exceeds the bytes the *)
(* destination kept, whatever counts a broken Writer reports.              *)
THEOREM ReportedCountHolds == Spec => []ReportedCount
<1>1. CountInv => ReportedCount  BY DEF CountInv
<1>. QED  BY CountInit, CountStep, <1>1, PTL DEF Spec

(* Copy and CopyBuffer return nil only after every byte of the source has *)
(* reached the destination, by WriteTo, the staging loop or the drain.    *)
THEOREM CopyCompleteHolds == Spec => []CopyComplete
<1>1. CountInv => CopyComplete  BY DEF CountInv
<1>. QED  BY CountInit, CountStep, <1>1, PTL DEF Spec

(* For n >= 0, CopyN returns nil exactly when it reports n bytes, and then *)
(* the destination holds exactly n bytes.                                  *)
THEOREM CopyNExactHolds == Spec => []CopyNExact
<1>1. CountInv => CopyNExact  BY DEF CountInv
<1>. QED  BY CountInit, CountStep, <1>1, PTL DEF Spec

(* The only panic is CopyBuffer's on an empty buffer: the staging buffer  *)
(* sized from CopyN's LimitedReader is never negative.                     *)
THEOREM NoUnexpectedPanicHolds == Spec => []NoUnexpectedPanic
<1>1. CountInv => NoUnexpectedPanic  BY DEF CountInv
<1>. QED  BY CountInit, CountStep, <1>1, PTL DEF Spec

(* CopyN consumes at most n bytes of its source, none for n <= 0, and its  *)
(* LimitedReader's N counts down by exactly what it passed on.             *)
THEOREM LimitRespectedHolds == Spec => []LimitRespected
<1>1. CountInv => LimitRespected  BY DEF CountInv, LimitRespected
<1>. QED  BY CountInit, CountStep, <1>1, PTL DEF Spec


(***************************************************************************)
(* copyBuffer's count check, step by step.                                 *)
(***************************************************************************)

(* Appending a chunk of k source bytes lengthens the destination by k.    *)
LEMMA ChunkLen ==
  ASSUME NEW hi \in Nat, NEW s \in Seq(1..hi), NEW from \in Nat,
         NEW k \in Nat, from + k <= hi
  PROVE  Len(s \o Chunk(from, k)) = Len(s) + k
<1>1. Chunk(from, k) \in Seq(1..hi) /\ Len(Chunk(from, k)) = k
  BY ChunkFacts
<1>2. \A s1, s2 \in Seq(1..hi) : Len(s1 \o s2) = Len(s1) + Len(s2)
  BY ConcatProperties
<1>. QED  BY <1>1, <1>2

(* One iteration of the staging loop adds CountOf(nr, w) to written and   *)
(* w.took bytes to the destination, and the check clamps the first into  *)
(* 0..w.took.                                                               *)
LEMMA CopyStepOK == TypeOK /\ CopyStep => CountStepOK
<1> SUFFICES ASSUME TypeOK, CopyStep PROVE CountStepOK
  OBVIOUS
<1>ty. rpos \in 0..srcLen /\ srcLen \in Nat /\ written \in Int
       /\ bufLen \in Int /\ sink \in Seq(1..srcLen)
  BY DEF TypeOK
<1>1. PICK r \in ReadOutcomes(bufLen) :
        \E w \in IF r.n > 0 THEN WriteOutcomes(r.n) ELSE {NoWrite} :
          /\ sink' = sink \o Chunk(rpos, w.took)
          /\ written' = written + CountOf(r.n, w)
  BY DEF CopyStep
<1>2. r.n \in 0..(srcLen - rpos)
  BY <1>ty, ReadOutcomeFacts
<1>3. PICK w \in IF r.n > 0 THEN WriteOutcomes(r.n) ELSE {NoWrite} :
        /\ sink' = sink \o Chunk(rpos, w.took)
        /\ written' = written + CountOf(r.n, w)
  BY <1>1
<1>4. w \in WriteOutcomes(r.n) \cup {NoWrite}
  BY <1>3
<1>5. w.took \in 0..r.n /\ CountOf(r.n, w) \in 0..w.took
  BY <1>2, <1>4, WriteOutcomeFacts, CountOfFacts
<1>6. Len(sink') = Len(sink) + w.took
  <2>1. rpos \in Nat /\ w.took \in Nat /\ rpos + w.took <= srcLen
    BY <1>ty, <1>2, <1>5
  <2>2. PICK t \in Nat : t = w.took
    BY <2>1
  <2>3. Len(sink \o Chunk(rpos, t)) = Len(sink) + t
    <3>1. /\ srcLen \in Nat /\ sink \in Seq(1..srcLen)
          /\ rpos \in Nat /\ rpos + t <= srcLen
      BY <1>ty, <2>1, <2>2
    <3>. QED  BY <3>1, ChunkLen
  <2>. QED  BY <1>3, <2>2, <2>3
<1>7. written' = written + CountOf(r.n, w)
  BY <1>3
<1>. QED  BY <1>ty, <1>5, <1>6, <1>7 DEF CountStepOK

(* discard.ReadFrom counts exactly the bytes it drops.                     *)
LEMMA DrainStepOK == TypeOK /\ DrainStep => CountStepOK
<1> SUFFICES ASSUME TypeOK, DrainStep PROVE CountStepOK
  OBVIOUS
<1>ty. rpos \in 0..srcLen /\ srcLen \in Nat /\ written \in Int
       /\ bufLen \in Int /\ sink \in Seq(1..srcLen)
  BY DEF TypeOK
<1>1. PICK r \in ReadOutcomes(bufLen) :
        /\ sink' = sink \o Chunk(rpos, r.n)
        /\ written' = written + r.n
  BY DEF DrainStep
<1>2. r.n \in 0..(srcLen - rpos)
  BY <1>ty, ReadOutcomeFacts
<1>3. Len(sink \o Chunk(rpos, r.n)) = Len(sink) + r.n
  <2>1. rpos \in Nat /\ r.n \in Nat /\ rpos + r.n <= srcLen
    BY <1>ty, <1>2
  <2>2. PICK t \in Nat : t = r.n
    BY <2>1
  <2>3. Len(sink \o Chunk(rpos, t)) = Len(sink) + t
    <3>1. /\ srcLen \in Nat /\ sink \in Seq(1..srcLen)
          /\ rpos \in Nat /\ rpos + t <= srcLen
      BY <1>ty, <2>1, <2>2
    <3>. QED  BY <3>1, ChunkLen
  <2>. QED  BY <2>2, <2>3
<1>4. written' = written + r.n /\ Len(sink') = Len(sink) + r.n
  BY <1>1, <1>3
<1>5. r.n \in Nat /\ written \in Int
  BY <1>ty, <1>2
<1>. QED  BY <1>4, <1>5 DEF CountStepOK

(* WriteTo hands its count straight to the result: written stays, and    *)
(* the destination only grows.                                             *)
LEMMA WriteToPathOK == TypeOK /\ WriteToPath => CountStepOK
<1> SUFFICES ASSUME TypeOK, WriteToPath PROVE CountStepOK
  OBVIOUS
<1>ty. rpos \in 0..srcLen /\ srcLen \in Nat /\ written \in Int
       /\ sink \in Seq(1..srcLen)
  BY DEF TypeOK
<1>1. PICK k \in 0..(srcLen - rpos) : sink' = sink \o Chunk(rpos, k)
  BY DEF WriteToPath
<1>2. Len(sink \o Chunk(rpos, k)) = Len(sink) + k
  <2>1. rpos \in Nat /\ k \in Nat /\ rpos + k <= srcLen
    BY <1>ty, <1>1
  <2>. QED  BY <1>ty, <2>1, ChunkLen
<1>3. written' = written
  BY DEF WriteToPath
<1>. QED  BY <1>ty, <1>1, <1>2, <1>3 DEF CountStepOK

(* Every step of the model satisfies the count check.                     *)
LEMMA NextCountOK == TypeOK /\ [Next]_vars => [CountStepOK]_vars
<1> SUFFICES ASSUME TypeOK, [Next]_vars PROVE [CountStepOK]_vars
  OBVIOUS
<1>0. written \in Int /\ Len(sink) \in Nat
  BY LenProperties DEF TypeOK
<1>1. CASE PanicEmptyBuffer \/ ReadFromPath \/ AllocBuffer \/ UNCHANGED vars
  <2>1. written' = written /\ sink' = sink
    BY <1>1 DEF PanicEmptyBuffer, ReadFromPath, AllocBuffer, vars
  <2>. QED  BY <1>0, <2>1 DEF CountStepOK
<1>2. CASE WriteToPath
  BY <1>2, WriteToPathOK
<1>3. CASE CopyStep
  BY <1>3, CopyStepOK
<1>4. CASE DrainStep
  BY <1>4, DrainStepOK
<1>. QED  BY <1>1, <1>2, <1>3, <1>4 DEF Next

(* Across a whole call, no step of Copy, CopyBuffer or CopyN decreases    *)
(* the count or raises it by more than the bytes the destination kept,    *)
(* whatever counts the Writer returns (the checks of io.go:536-541;       *)
(* CountFollowsSink, checked by run copy_engine).                          *)
THEOREM CountFollowsSinkHolds == Spec => CountFollowsSink
<1>1. TypeOK /\ [Next]_vars => [CountStepOK]_vars
  BY NextCountOK
<1>. QED  BY TypeCorrect, <1>1, PTL DEF Spec, CountFollowsSink

=============================================================================
