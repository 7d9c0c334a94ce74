------------------------ MODULE IOCopyTransferProofs ------------------------
(***************************************************************************)
(* The safety part of the refinement of TransferSpec by IOCopy, for every *)
(* value of the constants: under the mapping of IOCopyTransfer every       *)
(* initial state of a call is an initial state of the abstract call, and   *)
(* every step is a step of it or leaves the mapped state unchanged.  The  *)
(* fairness part (the call returns) is checked by TLC only.                *)
(***************************************************************************)
EXTENDS IOCopyTransfer, IOCopyProofs, TLAPS

USE MaxLenAssumption, SizeAssumption, ArgsAssumption, NilAssumption

(* The initial call is one of the calls TransferSpec starts with.           *)
LEMMA InitRefines == Init => Transfer!Init
<1> SUFFICES ASSUME Init PROVE Transfer!Init
  OBVIOUS
<1>1. PICK fn \in Fns, s \in ReaderKinds \cup {NopCloser(k) : k \in ReaderKinds},
          d \in DstKinds :
        \E b \in IF fn = "CopyBuffer" THEN BufArgs ELSE {NilBuf},
           n \in IF fn = "CopyN" THEN NArgs ELSE {0} :
          call = [fn |-> fn, src |-> s, dst |-> d, buf |-> b, n |-> n]
  BY DEF Init
<1>2. PICK b \in IF fn = "CopyBuffer" THEN BufArgs ELSE {NilBuf},
           n \in IF fn = "CopyN" THEN NArgs ELSE {0} :
          call = [fn |-> fn, src |-> s, dst |-> d, buf |-> b, n |-> n]
  BY <1>1
<1>3. call \in InitCalls
  BY <1>2 DEF InitCalls
<1>4. Status = "running"
  BY DEF Init, Status
<1>. QED  BY <1>3, <1>4 DEF Init, Transfer!Init

(* A step of a running call that consumes k bytes and hands the first t   *)
(* of them to the destination is a Move of the abstract call, or its      *)
(* Return when the call returns: CountInv in the next state bounds the    *)
(* bytes consumed by what CopyN may take and gives the value returned the *)
(* meaning TransferSpec promises.                                          *)
LEMMA TransferStep ==
  ASSUME CountInv, CountInv', pc \in {"start", "loop", "drain"},
         call' = call, srcLen' = srcLen,
         NEW k \in Nat, NEW t \in 0..k,
         rpos' = rpos + k, sink' = sink \o Chunk(rpos, t),
         pc' = "done" \/ (pc' = pc /\ result' = result)
  PROVE  Transfer!Next
<1>0. /\ TypeOK /\ TypeOK' /\ Len(sink) = rpos
      /\ Limited' => rpos' <= IF call'.n > 0 THEN call'.n ELSE 0
  BY DEF CountInv, PrefixInv
<1>1. Status = "running"
  BY DEF Status
<1>2. Transfer!Bound \in Int /\ rpos' <= Transfer!Bound
  <2>1. rpos' <= srcLen /\ srcLen \in Nat /\ call.n \in Int
    BY <1>0 DEF TypeOK
  <2>. QED  BY <1>0, <2>1 DEF Transfer!Bound, Transfer!MinOf2, Limited
<1>3. sink' = sink \o [i \in 1..t |-> Len(sink) + i]
  BY <1>0 DEF Chunk
<1>4. Transfer!Progress
  <2>1. k \in 0..(Transfer!Bound - rpos)
    BY <1>0, <1>2 DEF TypeOK
  <2>2. t \in 0..(rpos + k - Len(sink))
    BY <1>0 DEF TypeOK
  <2>. QED  BY <1>1, <1>3, <2>1, <2>2 DEF Transfer!Progress
<1>5. CASE pc' = "done"
  <2>1. Status' = "done"
    BY <1>5 DEF Status
  <2>2. result' \in [n : 0..Len(sink'), err : Errs]
    <3>1. result' \in [n : Int, err : Errs] /\ Len(sink') \in Nat
      BY <1>0 DEF TypeOK
    <3>2. result'.n <= Len(sink') /\ result'.n >= 0
      BY <1>5 DEF CountInv, ReportedCount
    <3>. QED  BY <3>1, <3>2
  <2>3. result'.err = "nil" => Transfer!Complete(sink', result')
    <3>1. CASE call.fn = "CopyN" /\ call.n >= 0
      BY <1>5, <3>1 DEF CountInv, CopyNExact, Limited, Transfer!Complete
    <3>2. CASE call.fn = "CopyN" /\ ~(call.n >= 0)
      <4>1. result'.n <= Len(sink') /\ result'.n >= 0 /\ Len(sink') <= rpos'
        BY <1>5 DEF CountInv, ReportedCount, PrefixInv, SinkIsPrefix
      <4>2. rpos' <= 0 /\ call.n \in Int
        BY <1>0, <3>2 DEF Limited, TypeOK
      <4>3. result'.n \in Int
        BY <1>0 DEF TypeOK
      <4>. QED  BY <3>2, <4>1, <4>2, <4>3 DEF Transfer!Complete
    <3>3. CASE call.fn # "CopyN"
      BY <1>5, <3>3 DEF CountInv, CopyComplete, Limited, Transfer!Complete
    <3>. QED  BY <3>1, <3>2, <3>3
  <2>. QED  BY <1>4, <2>1, <2>2, <2>3 DEF Transfer!Return, Transfer!Next
<1>6. CASE pc' = pc /\ result' = result
  <2>1. Status' = Status
    BY <1>6 DEF Status
  <2>. QED  BY <1>4, <1>6, <2>1 DEF Transfer!Move, Transfer!Next
<1>. QED  BY <1>5, <1>6

(* An iteration of copyBuffer's loop consumes the bytes it read and hands *)
(* the destination the ones the Write kept; unless it returns, it changes  *)
(* neither where the call is nor its result.                               *)
LEMMA CopyStepShape ==
  ASSUME TypeOK, CopyStep
  PROVE  \E k \in Nat, t \in Nat :
           /\ t <= k
           /\ rpos' = rpos + k /\ sink' = sink \o Chunk(rpos, t)
           /\ pc' = "done" \/ (pc' = pc /\ result' = result)
<1>1. PICK r \in ReadOutcomes(bufLen) :
        /\ rpos' = rpos + r.n
        /\ \E w \in IF r.n > 0 THEN WriteOutcomes(r.n) ELSE {NoWrite} :
             /\ sink' = sink \o Chunk(rpos, w.took)
             /\ IF WriteExit(r.n, w) # "nil"
                  THEN Return(written + CountOf(r.n, w), WriteExit(r.n, w))
                ELSE IF ReadBreak(r.err)
                  THEN Return(written + CountOf(r.n, w), ReadErr(r.err))
                ELSE UNCHANGED <<pc, result>>
  BY DEF CopyStep
<1>2. r.n \in 0..(srcLen - rpos)
  <2>1. bufLen \in Int
    BY DEF TypeOK
  <2>. QED  BY <2>1, ReadOutcomeFacts
<1>3. PICK w \in IF r.n > 0 THEN WriteOutcomes(r.n) ELSE {NoWrite} :
        /\ sink' = sink \o Chunk(rpos, w.took)
        /\ IF WriteExit(r.n, w) # "nil"
             THEN Return(written + CountOf(r.n, w), WriteExit(r.n, w))
           ELSE IF ReadBreak(r.err)
             THEN Return(written + CountOf(r.n, w), ReadErr(r.err))
           ELSE UNCHANGED <<pc, result>>
  BY <1>1
<1>4. w.took \in 0..r.n
  BY <1>2, WriteOutcomeFacts
<1>5. pc' = "done" \/ (pc' = pc /\ result' = result)
  BY <1>3 DEF Return
<1>6. r.n \in Nat /\ w.took \in Nat
  BY <1>2, <1>4
<1> USE <1>6
<1>7. WITNESS r.n \in Nat, w.took \in Nat
<1>. QED  BY <1>1, <1>2, <1>3, <1>4, <1>5

(* An iteration of discard.ReadFrom hands the destination every byte it   *)
(* read.                                                                   *)
LEMMA DrainStepShape ==
  ASSUME TypeOK, DrainStep
  PROVE  \E k \in Nat :
           /\ rpos' = rpos + k /\ sink' = sink \o Chunk(rpos, k)
           /\ pc' = "done" \/ (pc' = pc /\ result' = result)
<1>1. PICK r \in ReadOutcomes(bufLen) :
        /\ rpos' = rpos + r.n
        /\ sink' = sink \o Chunk(rpos, r.n)
        /\ IF r.err = "nil"
             THEN UNCHANGED <<pc, result>>
             ELSE Return(written + r.n, IF r.err = "EOF" THEN "nil" ELSE r.err)
  BY DEF DrainStep
<1>2. r.n \in Nat
  <2>1. bufLen \in Int
    BY DEF TypeOK
  <2>. QED  BY <2>1, ReadOutcomeFacts DEF TypeOK
<1>. QED  BY <1>1, <1>2 DEF Return

(* Every step of IOCopy from a state satisfying CountInv is a step of     *)
(* TransferSpec or leaves the mapped state unchanged: the dispatch and    *)
(* the buffer allocation are invisible, CopyBuffer's panic is the         *)
(* abstract Panic, and the fast paths and loop iterations move bytes and   *)
(* return as the abstract call does.                                      *)
LEMMA NextRefines ==
  CountInv /\ CountInv' /\ [Next]_vars => [Transfer!Next]_Transfer!avars
<1> SUFFICES ASSUME CountInv, CountInv', [Next]_vars
             PROVE  [Transfer!Next]_Transfer!avars
  OBVIOUS
<1>0. TypeOK /\ (pc = "start" => rpos = 0)
  BY DEF CountInv, PrefixInv
<1>1. CASE PanicEmptyBuffer
  <2>1. Status = "running" /\ Status' = "panic"
    BY <1>1 DEF PanicEmptyBuffer, Status
  <2>. QED  BY <1>0, <1>1, <2>1 DEF PanicEmptyBuffer, Transfer!Panic, Transfer!Next
<1>2. CASE ReadFromPath
  <2>1. Status = "running" /\ Status' = "running"
    BY <1>2 DEF ReadFromPath, Status
  <2>. QED  BY <1>2, <2>1 DEF ReadFromPath, Transfer!avars
<1>3. CASE AllocBuffer
  <2>1. StagingSize \in Nat
    BY <1>0 DEF StagingSize, TypeOK
  <2>2. call.buf # NilBuf => call.buf \in Nat
    BY <1>0 DEF TypeOK
  <2>3. Status = "running" /\ Status' = "running"
    BY <1>3, <2>1, <2>2 DEF AllocBuffer, Status
  <2>. QED  BY <1>3, <2>3 DEF AllocBuffer, Transfer!avars
<1>4. CASE WriteToPath
  <2>1. PICK k \in 0..(srcLen - rpos), e \in {"nil", "ErrRead", "ErrWrite"} :
          /\ rpos' = rpos + k
          /\ sink' = sink \o Chunk(rpos, k)
          /\ Return(k, e)
    BY <1>4 DEF WriteToPath
  <2>2. k \in Nat /\ pc' = "done" /\ pc = "start"
    BY <1>0, <1>4, <2>1 DEF Return, WriteToPath, TypeOK
  <2>3. /\ call' = call /\ srcLen' = srcLen /\ k \in 0..k
        /\ pc \in {"start", "loop", "drain"}
    BY <1>4, <2>2 DEF WriteToPath
  <2>. QED  BY <2>1, <2>2, <2>3, TransferStep
<1>5. CASE CopyStep
  <2>1. PICK k \in Nat, t \in Nat :
          /\ t <= k
          /\ rpos' = rpos + k /\ sink' = sink \o Chunk(rpos, t)
          /\ pc' = "done" \/ (pc' = pc /\ result' = result)
    BY <1>0, <1>5, CopyStepShape
  <2>2. pc = "loop" /\ call' = call /\ srcLen' = srcLen /\ t \in 0..k
    BY <1>5, <2>1 DEF CopyStep
  <2>. QED  BY <2>1, <2>2, TransferStep
<1>6. CASE DrainStep
  <2>1. PICK k \in Nat :
          /\ rpos' = rpos + k /\ sink' = sink \o Chunk(rpos, k)
          /\ pc' = "done" \/ (pc' = pc /\ result' = result)
    BY <1>0, <1>6, DrainStepShape
  <2>2. pc = "drain" /\ call' = call /\ srcLen' = srcLen /\ k \in 0..k
    BY <1>6, <2>1 DEF DrainStep
  <2>. QED  BY <2>1, <2>2, TransferStep
<1>7. CASE UNCHANGED vars
  <2>1. Status' = Status
    BY <1>7 DEF vars, Status
  <2>. QED  BY <1>7, <2>1 DEF vars, Transfer!avars
<1>. QED  BY <1>1, <1>2, <1>3, <1>4, <1>5, <1>6, <1>7 DEF Next

(* Every behaviour of Copy, CopyBuffer and CopyN is, under the mapping,   *)
(* one TransferSpec allows as far as safety goes: the call starts as an   *)
(* abstract call, consumes its source from the front within CopyN's       *)
(* bound, hands the destination the next bytes in order, returns once     *)
(* with a count the destination got and nil only for a complete transfer, *)
(* and panics only on CopyBuffer's empty buffer.                          *)
THEOREM Refinement == Spec => Transfer!Init /\ [][Transfer!Next]_Transfer!avars
<1>1. Init => Transfer!Init
  BY InitRefines
<1>2. Spec => []CountInv
  BY CountInit, CountStep, PTL DEF Spec
<1>3. CountInv /\ CountInv' /\ [Next]_vars => [Transfer!Next]_Transfer!avars
  BY NextRefines
<1>. QED  BY <1>1, <1>2, <1>3, PTL DEF Spec

=============================================================================
