------------------------- MODULE DiscardPoolProofs -------------------------
(***************************************************************************)
(* Proofs about concurrent discard.ReadFrom calls sharing blackHolePool,   *)
(* for any set of goroutines, any source sizes and any bound on New:       *)
(* a buffer is held by at most one goroutine and never while pooled, and  *)
(* every goroutine that has left its loop has given its buffer back.       *)
(***************************************************************************)
EXTENDS DiscardPool, TLAPS

USE PoolAssumption

(* The inductive invariant: the types, the byte count of each goroutine   *)
(* bounded by its source, a goroutine in the loop holding a buffer, and   *)
(* the two properties.                                                     *)
IInv ==
  /\ TypeOK
  /\ \A d \in Drains : n[d] + left[d] <= MaxLen
  /\ \A d \in Drains : pc[d] = "loop" => bufp[d] # 0
  /\ ExclusiveBuffers
  /\ ReturnedOnExit

(* Every initial state satisfies it.                                       *)
LEMMA InitIInv == Init => IInv
BY DEF Init, IInv, TypeOK, ExclusiveBuffers, ReturnedOnExit, Errs

(* Get: a pooled buffer is held by nobody, and a new one is numbered above *)
(* every buffer made so far.                                               *)
LEMMA GetIInv ==
  ASSUME IInv, NEW d \in Drains, Get(d)
  PROVE  IInv'
<1>1. bufp[d] = 0
  BY DEF Get, IInv, ReturnedOnExit
<1>2. CASE \E b \in pool : /\ bufp' = [bufp EXCEPT ![d] = b]
                           /\ pool' = pool \ {b}
                           /\ UNCHANGED made
  <2>1. PICK b \in pool : /\ bufp' = [bufp EXCEPT ![d] = b]
                          /\ pool' = pool \ {b}
                          /\ UNCHANGED made
    BY <1>2
  <2>2. b \in 1..made /\ \A e \in Drains : bufp[e] # b
    BY <1>1 DEF IInv, TypeOK, ExclusiveBuffers
  <2>. QED  BY <1>1, <2>1, <2>2
            DEF Get, IInv, TypeOK, ExclusiveBuffers, ReturnedOnExit
<1>3. CASE /\ made < MaxBufs
           /\ made' = made + 1
           /\ bufp' = [bufp EXCEPT ![d] = made + 1]
           /\ UNCHANGED pool
  <2>1. made + 1 \notin pool /\ \A e \in Drains : bufp[e] # made + 1
    BY DEF IInv, TypeOK
  <2>. QED  BY <1>1, <1>3, <2>1
            DEF Get, IInv, TypeOK, ExclusiveBuffers, ReturnedOnExit
<1>. QED  BY <1>2, <1>3 DEF Get

(* A Read: on an error the buffer goes back to the pool and the goroutine *)
(* lets go of it; otherwise nothing of the pool changes.                   *)
LEMMA ReadStepIInv ==
  ASSUME IInv, NEW d \in Drains, ReadStep(d)
  PROVE  IInv'
<1>1. PICK r \in ReadOutcomes(d) :
        /\ left' = [left EXCEPT ![d] = @ - r.k]
        /\ n' = [n EXCEPT ![d] = @ + r.k]
        /\ IF Stop(r.err) THEN Exit(d, r.err, n[d] + r.k) ELSE Continue(d)
  BY DEF ReadStep
<1>2. /\ pc[d] = "loop" /\ bufp[d] \in 1..made /\ UNCHANGED made
      /\ r.k \in 0..left[d] /\ r.err \in {"nil", "EOF", "ErrRead"}
  BY DEF ReadStep, ReadOutcomes, IInv, TypeOK
<1>3. /\ left' \in [Drains -> 0..MaxLen] /\ n' \in [Drains -> 0..MaxLen]
      /\ \A e \in Drains : n'[e] + left'[e] <= MaxLen
  BY <1>1, <1>2 DEF IInv, TypeOK
<1>4. CASE Stop(r.err)
  <2>1. /\ pool' = pool \cup {bufp[d]}
        /\ bufp' = [bufp EXCEPT ![d] = 0]
        /\ pc' = [pc EXCEPT ![d] = "done"]
        /\ result' = [result EXCEPT ![d] = [n |-> n[d] + r.k,
                                            err |-> IF r.err = "EOF" THEN "nil" ELSE r.err]]
    BY <1>1, <1>4 DEF Exit
  <2>2. \A e \in Drains \ {d} : bufp[e] # bufp[d]
    BY <1>2 DEF IInv, ExclusiveBuffers
  <2>3. n[d] + r.k \in 0..MaxLen
    BY <1>2 DEF IInv, TypeOK
  <2>4. r.err # "nil"
    BY <1>4 DEF Stop
  <2>5. TypeOK'
    <3>0. (IF r.err = "EOF" THEN "nil" ELSE r.err) \in Errs
      BY <1>2, <2>4 DEF Errs
    <3>1. result' \in [Drains -> [n : 0..MaxLen, err : Errs]]
      BY <2>1, <2>3, <3>0 DEF IInv, TypeOK
    <3>2. pool' \subseteq 1..made'
      BY <1>2, <2>1 DEF IInv, TypeOK
    <3>4. bufp' \in [Drains -> 0..made']
      BY <1>2, <2>1 DEF IInv, TypeOK
    <3>3. pc' \in [Drains -> {"get", "loop", "done"}]
      BY <2>1 DEF IInv, TypeOK
    <3>. QED  BY <1>2, <1>3, <3>1, <3>2, <3>3, <3>4 DEF IInv, TypeOK
  <2>6. ExclusiveBuffers'
    BY <1>2, <2>1, <2>2 DEF IInv, TypeOK, ExclusiveBuffers
  <2>7. ReturnedOnExit' /\ \A e \in Drains : pc'[e] = "loop" => bufp'[e] # 0
    BY <2>1 DEF IInv, TypeOK, ReturnedOnExit
  <2>. QED  BY <1>3, <2>5, <2>6, <2>7 DEF IInv
<1>5. CASE ~Stop(r.err)
  <2>1. UNCHANGED <<pool, bufp, pc, result>>
    BY <1>1, <1>5 DEF Continue
  <2>. QED  BY <1>2, <1>3, <2>1
            DEF IInv, TypeOK, ExclusiveBuffers, ReturnedOnExit
<1>. QED  BY <1>4, <1>5

(* The pool dropping a buffer frees it for nobody.                         *)
LEMMA DropIInv == IInv /\ Drop => IInv'
BY DEF Drop, IInv, TypeOK, ExclusiveBuffers, ReturnedOnExit

(* The invariant is inductive.                                             *)
LEMMA NextIInv == IInv /\ [Next]_vars => IInv'
<1> SUFFICES ASSUME IInv, [Next]_vars PROVE IInv'
  OBVIOUS
<1>1. CASE Drop
  BY <1>1, DropIInv
<1>2. ASSUME NEW d \in Drains, Get(d) PROVE IInv'
  BY <1>2, GetIInv
<1>3. ASSUME NEW d \in Drains, ReadStep(d) PROVE IInv'
  BY <1>3, ReadStepIInv
<1>4. CASE UNCHANGED vars
  BY <1>4 DEF IInv, TypeOK, ExclusiveBuffers, ReturnedOnExit, vars
<1>. QED  BY <1>1, <1>2, <1>3, <1>4 DEF Next

(* ReadFrom's state keeps its types in every behaviour: counts stay within *)
(* the source and the error returned is never EOF.                         *)
THEOREM TypeCorrect == Spec => []TypeOK
<1>1. Init => IInv  BY InitIInv
<1>2. IInv /\ [Next]_vars => IInv'  BY NextIInv
<1>3. IInv => TypeOK  BY DEF IInv
<1>. QED  BY <1>1, <1>2, <1>3, PTL DEF Spec

(* However the goroutines interleave and the pool drops buffers, no buffer *)
(* that blackHolePool hands out is held by two drains or kept in the pool  *)
(* while one reads into it.                                                *)
THEOREM ExclusiveBuffersHolds == Spec => []ExclusiveBuffers
<1>1. Init => IInv  BY InitIInv
<1>2. IInv /\ [Next]_vars => IInv'  BY NextIInv
<1>3. IInv => ExclusiveBuffers  BY DEF IInv
<1>. QED  BY <1>1, <1>2, <1>3, PTL DEF Spec

(* Every drain that has returned from ReadFrom, at EOF or on an error, has *)
(* put its buffer back.                                                    *)
THEOREM ReturnedOnExitHolds == Spec => []ReturnedOnExit
<1>1. Init => IInv  BY InitIInv
<1>2. IInv /\ [Next]_vars => IInv'  BY NextIInv
<1>3. IInv => ReturnedOnExit  BY DEF IInv
<1>. QED  BY <1>1, <1>2, <1>3, PTL DEF Spec


=============================================================================
