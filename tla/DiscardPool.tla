---------------------------- MODULE DiscardPool ----------------------------
(***************************************************************************)
(* Concurrent io.Copy(io.Discard, r) calls: each goroutine runs           *)
(* discard.ReadFrom (io.go:763-776), which takes an 8 KiB buffer from the *)
(* shared blackHolePool (io.go:755-760), reads its own source into it     *)
(* until an error, and puts the buffer back.  sync.Pool hands out a       *)
(* pooled buffer or makes a new one, and may drop pooled buffers at any   *)
(* time (a garbage collection).                                            *)
(***************************************************************************)
EXTENDS Integers, FiniteSets

CONSTANTS
  Drains,   \* the goroutines calling discard.ReadFrom
  MaxLen,   \* the largest source
  MaxBufs   \* how many buffers New may make in one behaviour

ASSUME PoolAssumption ==
  /\ IsFiniteSet(Drains) /\ MaxLen \in Nat /\ MaxBufs \in Nat \ {0}

VARIABLES
  pool,     \* the buffers in blackHolePool
  made,     \* how many buffers New has made; buffers are 1..made
  bufp,     \* bufp of each goroutine, 0 when it holds none
  left,     \* the bytes left in each goroutine's source
  n,        \* each goroutine's count
  pc,       \* "get", "loop" or "done"
  result    \* what each ReadFrom returned

vars == <<pool, made, bufp, left, n, pc, result>>

Errs == {"nil", "ErrRead"}

(* blackHolePool.Get(): any pooled buffer, or a new one from New.         *)
Get(d) ==
  /\ pc[d] = "get"
  /\ \/ \E b \in pool :
          /\ bufp' = [bufp EXCEPT ![d] = b]
          /\ pool' = pool \ {b}
          /\ UNCHANGED made
     \/ /\ made < MaxBufs
        /\ made' = made + 1
        /\ bufp' = [bufp EXCEPT ![d] = made + 1]
        /\ UNCHANGED pool
  /\ pc' = [pc EXCEPT ![d] = "loop"]
  /\ UNCHANGED <<left, n, result>>

(* readSize, err = r.Read into bufp: some bytes with nil, all that is left *)
(* with EOF, or, while bytes are left, some bytes with an error; a drained *)
(* source keeps answering EOF.  (0, nil) is a stuttering step.            *)
ReadOutcomes(d) ==
       {[k |-> k, err |-> "nil"] : k \in 1..left[d]}
  \cup {[k |-> left[d], err |-> "EOF"]}
  \cup {[k |-> k, err |-> "ErrRead"] : k \in 0..(left[d] - 1)}

(* The exits: on an error, Put(bufp) and return (n, nil) for EOF.          *)
Stop_IgnoreEOF(err) == err \notin {"nil", "EOF"}

Stop(err) == err # "nil"

Exit_ReturnBeforePut(d, e, cnt) ==
  /\ pool' = IF e = "EOF" THEN pool ELSE pool \cup {bufp[d]}
  /\ bufp' = IF e = "EOF" THEN bufp ELSE [bufp EXCEPT ![d] = 0]
  /\ pc' = [pc EXCEPT ![d] = "done"]
  /\ result' = [result EXCEPT ![d] = [n |-> cnt, err |-> IF e = "EOF" THEN "nil" ELSE e]]

Exit_KeepEOF(d, e, cnt) ==
  /\ pool' = pool \cup {bufp[d]}
  /\ bufp' = [bufp EXCEPT ![d] = 0]
  /\ pc' = [pc EXCEPT ![d] = "done"]
  /\ result' = [result EXCEPT ![d] = [n |-> cnt, err |-> e]]

Exit(d, e, cnt) ==
  /\ pool' = pool \cup {bufp[d]}
  /\ bufp' = [bufp EXCEPT ![d] = 0]
  /\ pc' = [pc EXCEPT ![d] = "done"]
  /\ result' = [result EXCEPT ![d] = [n |-> cnt, err |-> IF e = "EOF" THEN "nil" ELSE e]]

(* Mutant: the buffer goes back to the pool after every Read.             *)
Continue_PutEach(d) ==
  /\ pool' = pool \cup {bufp[d]}
  /\ UNCHANGED <<bufp, pc, result>>

Continue(d) == UNCHANGED <<pool, bufp, pc, result>>

ReadStep(d) ==
  /\ pc[d] = "loop"
  /\ \E r \in ReadOutcomes(d) :
       /\ left' = [left EXCEPT ![d] = @ - r.k]
       /\ n' = [n EXCEPT ![d] = @ + r.k]
       /\ IF Stop(r.err) THEN Exit(d, r.err, n[d] + r.k) ELSE Continue(d)
  /\ UNCHANGED made

(* sync.Pool may drop what it holds; New can then make more.               *)
Drop ==
  /\ made < MaxBufs
  /\ \E b \in pool : pool' = pool \ {b}
  /\ UNCHANGED <<made, bufp, left, n, pc, result>>

Init ==
  /\ pool = {}
  /\ made = 0
  /\ bufp = [d \in Drains |-> 0]
  /\ left \in [Drains -> 0..MaxLen]
  /\ n = [d \in Drains |-> 0]
  /\ pc = [d \in Drains |-> "get"]
  /\ result = [d \in Drains |-> [n |-> 0, err |-> "nil"]]

Next == Drop \/ \E d \in Drains : Get(d) \/ ReadStep(d)

(* Each goroutine is scheduled and its Reads return (weak fairness per    *)
(* goroutine, which also rules out a source answering (0, nil) forever). *)
Spec == Init /\ [][Next]_vars /\ \A d \in Drains : WF_vars(Get(d) \/ ReadStep(d))

-----------------------------------------------------------------------------

(* Types; ReadFrom's error is never EOF.                                    *)
TypeOK ==
  /\ made \in 0..MaxBufs /\ pool \subseteq 1..made
  /\ bufp \in [Drains -> 0..made]
  /\ left \in [Drains -> 0..MaxLen] /\ n \in [Drains -> 0..MaxLen]
  /\ pc \in [Drains -> {"get", "loop", "done"}]
  /\ result \in [Drains -> [n : 0..MaxLen, err : Errs]]

(* A buffer is used by at most one goroutine at a time, and never while  *)
(* it sits in the pool: a second drain that Gets it cannot overwrite what *)
(* the first is reading into.                                              *)
ExclusiveBuffers ==
  \A d \in Drains :
    bufp[d] # 0 =>
      /\ bufp[d] \notin pool
      /\ \A e \in Drains \ {d} : bufp[e] # bufp[d]

(* Every exit of ReadFrom, EOF and error alike, gives its buffer back:    *)
(* a finished drain holds none, and only running drains keep buffers out  *)
(* of the pool.                                                            *)
ReturnedOnExit ==
  \A d \in Drains : pc[d] # "loop" => bufp[d] = 0

(* Every drain returns.                                                    *)
Termination == \A d \in Drains : <>(pc[d] = "done")

=============================================================================
