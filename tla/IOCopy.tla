------------------------------- MODULE IOCopy -------------------------------
(***************************************************************************)
(* The transfer engine of package io (src/src/io/io.go): one call of       *)
(* Copy, CopyBuffer or CopyN, from the dispatch on the fast paths          *)
(* (WriterTo, ReaderFrom) through the staging loop of copyBuffer, the      *)
(* LimitedReader that CopyN wraps around the source, and the drain loop    *)
(* of discard.ReadFrom, to the value the call returns.                     *)
(*                                                                         *)
(* Data is abstracted to positions: the source holds the bytes 1..srcLen,  *)
(* a Read hands out the next positions, and the sink is the sequence of   *)
(* positions the destination accepted.  The source and the destination    *)
(* are the environment: every Read and Write outcome their interface       *)
(* comments allow is a nondeterministic choice, and so are the Write       *)
(* outcomes a broken Writer produces, because copyBuffer guards against    *)
(* them.  A Read returning (0, nil) changes nothing and is a stuttering    *)
(* step.                                                                   *)
(***************************************************************************)
EXTENDS Integers, Sequences

CONSTANTS
  MaxLen,       \* largest source length tried
  DefaultSize,  \* stands for the 32*1024 staging buffer of copyBuffer
  DiscardSize,  \* stands for the 8192-byte buffers of blackHolePool
  BufArgs,      \* lengths of the buffer a caller may pass to CopyBuffer
  NArgs,        \* values of n a caller may pass to CopyN
  NilBuf        \* the nil slice passed by Copy

ASSUME MaxLenAssumption == MaxLen \in Nat
ASSUME SizeAssumption == DefaultSize \in Nat \ {0} /\ DiscardSize \in Nat \ {0}
ASSUME ArgsAssumption == BufArgs \subseteq Nat /\ NArgs \subseteq Int
ASSUME NilAssumption == NilBuf \notin Int

(* The error values of io.go, plus one error of the source and one of the *)
(* destination.                                                            *)
Errs == {"nil", "EOF", "ErrShortWrite", "errInvalidWrite", "ErrRead", "ErrWrite"}

Fns == {"Copy", "CopyBuffer", "CopyN"}

(* Dynamic types of the source: a Reader with or without WriteTo, and the  *)
(* two wrappers NopCloser returns.                                          *)
ReaderKinds == {"reader", "writerTo"}
SrcKinds == ReaderKinds \cup {"nopCloser", "nopCloserWriterTo"}

(* Dynamic types of the destination: a plain Writer, or Discard, whose     *)
(* ReaderFrom is discard.ReadFrom.                                          *)
DstKinds == {"writer", "discard"}

PCs == {"start", "loop", "drain", "done", "panic"}

VARIABLES
  call,     \* the call made: function, source and destination types, arguments
  srcLen,   \* number of bytes the source holds
  rpos,     \* bytes consumed from the source so far
  limN,     \* LimitedReader.N of the reader CopyN builds
  bufLen,   \* length of the staging buffer copyBuffer reads into
  written,  \* copyBuffer's (or ReadFrom's) running count
  sink,     \* positions accepted by the destination, in order
  pc,       \* where the call is
  result    \* what the call returned to its caller

vars == <<call, srcLen, rpos, limN, bufLen, written, sink, pc, result>>

MinOf(a, b) == IF a < b THEN a ELSE b

(* NopCloser(r): a nopCloserWriterTo when r implements WriterTo, else a    *)
(* nopCloser.                                                               *)
NopCloser(kind) == IF kind = "writerTo" THEN "nopCloserWriterTo" ELSE "nopCloser"

IsWriterTo(kind) == kind \in {"writerTo", "nopCloserWriterTo"}

(* CopyN reads through LimitReader(src, n).                                *)
Limited == call.fn = "CopyN"

(* Mutant: buf[1:nr+1] handed on instead of buf[0:nr].                    *)
Chunk_Shifted(from, k) == [j \in 1..k |-> from + j + 1]

(* buf[0:k] after a read at from: the byte positions from+1 .. from+k.     *)
Chunk(from, k) == [j \in 1..k |-> from + j]

(***************************************************************************)
(* The environment.                                                        *)
(***************************************************************************)

(* Outcomes of src.Read(p) with len(p) = m >= 1: some of the available     *)
(* bytes with nil; all remaining bytes with EOF (so (0, EOF) once the      *)
(* source is empty); some bytes with an error.                             *)
SourceRead(m) ==
  LET avail == srcLen - rpos IN
       {[n |-> k, err |-> "nil"] : k \in 1..MinOf(m, avail)}
  \cup (IF avail <= m THEN {[n |-> avail, err |-> "EOF"]} ELSE {})
  \cup {[n |-> k, err |-> "ErrRead"] : k \in 0..MinOf(m, avail)}

(* Mutant: the clamp lets one byte more than N through.                   *)
LimitClamp_OffByOne(m) == MinOf(m, limN + 1)

(* LimitedReader.Read: EOF without touching R once N <= 0, else the        *)
(* request clamped to N.  A reader that is not limited is read directly.   *)
LimitClamp(m) == MinOf(m, limN)

ReadOutcomes(m) ==
  IF ~Limited THEN SourceRead(m)
  ELSE IF limN <= 0 THEN {[n |-> 0, err |-> "EOF"]}
  ELSE SourceRead(LimitClamp(m))

(* LimitedReader.Read decrements N by the bytes R returned.                *)
LimitAfter(r) == IF Limited /\ limN > 0 THEN limN - r.n ELSE limN

(* Outcomes of dst.Write(p) with len(p) = nr >= 1: ret is the count       *)
(* returned, took the bytes the destination really kept.  The first two   *)
(* sets keep the Writer contract; the last three break it (short count    *)
(* with nil, a count above len(p), a negative count).                      *)
WriteOutcomes(nr) ==
       {[ret |-> nr, err |-> "nil", took |-> nr]}
  \cup {[ret |-> k, err |-> "ErrWrite", took |-> k] : k \in 0..nr}
  \cup {[ret |-> k, err |-> "nil", took |-> k] : k \in 0..(nr - 1)}
  \cup {[ret |-> nr + 1, err |-> "nil", took |-> nr]}
  \cup {[ret |-> -1, err |-> "nil", took |-> 0]}

(***************************************************************************)
(* copyBuffer's helpers.                                                   *)
(***************************************************************************)

(***************************************************************************)
(* Mutants: plausible slips in copyBuffer and CopyN, each defined before  *)
(* the definition it replaces.                                             *)
(***************************************************************************)

(* The check nr < nw is dropped.                                          *)
InvalidCount_NoUpper(nr, nw) == nw < 0

(* The short-write check is dropped.                                      *)
WriteCheck_NoShortCheck(nr, nw, ew) == IF ew # "nil" THEN ew ELSE "nil"

(* The loop only stops on errors other than EOF.                          *)
ReadBreak_IgnoreEOF(er) == er \notin {"nil", "EOF"}

(* Read errors are swallowed like EOF.                                    *)
ReadErr_DropAll(er) == "nil"

(* The floor at 1 of the LimitedReader size is dropped.                   *)
StagingSize_NoFloor == IF Limited /\ DefaultSize > limN THEN limN ELSE DefaultSize

(* CopyN does not turn a shortfall into EOF.                              *)
CopyNResult_NoEOF(w, e) ==
  IF w = call.n THEN [n |-> call.n, err |-> "nil"] ELSE [n |-> w, err |-> e]

(* The check nw < 0 is dropped.                                          *)
InvalidCount_NoLower(nr, nw) == nr < nw

(* nw < 0 || nr < nw: an impossible write count.                          *)
InvalidCount(nr, nw) == nw < 0 \/ nr < nw

(* The error a write makes the loop stop with, "nil" to go on.            *)
WriteCheck(nr, nw, ew) ==
  IF ew # "nil" THEN ew
  ELSE IF nr # nw THEN "ErrShortWrite"
  ELSE "nil"

(* if er != nil: the loop stops on any read error ...                     *)
ReadBreak(er) == er # "nil"

(* ... and reports it, unless it is EOF.                                  *)
ReadErr(er) == IF er # "EOF" THEN er ELSE "nil"

(* nw after the count check: an impossible count becomes 0 ...            *)
CountOf(nr, w) == IF InvalidCount(nr, w.ret) THEN 0 ELSE w.ret

(* ... and errInvalidWrite when the Writer reported no error.             *)
ErrOf(nr, w) ==
  IF InvalidCount(nr, w.ret) /\ w.err = "nil" THEN "errInvalidWrite" ELSE w.err

(* The error the write of nr bytes with outcome w stops the loop with.    *)
WriteExit(nr, w) == WriteCheck(nr, CountOf(nr, w), ErrOf(nr, w))

(* When nr = 0 nothing is written.                                        *)
NoWrite == [ret |-> 0, err |-> "nil", took |-> 0]

(* The staging buffer size when the caller passed none: 32KiB, shrunk to  *)
(* N (at least 1) when the source is a LimitedReader with fewer bytes.    *)
StagingSize ==
  IF Limited /\ DefaultSize > limN
    THEN (IF limN < 1 THEN 1 ELSE limN)
    ELSE DefaultSize

(* CopyN's tail: exact count is success; a shortfall without error is EOF. *)
CopyNResult(w, e) ==
  IF w = call.n THEN [n |-> call.n, err |-> "nil"]
  ELSE IF w < call.n /\ e = "nil" THEN [n |-> w, err |-> "EOF"]
  ELSE [n |-> w, err |-> e]

(* copyBuffer returns (w, e) to Copy, CopyBuffer or CopyN.                *)
Return(w, e) ==
  /\ pc' = "done"
  /\ result' = IF Limited THEN CopyNResult(w, e) ELSE [n |-> w, err |-> e]

(***************************************************************************)
(* The call.                                                               *)
(***************************************************************************)

Init ==
  /\ \E fn \in Fns, s \in ReaderKinds \cup {NopCloser(k) : k \in ReaderKinds},
        d \in DstKinds :
     \E b \in IF fn = "CopyBuffer" THEN BufArgs ELSE {NilBuf},
        n \in IF fn = "CopyN" THEN NArgs ELSE {0} :
       call = [fn |-> fn, src |-> s, dst |-> d, buf |-> b, n |-> n]
  /\ srcLen \in 0..MaxLen
  /\ rpos = 0
  /\ limN = call.n
  /\ bufLen = 0
  /\ written = 0
  /\ sink = << >>
  /\ pc = "start"
  /\ result = [n |-> 0, err |-> "nil"]

(* CopyBuffer panics on a non-nil empty buffer before anything else.       *)
PanicEmptyBuffer ==
  /\ pc = "start"
  /\ call.fn = "CopyBuffer" /\ call.buf = 0
  /\ pc' = "panic"
  /\ UNCHANGED <<call, srcLen, rpos, limN, bufLen, written, sink, result>>

(* copyBuffer delegates to src.WriteTo(dst): the source writes some prefix *)
(* of what it has left, all of it when it reports no error.                *)
WriteToPath ==
  /\ pc = "start"
  /\ ~(call.fn = "CopyBuffer" /\ call.buf = 0)
  /\ ~Limited /\ IsWriterTo(call.src)
  /\ \E k \in 0..(srcLen - rpos), e \in {"nil", "ErrRead", "ErrWrite"} :
       /\ e = "nil" => k = srcLen - rpos
       /\ rpos' = rpos + k
       /\ sink' = sink \o Chunk(rpos, k)
       /\ Return(k, e)
  /\ UNCHANGED <<call, srcLen, limN, bufLen, written>>

(* copyBuffer delegates to dst.ReadFrom(src), here discard.ReadFrom, which *)
(* takes a buffer from blackHolePool and starts its drain loop.            *)
ReadFromPath ==
  /\ pc = "start"
  /\ ~(call.fn = "CopyBuffer" /\ call.buf = 0)
  /\ Limited \/ ~IsWriterTo(call.src)
  /\ call.dst = "discard"
  /\ pc' = "drain"
  /\ bufLen' = DiscardSize
  /\ UNCHANGED <<call, srcLen, rpos, limN, written, sink, result>>

(* No fast path: copyBuffer allocates (or takes the caller's) buffer.      *)
(* make([]byte, size) panics on a negative size.                           *)
AllocBuffer ==
  /\ pc = "start"
  /\ ~(call.fn = "CopyBuffer" /\ call.buf = 0)
  /\ Limited \/ ~IsWriterTo(call.src)
  /\ call.dst = "writer"
  /\ LET size == IF call.buf = NilBuf THEN StagingSize ELSE call.buf IN
       /\ bufLen' = size
       /\ pc' = IF size < 0 THEN "panic" ELSE "loop"
  /\ UNCHANGED <<call, srcLen, rpos, limN, written, sink, result>>

(* One iteration of copyBuffer's for loop: src.Read(buf), then, when it    *)
(* returned bytes, dst.Write(buf[0:nr]) with the count checks, then the    *)
(* break on a write error, a short write, or a read error.                 *)
CopyStep ==
  /\ pc = "loop"
  /\ \E r \in ReadOutcomes(bufLen) :
       /\ r.n > 0 \/ r.err # "nil"
       /\ rpos' = rpos + r.n
       /\ limN' = LimitAfter(r)
       /\ \E w \in IF r.n > 0 THEN WriteOutcomes(r.n) ELSE {NoWrite} :
            /\ sink' = sink \o Chunk(rpos, w.took)
            /\ written' = written + CountOf(r.n, w)
            /\ IF WriteExit(r.n, w) # "nil"
                 THEN Return(written + CountOf(r.n, w), WriteExit(r.n, w))
               ELSE IF ReadBreak(r.err)
                 THEN Return(written + CountOf(r.n, w), ReadErr(r.err))
               ELSE UNCHANGED <<pc, result>>
  /\ UNCHANGED <<call, srcLen, bufLen>>

(* One iteration of discard.ReadFrom: read into the pooled buffer, count   *)
(* the bytes, drop them; stop on any error, EOF becoming success.  The     *)
(* pool itself is modelled in DiscardPool.                                 *)
DrainStep ==
  /\ pc = "drain"
  /\ \E r \in ReadOutcomes(bufLen) :
       /\ r.n > 0 \/ r.err # "nil"
       /\ rpos' = rpos + r.n
       /\ limN' = LimitAfter(r)
       /\ sink' = sink \o Chunk(rpos, r.n)
       /\ written' = written + r.n
       /\ IF r.err = "nil"
            THEN UNCHANGED <<pc, result>>
            ELSE Return(written + r.n, IF r.err = "EOF" THEN "nil" ELSE r.err)
  /\ UNCHANGED <<call, srcLen, bufLen>>

Next ==
  \/ PanicEmptyBuffer
  \/ WriteToPath
  \/ ReadFromPath
  \/ AllocBuffer
  \/ CopyStep
  \/ DrainStep

(* Every Read and Write the loop makes returns, and the source does not    *)
(* answer (0, nil) forever: a step that is enabled is eventually taken.    *)
Spec == Init /\ [][Next]_vars /\ WF_vars(Next)

Returned == pc \in {"done", "panic"}

(***************************************************************************)
(* Properties.                                                             *)
(***************************************************************************)

TypeOK ==
  /\ call \in [fn : Fns, src : SrcKinds, dst : DstKinds,
               buf : BufArgs \cup {NilBuf}, n : Int]
  /\ srcLen \in 0..MaxLen
  /\ rpos \in 0..srcLen
  /\ limN \in Int
  /\ bufLen \in Nat
  /\ written \in Int
  /\ sink \in Seq(1..srcLen)
  /\ pc \in PCs
  /\ result \in [n : Int, err : Errs]

(* Whatever the source and the destination do, the destination holds the *)
(* first bytes of the source, in order, none twice and none skipped, and   *)
(* none that has not been read: copyBuffer never writes a chunk after a    *)
(* write that kept fewer bytes than it was given.                          *)
SinkIsPrefix ==
  /\ Len(sink) <= rpos
  /\ \A i \in 1..Len(sink) : sink[i] = i

(* The count a call returns never exceeds the bytes the destination       *)
(* really accepted, even when the Writer reports a count above len(p) or  *)
(* below zero.                                                             *)
ReportedCount == pc = "done" => result.n <= Len(sink)

(* Copy and CopyBuffer succeed only when they moved the whole source: a   *)
(* nil error from the fast paths, the staging loop or the drain loop       *)
(* means the destination got every byte and the count says so.            *)
CopyComplete ==
  (pc = "done" /\ ~Limited /\ result.err = "nil")
    => (result.n = srcLen /\ Len(sink) = srcLen)

(* For n >= 0, CopyN returns written == n exactly when err == nil, and on *)
(* success the destination got exactly n bytes.                           *)
CopyNExact ==
  (pc = "done" /\ Limited /\ call.n >= 0)
    => /\ (result.err = "nil") <=> (result.n = call.n)
       /\ result.err = "nil" => Len(sink) = call.n

(* The comment on CopyN, for every n: written == n if and only if         *)
(* err == nil.                                                             *)
CopyNDoc ==
  (pc = "done" /\ Limited) => ((result.err = "nil") <=> (result.n = call.n))

(* The only panic is CopyBuffer's on a non-nil empty buffer: the staging  *)
(* buffer copyBuffer sizes from a LimitedReader is never negative, even   *)
(* when CopyN is given n <= 0.                                             *)
NoUnexpectedPanic == pc = "panic" => (call.fn = "CopyBuffer" /\ call.buf = 0)

(* CopyN never consumes more than n bytes of its source (none for n <= 0) *)
(* whichever path copies, and the LimitedReader's N counts down exactly.  *)
LimitRespected ==
  Limited => /\ rpos <= IF call.n > 0 THEN call.n ELSE 0
             /\ call.n > 0 => limN = call.n - rpos

(* A step of copyBuffer never takes back a count and never counts a byte *)
(* the destination did not keep: whatever a broken Writer returns         *)
(* (a negative count, or more than len(p)), the checks of io.go:536-541   *)
(* make written += nw grow by at most what reached the destination.        *)
CountStepOK ==
  /\ written <= written'
  /\ written' - written <= Len(sink') - Len(sink)

CountFollowsSink == [][CountStepOK]_vars

(* Every call returns: the loops stop at EOF or at the first error.       *)
Termination == <>Returned

=============================================================================
