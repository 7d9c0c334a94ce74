# Verification of package io (childelins/go-note)

TLA+ models of the annotated copy of Go's `io` package in `src/src/io/io.go`.
The modules are checked with TLC on small instances and, where stated, proved with
TLAPS for every value of their constants.

## 1. Inventory

### Components

| Component | Source | State it keeps | Operations |
|---|---|---|---|
| Capability interfaces, sentinel errors | io.go:26-386 | none | the contracts of `Read`, `Write`, `ReadAt`, `WriteAt`, `Seek`, `ReadFrom`, `WriteTo`, ...; `EOF`, `ErrUnexpectedEOF`, `ErrShortWrite`, `errInvalidWrite`, `ErrShortBuffer`, `ErrNoProgress` |
| Transfer engine | io.go:442-560 | locals of one call: staging buffer, running count `written`, `err` | `Copy`, `CopyBuffer`, `CopyN`, `copyBuffer` |
| LimitedReader | io.go:562-593 | `R`, `N` (bytes left) | `LimitReader`, `Read` |
| SectionReader | io.go:595-669 | `r`, `base`, `off`, `limit` (int64) | `NewSectionReader`, `Read`, `Seek`, `ReadAt`, `Size` |
| OffsetWriter | io.go:671-709 | `w`, `base`, `off` (int64) | `NewOffsetWriter`, `Write`, `WriteAt`, `Seek` |
| TeeReader | io.go:711-733 | `r`, `w` | `Read` |
| Discard | io.go:735-776 | the shared `blackHolePool` of 8 KiB buffers | `Write`, `WriteString`, `ReadFrom` |
| NopCloser | io.go:778-803 | the wrapped reader | `NopCloser`, `Close`, `WriteTo` (forwarded) |
| Read helpers | io.go:388-440, 805-828 | locals: `n`, `err`, growing slice | `WriteString`, `ReadAtLeast`, `ReadFull`, `ReadAll` |
| Examples and tests | unnamed/part_000, bufio/test/bufio_test.go, io.go:829-862 | — | programs printing to stdout/files; out of scope |

### How they interact

Everything is synchronous calls through interfaces. `CopyN` wraps its source in a
`LimitedReader` and calls `Copy`; `Copy` and `CopyBuffer` call `copyBuffer`, which
tests the dynamic types of its arguments: a source with `WriteTo` (including the
`nopCloserWriterTo` that `NopCloser` returns for such a source) does the whole copy,
else a destination with `ReadFrom` (for example `Discard`, whose `ReadFrom` drains
the source into a pooled buffer) does it, else the staging loop reads and writes.
When the source is a `LimitedReader`, its `N` sizes the staging buffer.
`SectionReader` and `OffsetWriter` translate a window onto a `ReaderAt` /
`WriterAt`. `TeeReader` writes what it reads to a `Writer`. `ReadFull` calls
`ReadAtLeast`. The only shared mutable state is `blackHolePool`, used by every
concurrent `io.Copy(io.Discard, r)`.

### What is hard

* The sources and sinks are arbitrary code: a Read may return its last bytes with
  `EOF` or with `nil` and `EOF` next time, or bytes together with an error; a broken
  Writer may return a short count with `nil`, a count above `len(p)`, or a negative
  count. `copyBuffer` must handle every such sequence.
* Boundary arithmetic: `CopyN` with `n <= 0`, the staging buffer sized from
  `LimitedReader.N`, the LimitedReader clamp, and the int64 offset arithmetic of
  `SectionReader` and `OffsetWriter` (overflow in `NewSectionReader` and `Seek`).
* Termination: every loop (`copyBuffer`, `discard.ReadFrom`, `ReadAtLeast`,
  `ReadAll`) stops only on a Read error; a Read that returns `(0, nil)` forever makes
  it spin.
* The pool of `Discard` is shared by concurrent drains.

### What makes each component correct

* Transfer engine: the destination holds an in-order, gap-free prefix of the
  source; the returned count never exceeds what the destination accepted; a nil
  error means the whole source (or exactly `n` bytes, for `CopyN`) was moved;
  `CopyN` never consumes more than `n` bytes; no panic except `CopyBuffer`'s on an
  empty buffer; every call returns.
* SectionReader: `base <= off`; no underlying `ReadAt` touches a byte outside
  `[base, limit)`; `limit = base + n` saturated at the int64 maximum; `Seek` never
  accepts a position before `base` and returns `off - base`.
* OffsetWriter: every underlying write lands at or after `base`; `off >= base`.
* TeeReader: the Writer receives exactly the bytes the caller was handed, in order.
* Read helpers: `n >= min` iff `err == nil`; `EOF` only when nothing was read;
  `ErrUnexpectedEOF` for a partial read; `ReadAll` returns the whole stream on nil.
* Discard pool: a buffer is held by at most one drain; every drain returns its
  buffer on every exit path.

The list of hazards, each at its line, is in `PROJECT.json`.

## 2. Modules and runs

| Module | Models | MC module / cfg | Run |
|---|---|---|---|
| `IOCopy` | transfer engine, LimitedReader, NopCloser, `discard.ReadFrom` | `MCIOCopy` / `MCIOCopy.cfg`, `MCIOCopyNDoc.cfg` | `copy_engine`, `copyn_negative` (violation) |
| `TransferSpec`, `IOCopyTransfer` | what Copy/CopyBuffer/CopyN promise; the refinement mapping | `MCIOCopy` / `MCIOCopyTransfer.cfg` | `copy_refinement` |
| `WrapInt` | int64 arithmetic at `Width` bits | (used by the next two) | |
| `SectionReader` | `NewSectionReader`, `Read`, `Seek`, `ReadAt`, `Size` | `MCSectionReader` / `MCSectionReader.cfg`, `MCSectionReaderNegN.cfg` | `section_reader`, `section_negative_n` (violation) |
| `OffsetWriter` | `NewOffsetWriter`, `Write`, `WriteAt`, `Seek` | `MCOffsetWriter` / `MCOffsetWriter.cfg`, `MCOffsetWriterNegAt.cfg` | `offset_writer`, `offset_negative_at` (violation) |
| `ReadHelpers` | `ReadAtLeast`, `ReadFull`, `ReadAll` | `MCReadHelpers` / `MCReadHelpers.cfg` | `read_helpers` |
| `TeeReader` | `teeReader.Read` | `MCTeeReader` / `MCTeeReader.cfg` | `tee_reader` |
| `DiscardPool` | concurrent `discard.ReadFrom` over `blackHolePool` | `MCDiscardPool` / `MCDiscardPool.cfg` | `discard_pool` |
| `IOCopyProofs`, `IOCopyTransferProofs`, `WrapIntProofs`, `SectionReaderProofs`, `OffsetWriterProofs`, `ReadHelpersProofs`, `TeeReaderProofs`, `DiscardPoolProofs` | TLAPS proofs (section 9) | | |

Every property of every passing run has a mutant in `PROJECT.json`: an operator
defined next to the code's definition, changed the way a plausible bug would
change it, which TLC finds violating the property.

## 3. IOCopy: the transfer engine

**State.** `call` is the call made (function, dynamic type of source and
destination, the `buf` argument of `CopyBuffer`, the `n` of `CopyN`); `srcLen` the
source's size; `rpos` the bytes consumed from it; `limN` the `LimitedReader.N` of
`CopyN`; `bufLen` the staging buffer's length; `written` copyBuffer's (or
`ReadFrom`'s) running count; `sink` the byte positions the destination accepted, in
order; `pc`; `result` the pair returned. Bytes are abstracted to their positions
1..srcLen: the properties only tell bytes apart by position.

**Actions.** `PanicEmptyBuffer` (io.go:496), `WriteToPath` (513: the delegated
`WriteTo` moves some prefix, all of it if it reports nil), `ReadFromPath` (518:
`discard.ReadFrom` takes its pooled buffer), `AllocBuffer` (521-531: the buffer size,
shrunk from `LimitedReader.N` with a floor of 1), `CopyStep` (one loop iteration,
532-558: Read through the LimitedReader if any, Write, the invalid-count and
short-write checks, the breaks), `DrainStep` (one iteration of `discard.ReadFrom`,
765-775). Each exit goes through `Return`, which applies `CopyN`'s tail (455-462).

**Environment.** `SourceRead(m)` is every outcome the Reader comment allows for a
buffer of `m` bytes: some bytes with nil, the rest with EOF, some bytes with an
error. `(0, nil)` changes nothing and so is a stuttering step. `WriteOutcomes(nr)`
is every outcome of a Writer keeping its contract plus the three broken ones
copyBuffer guards against (short count with nil, count above len(p), negative).

**Run `copy_engine`** (`MCIOCopy.cfg`): sources of 0..3 bytes, staging buffer of 2
(so the loop iterates, and `LimitedReader` shrinks it for `n = 1`), caller buffers
of 0, 1 and 3 bytes, `n` in -1..4 (below zero, zero, below, at and above the
source length). 2452 distinct states. Properties:

* `SinkIsPrefix`: the destination holds bytes 1..k of the source, k <= bytes read.
* `ReportedCount`: the returned count never exceeds what the destination accepted.
* `CopyComplete`: `Copy`/`CopyBuffer` return nil only after moving the whole source.
* `CopyNExact`: for `n >= 0`, nil iff `written == n`, and then the destination got `n` bytes.
* `NoUnexpectedPanic`: the only panic is `CopyBuffer`'s on an empty buffer.
* `LimitRespected`: `CopyN` consumes at most `max(n, 0)` bytes and `N = n - consumed`.
* `CountFollowsSink` (action property `[][CountStepOK]_vars`): no step lowers
  `written` or raises it by more than the bytes the destination kept in that
  step. A Writer returning -1 or `len(p) + 1` is what the checks of io.go:536-541
  are for; dropping the `nw < 0` half makes `written` shrink, which no invariant
  above notices.
* `Termination`: every call returns.

Each has a mutant of the code (see `PROJECT.json`) that TLC catches.

**Run `copyn_negative`** (`MCIOCopyNDoc.cfg`, expected violation): `CopyNDoc` states
CopyN's comment "written == n if and only if err == nil" for every n. TLC finds
`CopyN(w, r, -1)` returning `(0, nil)`: the code only turns a shortfall into EOF when
`written < n`.

**Fairness.** `WF_vars(Next)`: the call is one sequential goroutine; each Read and
Write it makes returns (blocking is the source's business), and the model assumes
the source does not answer `(0, nil)` forever — a Read that does is a stuttering
step, and weak fairness rules out stuttering forever. Without that assumption
`copyBuffer` indeed spins (the hazard at io.go:533).

`CHECK_DEADLOCK FALSE`: each behaviour is a single call, which really stops once it
has returned or panicked; `Termination` checks that nothing else stops.

## 4. TransferSpec and the refinement

`TransferSpec` says what a call of `Copy`, `CopyBuffer` or `CopyN` promises,
without the staging buffer, the `LimitedReader` or the dispatch: the source is
consumed from the front (`taken`), never beyond `n` for `CopyN` (`Bound`); the
destination (`sink`) only grows by the next source bytes it has not got, and never
by bytes not yet consumed (`Progress`); the call returns once (`Return`) with a
count of at most what the destination got and with nil only for a complete
transfer (`Complete`: the whole source, or exactly `n` bytes for `CopyN` with
`n >= 0`, and 0 for `n < 0`, as the code does); the only other exit is
`CopyBuffer`'s panic on an empty buffer before anything moves (`Panic`).
`WF(Return \/ Panic)`: the call returns.

`IOCopyTransfer` extends `IOCopy` and instantiates
`Transfer == INSTANCE TransferSpec WITH Calls <- InitCalls, taken <- rpos, status <- Status, ret <- result`
(`call`, `srcLen`, `sink` map to themselves; `Status` is "running" until `pc`
is "done" or "panic"). The run `copy_refinement` checks `TransferRefined ==
Transfer!Spec` as a PROPERTY on the `copy_engine` instance: every IOCopy step
is a `Move`, a `Return`, a `Panic` or a stutter, and IOCopy's fairness implies
the abstract one. Mutant: the LimitedReader clamp off by one lets CopyN consume a
byte beyond `n`, which no `Progress` step allows. The safety half of this
refinement is proved for every value of the constants (`IOCopyTransferProofs`,
section 9); the fairness half is checked by this run only.

## 5. SectionReader and OffsetWriter

Offsets are int64 in the code. `WrapInt` models them at `Width` bits:
`Wrap(x) == ((x - MinInt) % Modulus) + MinInt`, `AddW`, `SubW`, and
`MaxInt` for `maxint64`. At `Width = 4` (values -8..7) every sum of two offsets
the code computes can overflow, which is what the runs need; the proofs hold for
every `Width >= 2`.

**SectionReader.** State: the fields `base`, `off`, `limit`, plus history
variables `size` (the `n` it was made with), `req` (the underlying `ReadAt` of the
last call) and `last` (the last call, its result, and the unwrapped position a
Seek asked for). `Init` is `NewSectionReader` with the saturation of io.go:600
(`NewLimit`). `Read` (io.go:619-629: EOF at the limit, the clip to `limit - off`,
a negative slice length recorded as a panic, `off += n`), `Seek` (634-650: the
origin by whence, the int64 sum, the check against `base`), `ReadAt` (652-667:
EOF outside `[0, Size())`, the clip to the limit and EOF for a nil error after a
clip). The `ReaderAt` of FileLen bytes answers as its comment allows.

Run `section_reader` (offsets {0,2,5,7}, n {0,3,7}, so `off + n` overflows and
saturates; lengths {0,1,3}; ReadAt offsets {-1,0,2,6}; Seek offsets
{-8,-2,0,1,5,7} with all four whences, 1579 states):

* `WindowSafe`: no underlying ReadAt touches a byte outside `[base, base + n)`.
* `SeekExact`: a successful Seek lands on the unwrapped position asked for and
  returns `off - base >= 0`.
* `ReadAtShortHasError`: a short ReadAt carries an error, also after a clip.
* `ReadAdvances` (action property `[][ReadStepOK]_vars`): every Read moves `off`
  forward by exactly the count it returns, without wrapping, and a Read from
  inside the section never leaves `off` past the limit. A clip that keeps one
  byte too many (`p[0:max+1]`) breaks it.
* `NoReadPanic`: Read never slices `p[0:max]` with a negative length
  (io.go:623-624). `max = limit - off` could wrap negative only from a
  position before base; without Seek's `offset < base` check, TLC reaches the
  panic after `Seek(-8, SeekCurrent)`.

Run `section_negative_n` (expected violation): with `n = -3`, `maxint64 - n`
overflows, the limit becomes `maxint64`, and a Read at `base` reads past
`base + n`, against the comment "stops with EOF after n bytes".

**OffsetWriter.** State: `base`, `off`, the caller's unwrapped position `pos`,
`req`, `last`. `Write` (684-688: WriteAt at `off`, `off += n`), `WriteAt`
(690-693: at `off + base`), `Seek` (695-709: SeekStart/SeekCurrent only, the
check against base). The WriterAt holds `DeviceCap` bytes and answers as its
contract allows.

Run `offset_writer` (bases {0,2,5}, device of 6 bytes, Seek offsets
{-8,-1,0,2,7}, WriteAt offsets {-2,0,1,7}, 637 states): `PositionExact`
(`off = base + pos`, `pos >= 0`, and a successful Seek returns `pos`).
`DeviceCap < 2^(Width-1)`: a device
holding the last int64 byte lets `off += n` wrap to `minint64` (hazard at
io.go:686, found with `DeviceCap = 8`; no real device is that large).

Run `offset_negative_at` (expected violation, same constants): `NoWriteBeforeBase`
states the type's comment, "writes at offset off go to base+off", as: no byte
that a Write or WriteAt really writes lands before base. TLC's trace is one
step: on a writer with base 2, `WriteAt(p, -2)` with one byte writes it at
offset 0 of the destination. io.go:691 has no check that the offset is
non-negative (later Go releases added one).

No fairness: both types are passive objects; any sequence of calls is a behaviour,
including stopping, so deadlock checking stays on and never fires (every state has
a Seek step).

## 6. Read helpers

`ReadHelpers` models one call of `ReadAtLeast`, `ReadFull` or `ReadAll` against
the Reader environment of IOCopy. `AtLeastStart` is the `ErrShortBuffer` check
(413-415), `AtLeastRead` one iteration of the loop (416-420), `AtLeastReturn` the
error mapping (421-426). `ReadAllStart` makes the 512-byte slice (`InitCap`),
`ReadAllStep` one iteration: grow when full (append picks `c + 1` or `2c`), read
into `b[len:cap]`, return on an error with EOF made nil (814-827).

Run `read_helpers` (sources of 0..3 bytes, buffers {0,2,3}, min in
{-1,0,1,2,4}, InitCap 1 so ReadAll grows, 423 states):
`AtLeastContract` (n >= min iff nil, also when an error arrives with the last
needed bytes), `ReadAllResult` (never EOF,
nil only with the whole stream), `Termination`; `TypeOK` includes the slice
bounds `buf[n:]` and `b[:len+n]`. Fairness `WF_vars(Next)`, as for IOCopy: the
call is one goroutine, and the source does not answer `(0, nil)` forever.

## 7. TeeReader

`TeeReader` models a caller reading through `TeeReader(r, w)` until an error.
`Read` is io.go:725-733: `r.Read(p)`, then `w.Write(p[:n])` when `n > 0`, and a
failed write replaces the result. History: `mirror` (what w accepted) and `handed`
(what the caller was told it got). Run `tee_reader` (sources up to 4 bytes, buffer
lengths {1,3}, 122 states): `TeeMirror` (`mirror = handed`) and `LossReported`
(bytes consumed from r but not handed over only ever lie behind a reported
error). No fairness (the caller may stop); `CHECK_DEADLOCK FALSE` because the
caller stops after an error.

## 8. Discard pool

`DiscardPool` runs three `discard.ReadFrom` goroutines (model values `d1..d3`)
against `blackHolePool`. `Get` takes a pooled buffer or makes one with `New`
(bounded by `MaxBufs`, the number of buffers New may make in one behaviour);
`ReadStep` is one iteration of the loop (766-774), whose exit `Exit` puts the
buffer back and maps EOF to nil; `Drop` is the pool releasing a buffer (a garbage
collection). Run `discard_pool` (26001 states): `ExclusiveBuffers` (no two drains,
and no drain and the pool, hold the same buffer), `ReturnedOnExit`, `Termination`.
Fairness: weak fairness per goroutine, since each is scheduled and its Reads
return. With `MaxBufs = 3` for three drains, `Get` is never blocked;
`CHECK_DEADLOCK FALSE` because the drains really stop.

## 9. Proofs

Eight modules hold theorems, all checked by `tlapm` to the last leaf. Each
safety theorem has the form `Spec => []P` and follows one pattern:
- an inductive invariant `IInv` (checked first by TLC as an invariant of the
  module's run);
- `Init => IInv`;
- `IInv /\ [Next]_vars => IInv'`, with one lemma or case per action;
- `IInv => P`;
- and `PTL DEF Spec` to combine them.

The two action properties (`CountFollowsSink`, `ReadAdvances`) are proved as
`Spec => [][A]_vars` from `IInv /\ [Next]_vars => [A]_vars` and the same
invariant.

**IOCopyProofs** (EXTENDS `IOCopy`, `SequenceTheorems`, `TLAPS`). These hold for
every value of the constants that `IOCopy`'s assumptions allow:
- `MaxLen \in Nat`;
- `DefaultSize` and `DiscardSize` positive;
- `BufArgs \subseteq Nat` and `NArgs \subseteq Int`;
- `NilBuf` not an integer.

The theorems:
* `TypeCorrect`: `Spec => []TypeOK`. `TypeOK` is inductive by itself. The
  lemmas `SourceReadFacts`, `ReadOutcomeFacts` and `WriteOutcomeFacts` bound what
  the environment may return.
* `SinkIsPrefixHolds`, from
  `PrefixInv == TypeOK /\ SinkIsPrefix /\ (pc \in {"start","loop","drain"} => Len(sink) = rpos)`.
  While the call runs, the destination holds exactly the bytes consumed. A step
  that continues the loop wrote everything it read: that is lemma
  `ContinueMeansFull`, the short-write check of io.go:547. Appending a chunk to
  a gap-free prefix keeps it gap-free: that is lemma `AppendChunk`.
* `ReportedCountHolds`, `CopyCompleteHolds`, `CopyNExactHolds`,
  `NoUnexpectedPanicHolds` and `LimitRespectedHolds` all use one invariant,
  `CountInv`. It is `PrefixInv` plus:
  - `rpos = 0` at the start;
  - `written = rpos` while the call runs;
  - for CopyN, `limN = n - rpos` and `rpos <= max(n, 0)`;
  - `result.n >= 0` once the call has returned;
  - the four result properties.

  The result properties are about the state the call returns in, which no step
  changes afterwards. They are therefore established at the returning step:
  - Lemma `ReturnProps` says what `Return(w, e)` leaves behind, given
    `0 <= w <= Len(sink')`, the whole source with Copy's nil, and CopyN's bound.
  - `CopyStepCount` and `DrainStepCount` check those hypotheses for the loop's
    three exits.
  - `CountOfFacts` shows that the count check of io.go:536-541 never counts
    more than the Writer kept.
  - `LimitFacts` shows that the LimitedReader keeps `N = n - consumed`
    (io.go:583-593).
  - `ReadEOFFacts` shows that EOF from an unlimited source comes with every
    remaining byte.

* `CountFollowsSinkHolds`: `Spec => CountFollowsSink`, an action property. It
  needs only `TypeOK`: lemma `NextCountOK` shows `TypeOK /\ [Next]_vars =>
  [CountStepOK]_vars`, one lemma per action that moves bytes (`CopyStepOK`,
  `DrainStepOK`, `WriteToPathOK`), with `ChunkLen` for the destination's new
  length and `CountOfFacts` for the clamp of io.go:536-541. `TypeCorrect`
  supplies `[]TypeOK`, and PTL combines the two.

**IOCopyTransferProofs** (EXTENDS `IOCopyTransfer`, `IOCopyProofs`). `Refinement`:
`Spec => Transfer!Init /\ [][Transfer!Next]_Transfer!avars`, which is the
safety part of `TransferRefined`.
- `InitRefines`: the initial call is one of `InitCalls`.
- `NextRefines`, with `CountInv` on both sides of the step:
  - the dispatch steps (`ReadFromPath`, `AllocBuffer`) are stutters under the
    mapping;
  - `PanicEmptyBuffer` is `Panic`, at `rpos = 0`;
  - `WriteToPath`, `CopyStep` and `DrainStep` consume `k` bytes and append the
    first `t <= k` of them (`CopyStepShape`, `DrainStepShape`). Lemma
    `TransferStep` turns such a step into a `Move`, or into a `Return` when
    `pc' = "done"`:
    - `CountInv'` bounds `rpos'` by `Bound`;
    - `ReportedCount'` and `result'.n >= 0` put the value in
      `[n : 0..Len(sink'), err : Errs]`;
    - `CopyComplete'` and `CopyNExact'` give `Complete`. For `n < 0`, the count
      is 0 because `rpos' <= 0`.

**WrapIntProofs** states the int64 lemmas:
- a value in range does not wrap (`WrapId`);
- every value wraps into range (`WrapType`);
- an in-range sum is exact (`AddWExact`);
- the sum of an int64 and a non-negative int64 that overflows wraps below zero
  (`AddWOverflow`).

The provers do not expand `^`. `WrapInt` therefore states the three facts about
`2^Width` that they need as the assumption `RangeAssumption`: `MaxInt >= 1`,
`MinInt = -(MaxInt + 1)` and `Modulus = 2 * (MaxInt + 1)`. TLC evaluates it on
every run.

**SectionReaderProofs**: `TypeCorrect`, `WindowSafeHolds`, `SeekExactHolds`,
`ReadAtShortHasErrorHolds`, `NoReadPanicHolds` and `ReadAdvancesHolds`, under `Proper` (NewSectionReader called with
`off, n >= 0`). The inductive invariant adds to the properties:
- the window is in range: `base <= limit <= maxint64` and `limit <= base + n`;
- `off >= base`;
- the last request lies in `[base, limit)`;
- no panic happened.

The argument:
- Every Seek origin (base, off, limit) is a non-negative int64. An overflowing
  sum therefore wraps below zero and is refused by `offset < base`
  (`AddWOverflow`).
- Below the limit, `limit - off` is a positive int64. Read's clip therefore
  never has a negative length (the "no panic" conjunct, which is
  `NoReadPanic`), and `off += n` stops at the limit.
- A ReadAt inside `[0, Size())` lands below the limit.

`ReadAdvancesHolds` proves the action property `ReadAdvances` from the same
invariant: lemma `ReadStepAdvances` shows that below the limit the clipped
request is at most `limit - off`, so `off + n <= limit <= maxint64` and
`AddW` is exact; at or past the limit Read returns 0 and leaves `off`. Seek and
ReadAt do not report a Read (`NextReadStepOK`).

`section_negative_n` shows that the hypothesis `n >= 0` is needed.

**OffsetWriterProofs**: `TypeCorrect` and `PositionExactHolds`, under `Proper`
(base `>= 0`, and a device that ends before `maxint64`). The inductive invariant
is `off = base + pos /\ pos \in Nat /\ base \in 0..MaxInt`, plus the Seek result.
A Write stays within the device, so `off + n` does not wrap. Seek's overflow is
refused as for SectionReader. Nothing is proved about WriteAt's target:
without the sign check io.go:691 lacks, it can lie before base
(`offset_negative_at`).

**ReadHelpersProofs**: `TypeCorrect`, `AtLeastContractHolds`,
and `ReadAllResultHolds`, for every buffer length, `min`
and starting capacity. The invariant adds to the properties:
- `n = rpos`: the count is what the source handed out;
- `capB \in Nat`;
- `pc = "start" => n = 0`;
- the last Read's error is one a Reader returns (nil, EOF, ErrRead).

The last fact is what rules out a Read error of `ErrUnexpectedEOF` being passed
through as if ReadAtLeast had made it.

**TeeReaderProofs**: `TypeCorrect`, `TeeMirrorHolds` and `LossReportedHolds`.
The invariant:
- `mirror = handed`;
- `handed` is the prefix `1..Len(handed)` with `Len(handed) <= rpos`;
- with nil or EOF, `Len(handed) = rpos`.

A Read is taken only after nil. It appends the same chunk to both streams, of
the length w took, which is all r gave unless the Write failed.

**DiscardPoolProofs**: `TypeCorrect`, `ExclusiveBuffersHolds` and
`ReturnedOnExitHolds`, for any set of goroutines. The invariant adds to the
properties:
- every count stays within its source;
- a goroutine in its loop holds a buffer.

A pooled buffer that Get hands out is held by nobody, since held buffers are
never pooled. A buffer New makes is numbered above every existing one. Exit puts
back a buffer no one else holds.

**Only model-checked**, and why:
- The liveness properties: `Termination` of IOCopy, ReadHelpers and DiscardPool,
  and the `WF` half of `TransferRefined`. They rest on fairness and `ENABLED`,
  which are out of the prover's reach.
- `CopyNDoc` and `NoWriteBeforeBase`: the code violates them.

No module with a theorem uses a RECURSIVE operator.

## 10. Not modelled

* Interfaces without implementation here (`ByteReader`, `RuneScanner`, ...), and
  `Closer`/`Seeker` beyond the adapters that implement them.
* `WriteString` (one type switch, no state), `discard.Write`/`WriteString` and
  `nopCloser.Close`: they keep no state.
* `ReadAll`'s byte contents and `append`'s exact growth policy: the model keeps
  `len` and `cap` and lets append pick any larger capacity.
* The example and test programs: they drive `os`, `bytes`, `bufio` and `log`, which
  are outside this layer.
