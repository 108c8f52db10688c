# TLA+ models of the substreams backfill orchestrator

These modules model the parallel backfill path of substreams. The model is
built from the Go sources under `src/`. Each definition is listed in
`PROJECT.json` ("map") with the lines it translates.

## The system

A request that starts at block `T` needs every store module's state as of
`T`. The orchestrator builds that state in parallel:

- **Segmenter** (`src/unnamed/part_003`, package `block`). Pure arithmetic
  that maps blocks to fixed-width segments of `StoreSaveInterval` blocks, and
  segments to ranges.
- **Work plan and scheduler** (spec §4.C–D). This splits the missing
  `[moduleInitialBlock, T)` into jobs, dispatches them to workers, and
  promotes waiting jobs when the stores they depend on become ready. Only the
  tests of this component are in the repository (`part_003`, `part_002`).
- **Stages** (`src/orchestrator/stage/stages.go`). A later design of the
  scheduler, using a segment × stage matrix of unit states.
- **Worker pipeline** (`src/pipeline/stores.go`, `src/pipeline/error.go`). A
  worker runs one job. At every save-interval boundary, and at the stop block,
  it flushes each partial store to a `.partial` file and rolls the store. When
  the stream ends, it reports the partials it wrote in a gRPC trailer.
- **Squasher** (`src/orchestrator/squasher.go`). It keeps one `Squashable`
  per store module:
  - `Squash(module, range)`, called once per reported job under
    `Squasher.lock`, splits the range at the save interval and appends the
    pieces to a sorted list;
  - it then merges `.partial` files into the in-memory store, strictly in
    block order;
  - it writes a complete `.kv` snapshot whenever a merge ends on a boundary;
  - it notifies the plan when the target is reached;
  - `StoresReady` reports whether every store is complete.
- **Bytes meter** (`src/tracking/bytes.go`). Two `uint64` counters behind a
  `sync.RWMutex`. Any goroutine bumps them with `AddBytesWritten` or
  `AddBytesRead`. The goroutine started by `Launch` sends both totals in a
  progress message every 5 seconds, until the request context is done.
- **Store DeletePrefix** (`part_000`) and the **response stream**
  (`part_001`).

Here is how the parts interact. The plan produces jobs; workers write
partials and report success; Squash merges them; the Squasher's notifications
unblock dependent jobs; the request proceeds once `StoresReady` holds.

## Modules

| module | models |
|---|---|
| `Squasher` | the Squasher, with the workers and the plan as its environment |
| `MCSquasher` | TLC instance: two modules (initial blocks 0 and 3), interval 2, jobs of 4 blocks, target 7 |
| `SquasherProofs` | TLAPS proofs of the type invariant and of I1 and I2 |
| `SquasherDeliveryProofs` | TLAPS proofs, for one attempt per job, of `NoStaleHead` and `PendingLoadable` from the inductive invariant `DInv` |
| `Segmenter` | `block.Segmenter`: `NewSegmenter`, `computeCount`, `Range`, `firstRange`, `rangeFromBegin`, `IndexForBlock`, `IsPartial` |
| `MCSegmenter` | TLC instance: intervals 1..4, blocks 0..12, 6-bit words |
| `SegmenterProofs` | TLAPS proofs of the Segmenter's type invariant, of `RangeMatchesReference`, `IndexForBlockSigned` and `IndexRoundTrip` |
| `Stages` | the segment × stage matrix of `stages.go`, with workers and merging as its environment |
| `MCStages` | TLC instance: interval 2, end block 7, three stages |
| `StagesProofs` | TLAPS proofs of the matrix's type invariant, of `UnitsOnlyAdvance`, and of `DependenciesMet` from the inductive invariant `SInv` |
| `SquasherFaults` | the Squasher with every error path of `mergeAvailablePartials`, the `io.EOF` end of a worker's stream, and the re-run of the request from storage |
| `MCSquasherFaults` | TLC instance: the stores of `MCSquasher`, at most 2 failures |
| `SquasherFaultsProofs` | TLAPS proofs that the types, I1 and I2 survive every failure and re-run |
| `SquasherFaultsDeliveryProofs` | TLAPS proof, for one attempt per job, that the running request never holds a stale range (`LiveNoStaleHead`) under every failure and re-run |
| `BytesTotals` | what the bytes meter promises: two totals bumped atomically by each call that returns (returned calls are counted per goroutine), and a message carrying both at one instant |
| `BytesMeter` | `bytesMeter`: the callers' Lock / load / store+Unlock, the panic, and the sender's RLock / two loads / respFunc+RUnlock; it refines `BytesTotals` |
| `MCBytesMeter` | TLC instance: two goroutines, two calls each, counts {2, -1}, `Word = 16` |
| `BytesMeterProofs` | TLAPS proofs of the meter's type invariant, lock invariant and refinement |

### Squasher: state and actions

The state of the model and the code it stands for:

- `ranges[m]` is a bag of ranges, standing for the sorted slice
  `Squashable.ranges`. The head of the slice is the bag's least range in the
  order of `sort.Sort` (`IsHead`, `RangeLeq`).
- `nextExpectedStartBlock` and `targetReached` are the fields of the same
  names.
- `builder[m]` is the in-memory store. Its content is abstracted to the
  sequence of ranges merged into it. That sequence is what tells a correct
  store from one with a hole or a double merge.
- `kvFiles` and `partialFiles` stand for storage.
- `modulesReadyUpToBlock` is the plan's view, updated by `Notify`.
- `lock` is `Squasher.lock`.
- `jobs`, `attempts` and `reported` stand for the plan, the workers, and the
  successes not yet passed to `Squash`.

The actions:

- `Init` is `NewSquasher`. `LastKVSavedBlock` is any boundary after the
  initial block, or 0 for none.
- `RunJob` is a worker running a job to completion. It writes one partial per
  piece of `Split(r, I)` (`flushStores` and `saveStoreSnapshot`) and reports
  the success (`OnStreamTerminated`).
- `Squash` takes the lock, then splits, bounds and appends (`squash`,
  `cumulateBoundedRange`).
- `MergePartial` is one iteration of the loop in `mergeAvailablePartials`:
  load, merge, advance, write the snapshot or delete the partial, pop, and on
  reaching the target set `targetReached` and notify.
- `SquashDone` is the loop's `break` and the lock's release.

The merge loop is split into steps while the lock is held. This is faithful
for two reasons: workers keep writing files while the loop runs, and
`StoresReady` takes no lock.

### Segmenter: state and operations

`seg` is the `Segmenter` a caller holds, or `Nil` before one is built. The
action `NewSegmenter` builds one for any interval and any non-empty block
range within the bounds. The read-only methods are operators on `seg`.

Block numbers are `uint64` and indices are Go `int`s. Both are modelled with
`Width` bits:

- `USub` and `UAdd` wrap modulo `2^Width`;
- `ToInt` reinterprets a word as a two's-complement number.

So the unsigned subtraction in `IndexForBlock` wraps for a block before the
initial block's segment, as it does in the code, and `int()` brings it back.
`SegmenterAssumption` keeps every block below a quarter of the word. The
code's `uint64` has the same margin for any real block number.

`RefRange(s, k)` is a reference definition written independently of the
code. Segment `k` is the `k`-th aligned window after the initial block's own
window, cut to `[initialBlock, exclusiveEndBlock)`.

### Stages: state and actions

- `segmentStates` is `Stages.segmentStates`: a sequence of rows, one per
  segment from `segmentOffset`, each a function from stage to `UnitState`.
- `NextJob(u)` is one whole call of `Stages.NextJob` that returns `u`:
  - the scan from `segmentOffset` upwards, with `growSegments` before each
    row it reads (`ScanGrow` for one pass of the loop, `RowsAfterScan`, `Grown`);
  - the stage scan downwards, with the `Pending`, `FirstIndex` and
    `dependenciesCompleted` checks (`Schedulable`, `IsFirstSchedulable`);
  - `markSegmentScheduled`.
- `NextJobNone` is the call that finds nothing, and still grows the matrix
  past `LastIndex`.
- `WorkerDone` and `Merged` are the transitions done outside `stages.go`
  (the partial written; the stage's store merged in block order). They are
  modelled from the spec.
- `FirstIndex(st)` is the first segment of stage `st`, from the lowest
  initial block of its modules (`NewStages`). `StageInitBlock` gives these
  blocks directly.

### SquasherFaults: failures and re-runs

`SquasherFaults` extends `Squasher` with two variables. `failed` says that
`Squash` returned an error, which spec §7.5 makes fatal to the request.
`faults` counts the failures injected so far, bounded by `MaxFaults`. Every
Squasher step runs only while `~failed` (`Ok`).

The merge loop head must also have its `.partial` file (`HeadLoadable`),
because `LoadFrom` reads it. The failure actions follow the code:

- `RunJobEOF(m, r, b)` (`error.go:22`): the stream ends with `io.EOF` after
  block `b`. Only the pieces ending by `b` were flushed, `flushStores` at
  the stop block is skipped, and success is still reported.
- `SquashErrors(m)` (`squasher.go:160-185`): the context is done at the top of
  the loop, or `LoadFrom`/`Merge` of a present file fails. Nothing changes,
  and the deferred `Unlock` releases the lock.
- `LoadMissing(m)` (`squasher.go:177`): `LoadFrom` of a head with no file
  fails. This is forced rather than injected, so it is not bounded.
- `WriteStateFails(m)` (`squasher.go:191`): the head has been merged and
  `nextExpectedStartBlock` advanced, but the head is not popped and no
  snapshot is written.
- `DeleteFails(m)` (`squasher.go:196`): the warning is logged, the file stays,
  and the loop goes on.
- `Restart`: the request is run again. `NewSquasher` loads the latest
  snapshot (`ResumeFrom`, `squasher.go:45-57`) and starts with nothing pending
  (`NoPending`), and the plan is made again from there (`ReplannedJobs`).
  Only `kvFiles` and `partialFiles` survive.

### Bytes meter: state and actions

`bytesWritten` and `bytesRead` are the two fields. `writer` and `readLocked`
are the state of `mu`. Each caller has a program counter, `idle` → `waiting`
→ `locked` → `loaded` → `idle`. The split follows the points where another
goroutine may run: `b.x += uint64(n)` is a load (`Load`) and then a store
(`StoreUnlock`, together with the deferred `Unlock`).

`AddBytesWritten` with `n < 0` panics while it holds the lock (`Panic`). The
deferred `Unlock` runs, and because no caller recovers, the process ends
(`crashed`). `uint64(n)` of a negative `int` is `n` modulo 2^64, which is
`Added(t, n) == (t + n) % Word`, with `Word` standing for 2^64.

The sender goes `wait` → `rlocked` (`Tick`, the `RLock` of `Send`) → `readW`
(`ReadWritten`, the load of `bytesWritten`) → `wait` (`SendUnlock`: the load of
`bytesRead`, `respFunc`, and `RUnlock`). It goes to `stopped` when `ctx.Done()`
is ready (`Stop`). `Cancel` is the context ending.

`BytesTotals` is the abstract meter. Besides the two totals and the last
report it counts, per goroutine, the calls that have returned (`counted`), and
a count step adds one call of one goroutine together with its count. Without
`counted`, a lost update of two equal counts would map to a stutter and
refine. `BytesMeter` implements it under the mapping `written <- bytesWritten`,
`read <- bytesRead`, `reported <- lastSent`, and `counted <- countedCalls`:
a goroutine's `calls`, less the one in progress when its `pc` is not `idle`.

## Runs

| run | cfg | expect | what it shows |
|---|---|---|---|
| `squasher_core` | `MCSquasher.cfg` | pass | I1 `MergedContiguous`, I2 `SnapshotExact`, `PendingLoadable`, `NoStaleHead`, the inductive invariant `DInv` of `SquasherDeliveryProofs` and liveness `SquashCompletes`, over every order in which jobs finish and are squashed |
| `squasher_duplicate` | `MCSquasher_duplicate.cfg` | violation | a job reported twice (`MaxAttempts = 2`) leaves a stale head that blocks the store forever |
| `squasher_caughtup` | `MCSquasher_caughtup.cfg` | violation | with target 8, a store resuming from the snapshot `0-8.kv` is never `targetReached` |
| `squasher_notify` | `MCSquasher_notify.cfg` | violation | the snapshot at block 2 is written but never announced |
| `segmenter_reference` | `MCSegmenter.cfg` | pass | `Count` and `Range` agree with `RefRange` (`RangeMatchesReference`); `IndexForBlock(Range(k).start) = k` (`IndexRoundTrip`); for every block below the end, `IndexForBlock` is the signed segment difference despite the `uint64` wrap (`IndexForBlockSigned`) |
| `segmenter_empty` | `MCSegmenter_empty.cfg` | violation | an end block on a boundary gives one more segment, and `Range` returns the empty `[end, end)` for it, against spec §3 (`SegmentsNonEmpty`) |
| `stages_same_init` | `MCStages.cfg` | pass | with every stage starting in segment 0: a unit is handed out only when the lower stages completed every earlier segment (`DependenciesMet`), and the inductive invariant `SInv` it is proved from holds; no unit goes back or is handed out twice (`UnitsOnlyAdvance`); every unit completes (`AllUnitsCompleted`) |
| `squasher_faults` | `MCSquasherFaults.cfg` | pass | with up to two failures of any kind and a re-run after each fatal one, I1 holds in every state (`MergedContiguous`), the running request never holds a stale range (`LiveNoStaleHead`), the inductive invariant `FDInv` of `SquasherFaultsDeliveryProofs` holds, and the re-runs eventually merge every store to the target (`FSquashCompletes`) |
| `squasher_eof` | `MCSquasherFaults_eof.cfg` | violation | a job whose stream ended with `io.EOF` is reported successful without its last `.partial`, so the pending list names a missing file (`LivePendingLoadable`) |
| `bytes_meter` | `MCBytesMeter.cfg` | pass | `ImplementsTotals`: under every interleaving of two adding goroutines and the sender, the meter is the atomic `BytesTotals`: every call that returns has added its count, also when two calls add the same count, and no message is torn; `CallsReturn`: every call returns (or the process died of the panic) |
| `bytes_monotone` | `MCBytesMeter_monotone.cfg` | violation | `AddBytesRead(-1)` after a report makes the next message report fewer bytes read (`ReportedTotalsMonotone`) |
| `stages_later_stage` | `MCStages_later.cfg` | violation | a stage that starts at block 4, above a stage that starts at 0, gets its first segment scheduled while the lower stage has not completed segments 0 and 1: `dependenciesCompleted` returns true at a stage's first segment |

**Bounds.** Two modules exercise the lock and the interleaving of two
Squashables. With interval 2, jobs of 4 and target 7:

- a job yields two partials;
- a module has two jobs that can finish in either order;
- the last segment `[6, 7)` is partial, so a non-boundary merge and a delete
  happen;
- module b starts at block 3, in the middle of a segment, which exercises the
  first partial segment and `cumulateBoundedRange`'s bound;
- `Init` also lets a module resume from an existing snapshot.

The Segmenter's bounds are intervals 1 to 4 and blocks 0 to 12. They cover:

- aligned and unaligned initial and end blocks;
- ranges shorter than one interval;
- the last segment both partial and exactly aligned;
- blocks before the initial block's segment, where the subtraction wraps.

The Stages bounds are interval 2 and end block 7, which give 4 segments with
a partial last one. Three stages are enough for a stage to depend on two
lower ones. The matrix grows from 0 rows to 2 and then to 4 rows, so a
`growSegments` doubling happens in the middle of a scan.

The fault model keeps the Squasher's instance and allows `MaxFaults = 2`.
That lets a failure happen in the re-run of a failed request. It also lets
a worker's `io.EOF` combine with a later failure.

The bytes meter's bounds are two goroutines with two calls each, counts 2 and
-1, and `Word = 16`. Two goroutines are enough to contend for `mu`
and race the sender. The count -1 exercises both the panic and the wrap. The
small word makes wrapping reachable.

**Fairness.** Each action group of the Squasher is weakly fair. The scheduler dispatches
every job of the plan, a worker that is running eventually reports, and a
`Squash` call runs its loop to the end.

In `Stages`, `NextJob` is weakly fair, because the scheduler calls it
whenever a worker is free. `WorkerDone` and `Merged` are weakly fair per unit:
a dispatched job finishes, and the stage's store merges a present partial
once the previous one is merged.

In `SquasherFaults` the Squasher steps keep their weak fairness. So do two
more actions: `LoadMissing`, because the loop does reach a missing file, and
`Restart`, because spec §7.5 says the caller re-runs. The injected failures
are not fair, since they need never happen.

In `BytesMeter`, `Lock` and `Tick` are strongly fair. Go's `RWMutex` keeps
new readers out once a writer waits, and the writer is admitted once the
readers leave, so a request that is enabled again and again is eventually
granted. The other steps are weakly fair, because a goroutine that holds
the lock keeps running. `Call` and `Cancel` are the environment's choices
and are not fair. The runs disable deadlock checking because the request
really ends: callers stop calling and `Start` returns.

## Proofs

`SquasherProofs` proves, for every set of modules and every interval, target
and split that satisfy `SquasherAssumption`:

- `TypeCorrect`: `Spec => []TypeOK`;
- `MergedContiguousInv`: `Spec => []MergedContiguous`. It is inductive
  together with `TypeOK`. Only `MergePartial` changes `builder`, and it
  appends a head that starts at `nextExpectedStartBlock` (lemma
  `ChainAppend`);
- `SnapshotExactInv`: `Spec => []SnapshotExact`. It is inductive relative to
  `TypeOK /\ MergedContiguous`. A snapshot's content is the merged sequence
  plus the head just merged, and it is written only when that head ends on a
  boundary.

`SquasherFaultsProofs` proves `FaultsInvariant: FSpec => []FInv` for every
value of the constants. `FInv` combines `TypeOK`, I1, I2 and `HasLatest`.
`HasLatest` says that storage holding a snapshot of a store holds a latest
one. It is needed because `Latest` is a `CHOOSE` over the snapshots, and
without it the re-run could load an arbitrary value. It holds because
snapshots are added one at a time (lemma `LatestAdd`).

The proof has one lemma per kind of step:
- a step that does not fail is a `Squasher` step, so `SquasherProofs`'s step
  lemmas apply;
- `WriteStateFails` and `DeleteFails` merge before they fail, which keeps I1
  (lemma `AppendKeeps`);
- `Restart` loads a snapshot whose content chains to its end by I2.

The corollary `FaultsMergedContiguous` is the `MergedContiguous` of the
`squasher_faults` run.

`SquasherDeliveryProofs` proves, for `MaxAttempts = 1` and every other
value of the constants:

- `NoStaleHeadInv`: `Spec => []NoStaleHead`;
- `PendingLoadableInv`: `Spec => []PendingLoadable`.

The hypothesis `MaxAttempts = 1` is needed, not a convenience: with two
deliveries of one success the `squasher_duplicate` run violates
`NoStaleHead`. Neither invariant is inductive alone. A pending range at the
merge point says nothing of whether it will be added again later, so the
proof rests on `DeliveryInvariant: Spec => []DInv`, where `DInv` is
`TypeOK` and four clauses about jobs:

- `JobsDisjoint`: the planned jobs are pairwise disjoint, so their pieces
  (`Split(r, I)`) are too (lemmas `SplitWithin`, `SplitDisjoint`,
  `PiecesDisjoint`);
- `NotRunClean`: a job with no attempt is not reported, and none of its
  pieces is pending; each lies at or after `nextExpectedStartBlock`;
- `ReportedClean`: a reported job ran once, its partial files are written,
  and its pieces are no longer pending yet still at or after the merge point
  unless merged;
- `PendingOnce`: a pending piece is pending once, has its file, lies at or
  after the merge point, and belongs to a job that ran once and is not yet
  reported.

`RunJob` moves a job from `NotRunClean` to `PendingOnce`, `Squash` from
`PendingOnce` to `ReportedClean`, and `MergePartial` pops the head, which by
`PendingOnce` is the only piece starting at the merge point, so every other
piece still lies after the new merge point (lemma `AfterHead`). TLC checked
`DInv` as an invariant before it was proved, and still checks it in
`squasher_core`. `DInv` is `TypeOK /\ JobsDisjoint /\ Clean /\ FilesKept`:
`Clean` gathers the three clauses about a piece's life, and `FilesKept` the
two about files (a reported job wrote every piece, a pending piece has its
file). The step lemmas for `Clean` (`ReportClean`, `SquashClean`,
`MergeClean`) are stated over what a step does to the bookkeeping, not over
the action, so the fault model uses them too.

`SquasherFaultsDeliveryProofs` proves, for `MaxAttempts = 1`:

- `FaultsDeliveryInvariant`: `FSpec => []FDInv`, where
  `FDInv == FInv /\ JobsDisjoint /\ (~failed => Clean)`;
- `LiveNoStaleHeadInv`: `FSpec => []LiveNoStaleHead`.

`FilesKept` is left out because it is false in the fault model. A stream that
ends with `io.EOF` reports success with pieces unwritten (`squasher_eof`).
`Clean` is only required while the request runs. `WriteStateFails` advances
`nextExpectedStartBlock` without popping the head, which breaks `Clean`, but
it also aborts the request. `RunJobEOF` updates the bookkeeping as `RunJob`
does, and `DeleteFails` as `MergePartial` does. `Restart` empties the pending
list, resets the attempts and plans again from the resumed block, so `Clean`
holds again (lemmas `PlanFresh` and `RestartClean`). TLC checked `FDInv` with
up to three failures before it was proved, and `squasher_faults` still
checks it.

`SegmenterProofs` proves, for every interval set, block bound and word width
allowed by `SegmenterAssumption`, `TypeCorrect`, `RangeMatchesReferenceInv`,
`IndexForBlockSignedInv` and `IndexRoundTripInv`, each as `Spec => []P`.
The segmenter is built once and never changes, so each is a fact about
`SegOf(i, b0, bN)`, the value `NewSegmenter` builds (lemma
`NewSegmenterIsSegOf`). The arithmetic rests on lemmas about `\div` and `%`
(`DivMod`, `DivBounds`, `DivMonotone`, `DivMul`). `ToIntOfSmall` says that
`int(uint64(d))` is `d` for every `d` in the signed range; this is where the
assumption `2 * MaxBlock < Word \div 2` is used. `SegmenterAssumption` also
states that `Word = 2^Width` is a positive even number, since the provers do
not evaluate `2^Width`; TLC checks the assumption on every run.

`BytesMeterProofs` proves, for every set of goroutines, all count sets and
every word size allowed by `BytesMeterAssumption`:

- `TypeCorrect`: `Spec => []TypeOK`. The counters stay in `0 .. Word-1`
  for negative counts too;
- `LockInvariant`: `Spec => []Inv`, where `Inv` says that while the process
  lives, `LockInv` holds:
  - `writer = c` exactly when `c` is `locked` or `loaded`;
  - no writer holds `mu` while the sender reads;
  - a `loaded` caller's `tmp` is still the current counter;
  - the sender's loaded `lw` is still `bytesWritten`.
  `LockInv` is inductive together with `TypeOK`;
- `Refinement`: `Spec => ImplementsTotals`. Its argument:
  - `Init` maps to `Abs!Init`;
  - `StoreUnlock` is `CountWritten(c, n)` or `CountRead(c, n)`: by
    `LockInv`, `tmp[c]` equals the counter, and the call's return moves `c`
    from `loaded` to `idle`, which adds one to `countedCalls[c]`;
  - `SendUnlock` is `Report`, because `lw = bytesWritten`;
  - every other step leaves the four mapped variables unchanged. `Call` adds
    one to `calls[c]` as `pc[c]` leaves `idle`, so `countedCalls` does not
    move.

`StagesProofs` proves, for every interval, end block and list of stage
start blocks allowed by `StagesAssumption`:

- `TypeCorrect`: `Spec => []TypeOK`;
- `OnlyAdvance`: `Spec => UnitsOnlyAdvance`. No step moves a unit back,
  hands out a unit that was not pending, or drops a row;
- `StagesInvariant`: `Spec => []SInv`, under the hypothesis `StartOrdered`;
- `DependenciesMetInvariant`: `Spec => []DependenciesMet`, under the same
  hypothesis.

`StartOrdered` says that a higher stage starts in the same segment as every
lower stage, or in an earlier one. It is a hypothesis of the theorems, not an
assumption on the constants, because it is exactly what the code needs.
`dependenciesCompleted` frees a unit at its stage's first segment, and
`stages_later_stage` shows that `DependenciesMet` fails without it.

`DependenciesMet` is not inductive. `dependenciesCompleted` only looks at the
previous segment of each lower stage. That vouches for every earlier segment
only because of two more facts:

- each stage's units complete in segment order (`MergedInOrder`, from
  `Merged`'s guard);
- no unit before its stage's first segment ever leaves `UnitPending`
  (`PendingBeforeFirst`).

So `SInv == TypeOK /\ PendingBeforeFirst /\ MergedInOrder /\ DependenciesMet`.
TLC checked `SInv` before it was proved:
- on `stages_same_init`, which still checks it;
- on an instance with start blocks `<<5, 2, 0>>`, where later stages start
  earlier.

The argument runs as follows:
- Each action changes the state of at most one unit (lemmas `NextJobEffect`,
  `NextJobNoneEffect`, `WorkerDoneEffect`, `MergedEffect`). They rest on:
  - `CellGrown`: `Grown` keeps every cell;
  - `CellExcept`: setting a cell changes only that unit;
  - `RowsFacts`: the loop's row count `RowsAfterScan[k]` exceeds `k` and the
    current length, so the unit's row exists.
- `EffectInv` shows that `SInv` survives such a step. For the unit handed
  out, `NextJobDeps` applies `ChainDown` to the completed previous segment of
  each lower stage: `MergedInOrder` then gives every earlier segment back to
  that stage's start.

`RowsAfterScan` is a recursive function. `NatInductiveDef` gives its defining
equations. Its facts, and `ChainDown`, are proved by induction over a set of
naturals (lemma `SetInduction`, from the least element that `WFMin` gives),
which avoids the induction theorems that take an operator parameter.

Some properties are only model-checked:

- the liveness properties `AllUnitsCompleted`, `SquashCompletes`, `FSquashCompletes` and
  `CallsReturn`, which are out of TLAPS's reach.

The delivery theorems assume `MaxAttempts = 1`. With two deliveries of one
success, `NoStaleHead` is false (`squasher_duplicate`).

## Observed but not kept as runs

Three disagreements were met while modelling and are not part of the run list:

- Spec §4.A's formula for segment 0, `[b0, min(ceil(b0/I)·I, bN))`, gives
  an empty segment when `b0` is a multiple of `I`. The code's
  `floor(b0/I)·I + I` gives a full segment instead.
- `TotalsEventuallyReported`, "the final totals are eventually sent", fails in
  `BytesMeter`. `Start` returns on `ctx.Done()` without a last `Send`, so
  bytes added after the last tick are never reported.
- `TestNewStages` (`src/unnamed/part_003:38`) asserts that `IndexForBlock(80)`
  panics for a segmenter that ends at 75. `Segmenter.IndexForBlock` (line 1253)
  has no bound check and returns 8. `IndexForBlockSigned` therefore only speaks
  of blocks below the exclusive end.

## Not modelled yet

These components are not modelled yet:
- DeletePrefix;
- the worker's error path (`error.go:51`, a job that fails and is retried).
  The stop-block and `io.EOF` ends are modelled. `Stages.previousUnitComplete` is not called
anywhere in the repository.
`PROJECT.json` lists why, with the hazards they carry. Some parts of the
bytes meter are left out because they change no state:

- the read-only getters;
- `String` and `MarshalLogObject`;
- `noopBytesMeter`.
