------------------------------ MODULE Squasher ------------------------------
(***************************************************************************)
(* The Squasher of the parallel backfill orchestrator                      *)
(* (src/orchestrator/squasher.go), together with the environment that     *)
(* feeds it: the work plan's jobs and the workers that run them and write  *)
(* .partial files (src/pipeline/stores.go, src/pipeline/error.go).         *)
(*                                                                         *)
(* One Squashable per store module merges partial fragments into its       *)
(* in-memory store strictly in block order, writes a complete .kv snapshot *)
(* when a merge ends on a save-interval boundary, and notifies when the    *)
(* request's target block is reached.  All Squash calls share one mutex    *)
(* (Squasher.lock); the merge loop runs while it is held and can be        *)
(* interleaved with workers writing files.                                 *)
(*                                                                         *)
(* Data abstraction: a store's key/value content is represented by the     *)
(* sequence of block ranges that were merged into it, which is what tells  *)
(* a correct store from one with a hole or a range applied twice.          *)
(***************************************************************************)
EXTENDS Naturals, FiniteSets, Sequences

CONSTANTS
    Modules,                \* the store modules handed to NewSquasher
    ModuleInitialBlock,     \* [Modules -> Nat], builder.ModuleInitialBlock
    StoreSaveInterval,      \* storeSaveInterval
    TargetExclusiveBlock,   \* targetExclusiveBlock: the request's start block
    SubrequestSplit,        \* blocks per job in the work plan
    MaxAttempts,            \* bound: how often one job may report success
    NoModule                \* model value: nobody holds Squasher.lock

ASSUME SquasherAssumption ==
    /\ Modules # {} /\ NoModule \notin Modules
    /\ StoreSaveInterval \in Nat \ {0}
    /\ TargetExclusiveBlock \in Nat \ {0}
    /\ ModuleInitialBlock \in [Modules -> 0 .. TargetExclusiveBlock - 1]
    /\ SubrequestSplit \in Nat \ {0}
    /\ SubrequestSplit % StoreSaveInterval = 0
    /\ MaxAttempts \in Nat \ {0}

VARIABLES
    ranges,                 \* ranges[m][r]: copies of r in Squashable.ranges
    nextExpectedStartBlock, \* Squashable.nextExpectedStartBlock
    targetReached,          \* Squashable.targetReached
    builder,                \* ranges merged into Squashable.builder, in order
    kvFiles,                \* complete snapshots {init}-{end}.kv on storage
    partialFiles,           \* .partial files on storage
    modulesReadyUpToBlock,  \* the plan's view, bumped by notifier.Notify
    lock,                   \* module whose Squash holds Squasher.lock
    jobs,                   \* the work plan's job ranges per module
    attempts,               \* successful runs reported per job
    reported                \* worker successes not yet passed to Squash

squashVars == <<ranges, nextExpectedStartBlock, targetReached, builder, lock>>
storageVars == <<kvFiles, partialFiles, modulesReadyUpToBlock>>
envVars == <<jobs, attempts, reported>>
vars == <<squashVars, storageVars, envVars>>

T == TargetExclusiveBlock
I == StoreSaveInterval

MinOf(a, b) == IF a < b THEN a ELSE b
MaxOf(a, b) == IF a < b THEN b ELSE a

(* block.Range: half-open [StartBlock, ExclusiveEndBlock), never empty.   *)
BlockRanges ==
    {r \in [StartBlock : 0 .. T, ExclusiveEndBlock : 0 .. T] :
        r.StartBlock < r.ExclusiveEndBlock}

NewRange(s, e) == [StartBlock |-> s, ExclusiveEndBlock |-> e]

(* block.Ranges order used by sort.Sort: by start, then by end.           *)
RangeLeq(a, b) ==
    \/ a.StartBlock < b.StartBlock
    \/ a.StartBlock = b.StartBlock /\ a.ExclusiveEndBlock <= b.ExclusiveEndBlock

(* Range.Split(interval): the range cut at every multiple of interval.    *)
Split(r, interval) ==
    {NewRange(MaxOf(r.StartBlock, k * interval),
              MinOf((k + 1) * interval, r.ExclusiveEndBlock)) :
        k \in (r.StartBlock \div interval) ..
              ((r.ExclusiveEndBlock - 1) \div interval)}

(* The work plan's jobs for a store whose merged state starts at from:    *)
(* [from, target) cut at multiples of the subrequest split.               *)
PlanJobs(from) ==
    IF from >= T THEN {}
    ELSE Split(NewRange(from, T), SubrequestSplit)

(* Complete snapshot ends the storage probe may report (LastKVSavedBlock, *)
(* 0 meaning none): segment boundaries after the module's initial block.  *)
LastKVChoices(m) ==
    {0} \cup {b \in ModuleInitialBlock[m] + 1 .. T : b % I = 0}

(* The pending (sorted) ranges of a Squashable, as a set, and its head.   *)
Pending(m) == {r \in BlockRanges : ranges[m][r] > 0}
IsHead(m, h) == h \in Pending(m) /\ \A q \in Pending(m) : RangeLeq(h, q)

-----------------------------------------------------------------------------
(* Mutants: each one is a plausible slip in the code of the helper that   *)
(* follows it, used to check that the properties can see it.              *)
MutPartialsWrittenBoundaryOnly(r) ==
    {p \in Split(r, I) : p.ExclusiveEndBlock % I = 0}
MutBoundedByStart(m, q) == q.StartBlock > ModuleInitialBlock[m]
MutCanMergeAnyHead(m, h) == IsHead(m, h)
MutSnapshotBeforeMerge(m, h) ==
    [end |-> h.ExclusiveEndBlock, content |-> builder[m]]
MutPopHeadMissing(m, h) == ranges
MutPopHeadTwice(m, h) == [ranges EXCEPT ![m][h] = @ - 2]
-----------------------------------------------------------------------------

(* The .partial files a worker leaves for job range r: the pipeline       *)
(* flushes the partial store at every save-interval boundary and, when    *)
(* the stream stops at the stop block, at the stop block, rolling the     *)
(* store each time: one file per piece of Split(r).                       *)
PartialsWritten(r) == Split(r, I)

(* cumulateBoundedRange keeps a range only if it ends after the store's   *)
(* initial block (StoreInitialBlock is the module's initial block both    *)
(* for a fresh store and for one loaded from a complete snapshot).        *)
Bounded(m, q) == q.ExclusiveEndBlock > ModuleInitialBlock[m]

(* The merge loop can take the head: it starts at nextExpectedStartBlock. *)
CanMerge(m, h) ==
    IsHead(m, h) /\ h.StartBlock = nextExpectedStartBlock[m]

(* The complete snapshot WriteState stores after merging h.               *)
Snapshot(m, h) ==
    [end |-> h.ExclusiveEndBlock, content |-> Append(builder[m], h)]

(* s.ranges = s.ranges[1:]                                                *)
PopHead(m, h) == [ranges EXCEPT ![m][h] = @ - 1]

-----------------------------------------------------------------------------
(* NewSquasher: one Squashable per builder; when storage holds a complete *)
(* snapshot (LastKVSavedBlock # 0) it is loaded and merging resumes at    *)
(* its end, otherwise a fresh store starts at the module's initial block. *)
(* The plan's jobs cover what is left up to the target.                   *)
Init ==
    \E lastKV \in [Modules -> 0 .. T] :
        /\ \A m \in Modules : lastKV[m] \in LastKVChoices(m)
        /\ nextExpectedStartBlock =
              [m \in Modules |->
                  IF lastKV[m] # 0 THEN lastKV[m] ELSE ModuleInitialBlock[m]]
        /\ builder =
              [m \in Modules |->
                  IF lastKV[m] # 0
                  THEN <<NewRange(ModuleInitialBlock[m], lastKV[m])>>
                  ELSE <<>>]
        /\ kvFiles =
              [m \in Modules |->
                  IF lastKV[m] # 0
                  THEN {[end |-> lastKV[m],
                         content |-> <<NewRange(ModuleInitialBlock[m], lastKV[m])>>]}
                  ELSE {}]
        /\ jobs = [m \in Modules |-> PlanJobs(nextExpectedStartBlock[m])]
        /\ ranges = [m \in Modules |-> [r \in BlockRanges |-> 0]]
        /\ targetReached = [m \in Modules |-> FALSE]
        /\ partialFiles = [m \in Modules |-> {}]
        /\ modulesReadyUpToBlock = nextExpectedStartBlock
        /\ lock = NoModule
        /\ attempts = [m \in Modules |-> [r \in BlockRanges |-> 0]]
        /\ reported = {}

(* A worker runs job r of module m to completion: the pipeline flushes    *)
(* the partial store at every save-interval boundary and at the stop      *)
(* block, rolling it each time, so one .partial file per piece of         *)
(* Split(r) is written; then the success is reported to the orchestrator. *)
RunJob(m, r) ==
    /\ r \in jobs[m]
    /\ attempts[m][r] < MaxAttempts
    /\ <<m, r>> \notin reported
    /\ partialFiles' = [partialFiles EXCEPT ![m] = @ \cup PartialsWritten(r)]
    /\ attempts' = [attempts EXCEPT ![m][r] = @ + 1]
    /\ reported' = reported \cup {<<m, r>>}
    /\ UNCHANGED <<squashVars, kvFiles, modulesReadyUpToBlock, jobs>>

(* Squasher.Squash(m, r) takes the lock, then Squashable.squash splits r  *)
(* at the save interval and cumulateBoundedRange appends every piece that *)
(* ends after the store's initial block, keeping the list sorted.  Pieces *)
(* starting before the module's initial block would be an error; the plan *)
(* never produces them.                                                   *)
Squash(m, r) ==
    /\ lock = NoModule
    /\ <<m, r>> \in reported
    /\ \A br \in Split(r, I) : br.StartBlock >= ModuleInitialBlock[m]
    /\ lock' = m
    /\ reported' = reported \ {<<m, r>>}
    /\ ranges' = [ranges EXCEPT ![m] =
                    [q \in BlockRanges |->
                        IF q \in Split(r, I) /\ Bounded(m, q)
                        THEN @[q] + 1 ELSE @[q]]]
    /\ UNCHANGED <<nextExpectedStartBlock, targetReached, builder,
                   storageVars, jobs, attempts>>

(* One iteration of mergeAvailablePartials: the head of the sorted list   *)
(* starts at nextExpectedStartBlock, so its partial is loaded and merged, *)
(* the next expected block advances, a complete snapshot is written when  *)
(* the range ends on a boundary (else the partial file is deleted), the   *)
(* head is popped, and reaching the target sets targetReached and         *)
(* notifies.                                                              *)
MergePartial(m) ==
    /\ lock = m
    /\ \E h \in BlockRanges :
        /\ CanMerge(m, h)
        /\ builder' = [builder EXCEPT ![m] = Append(@, h)]
        /\ nextExpectedStartBlock' =
              [nextExpectedStartBlock EXCEPT ![m] = h.ExclusiveEndBlock]
        /\ IF h.ExclusiveEndBlock % I = 0
           THEN /\ kvFiles' = [kvFiles EXCEPT ![m] = @ \cup {Snapshot(m, h)}]
                /\ UNCHANGED partialFiles
           ELSE /\ partialFiles' = [partialFiles EXCEPT ![m] = @ \ {h}]
                /\ UNCHANGED kvFiles
        /\ ranges' = PopHead(m, h)
        /\ IF h.ExclusiveEndBlock = T
           THEN /\ targetReached' = [targetReached EXCEPT ![m] = TRUE]
                /\ modulesReadyUpToBlock' = [modulesReadyUpToBlock EXCEPT
                      ![m] = MaxOf(@, h.ExclusiveEndBlock)]
           ELSE UNCHANGED <<targetReached, modulesReadyUpToBlock>>
    /\ UNCHANGED <<lock, envVars>>

(* The merge loop breaks (no range left, or the head does not start at    *)
(* nextExpectedStartBlock): squash returns and the lock is released.      *)
SquashDone(m) ==
    /\ lock = m
    /\ ~\E h \in BlockRanges : CanMerge(m, h)
    /\ lock' = NoModule
    /\ UNCHANGED <<ranges, nextExpectedStartBlock, targetReached, builder,
                   storageVars, envVars>>

Next ==
    \E m \in Modules :
        \/ \E r \in BlockRanges : RunJob(m, r) \/ Squash(m, r)
        \/ MergePartial(m)
        \/ SquashDone(m)

(* The scheduler dispatches every job of the plan and each worker reports *)
(* back; the merge loop runs to its end while it holds the lock.          *)
Fairness ==
    \A m \in Modules :
        /\ WF_vars(\E r \in BlockRanges : RunJob(m, r))
        /\ WF_vars(\E r \in BlockRanges : Squash(m, r))
        /\ WF_vars(MergePartial(m))
        /\ WF_vars(SquashDone(m))

Spec == Init /\ [][Next]_vars
FairSpec == Spec /\ Fairness

-----------------------------------------------------------------------------
(* StoresReady: every Squashable has reached its target with nothing      *)
(* left pending.                                                          *)
StoresReady == \A m \in Modules : targetReached[m] /\ Pending(m) = {}

(* A sequence of ranges that chain without gap or overlap from `from` to  *)
(* `to`.                                                                  *)
Chain(s, from, to) ==
    IF s = <<>> THEN from = to
    ELSE /\ s[1].StartBlock = from
         /\ \A i \in 1 .. Len(s) - 1 :
               s[i].ExclusiveEndBlock = s[i + 1].StartBlock
         /\ s[Len(s)].ExclusiveEndBlock = to

SnapshotRecords == [end : 0 .. T, content : Seq(BlockRanges)]

TypeOK ==
    /\ ranges \in [Modules -> [BlockRanges -> Nat]]
    /\ nextExpectedStartBlock \in [Modules -> 0 .. T]
    /\ targetReached \in [Modules -> BOOLEAN]
    /\ builder \in [Modules -> Seq(BlockRanges)]
    /\ kvFiles \in [Modules -> SUBSET SnapshotRecords]
    /\ partialFiles \in [Modules -> SUBSET BlockRanges]
    /\ modulesReadyUpToBlock \in [Modules -> 0 .. T]
    /\ lock \in Modules \cup {NoModule}
    /\ jobs \in [Modules -> SUBSET BlockRanges]
    /\ attempts \in [Modules -> [BlockRanges -> 0 .. MaxAttempts]]
    /\ reported \subseteq Modules \X BlockRanges

(* I1, contiguity: whatever order the workers finish in, the ranges       *)
(* merged into each in-memory store chain without gap or overlap from the *)
(* module's initial block up to nextExpectedStartBlock (the merge loop    *)
(* only takes the head of the sorted list when it starts there).          *)
MergedContiguous ==
    \A m \in Modules :
        Chain(builder[m], ModuleInitialBlock[m], nextExpectedStartBlock[m])

(* I2, snapshot exactness: every complete snapshot on storage ends on a   *)
(* save-interval boundary and holds exactly the blocks from the module's  *)
(* initial block to its end, each once (WriteState runs after the merge). *)
SnapshotExact ==
    \A m \in Modules : \A f \in kvFiles[m] :
        /\ f.end % I = 0
        /\ Chain(f.content, ModuleInitialBlock[m], f.end)

(* Every range waiting in a Squashable's list still has its .partial file *)
(* on storage, so the LoadFrom of the merge loop finds it (the delete of  *)
(* a merged non-boundary partial must not remove another range's file).   *)
PendingLoadable ==
    \A m \in Modules : Pending(m) \subseteq partialFiles[m]

(* At-most-once merge (spec 4.F): a range that was already merged never   *)
(* waits in the list again, i.e. a duplicate delivery from a retried job  *)
(* is dropped; otherwise the stale head blocks the merge loop for good.   *)
NoStaleHead ==
    \A m \in Modules : \A r \in Pending(m) :
        r.StartBlock >= nextExpectedStartBlock[m]

(* Once every job's result has been squashed, the store is merged up to   *)
(* the target with nothing pending, and stays so.                         *)
SquashCompletes ==
    <>[](\A m \in Modules :
            nextExpectedStartBlock[m] = T /\ Pending(m) = {})

(* storesReady (spec 4.F): a store merged up to the target with nothing   *)
(* pending is reported ready.                                             *)
ReadyWhenCaughtUp ==
    \A m \in Modules :
        (nextExpectedStartBlock[m] = T /\ Pending(m) = {}) => targetReached[m]

(* Notifier (spec 4.F): every complete snapshot the Squasher persists is  *)
(* announced, so the plan knows the store ready up to its end and can     *)
(* promote the jobs that depend on it.                                    *)
NotifyOnSnapshot ==
    \A m \in Modules : \A f \in kvFiles[m] :
        f.end <= modulesReadyUpToBlock[m]
=============================================================================
