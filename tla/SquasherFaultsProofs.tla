------------------------ MODULE SquasherFaultsProofs ------------------------
(***************************************************************************)
(* Proofs about the Squasher under failures and re-runs (SquasherFaults),  *)
(* for every value of the constants: whatever fails in                     *)
(* mergeAvailablePartials or in a worker, and however often the request    *)
(* is run again from storage, the types, contiguity of the merged ranges   *)
(* (I1) and exactness of every complete snapshot (I2) hold.                *)
(*                                                                         *)
(* The re-run loads the latest snapshot, so the invariant also says that   *)
(* one exists whenever storage holds a snapshot (HasLatest): Latest is a   *)
(* CHOOSE, and a set of snapshots has a latest one only because the ends   *)
(* are numbers and snapshots are added one at a time.                      *)
(***************************************************************************)
EXTENDS SquasherFaults, SquasherProofs

USE SquasherAssumption, SquasherFaultsAssumption DEF T, I

HasLatest ==
    \A m \in Modules : kvFiles[m] # {} =>
        \E f \in kvFiles[m] : \A g \in kvFiles[m] : g.end <= f.end

FInv ==
    /\ TypeOK /\ failed \in BOOLEAN /\ faults \in Nat
    /\ MergedContiguous /\ SnapshotExact /\ HasLatest

-----------------------------------------------------------------------------
(* What the re-run loads: a snapshot on storage, whose content chains from *)
(* the module's initial block to its end.                                 *)
LEMMA LatestFacts ==
    ASSUME TypeOK, SnapshotExact, HasLatest,
           NEW m \in Modules, kvFiles[m] # {}
    PROVE  /\ Latest(m) \in kvFiles[m]
           /\ Latest(m).end \in 0 .. T
           /\ Latest(m).content \in Seq(BlockRanges)
           /\ Chain(Latest(m).content, ModuleInitialBlock[m], Latest(m).end)
<1>1. \E f \in kvFiles[m] : \A g \in kvFiles[m] : g.end <= f.end
  BY DEF HasLatest
<1>2. Latest(m) \in kvFiles[m]
  BY <1>1, Zenon DEF Latest
<1>3. Latest(m) \in SnapshotRecords
  BY <1>2 DEF TypeOK
<1>. QED  BY <1>2, <1>3 DEF SnapshotRecords, SnapshotExact

(* Adding one snapshot to a set that has a latest one keeps a latest one. *)
LEMMA LatestAdd ==
    ASSUME NEW S \in SUBSET SnapshotRecords, NEW x \in SnapshotRecords,
           S # {} => \E f \in S : \A g \in S : g.end <= f.end
    PROVE  \E f \in S \cup {x} : \A g \in S \cup {x} : g.end <= f.end
<1>1. CASE S = {}
  BY <1>1 DEF SnapshotRecords
<1>2. CASE S # {}
  <2>1. PICK f \in S : \A g \in S : g.end <= f.end
    BY <1>2
  <2>2. f.end \in Nat /\ x.end \in Nat /\ \A g \in S : g.end \in Nat
    BY DEF SnapshotRecords
  <2>3. CASE x.end <= f.end
    BY <2>1, <2>2, <2>3
  <2>4. CASE ~(x.end <= f.end)
    BY <2>1, <2>2, <2>4
  <2>. QED  BY <2>3, <2>4
<1>. QED  BY <1>1, <1>2

(* WriteState adds a snapshot of module m: HasLatest is kept.             *)
LEMMA HasLatestAdd ==
    ASSUME TypeOK, HasLatest, NEW m \in Modules, NEW x \in SnapshotRecords,
           kvFiles' = [kvFiles EXCEPT ![m] = kvFiles[m] \cup {x}]
    PROVE  HasLatest'
<1> SUFFICES ASSUME NEW m2 \in Modules, kvFiles'[m2] # {}
             PROVE  \E f \in kvFiles'[m2] : \A g \in kvFiles'[m2] : g.end <= f.end
  BY DEF HasLatest
<1>1. CASE m2 = m
  <2>1. kvFiles'[m2] = kvFiles[m] \cup {x}
    BY <1>1 DEF TypeOK
  <2>2. kvFiles[m] \in SUBSET SnapshotRecords
    BY DEF TypeOK
  <2>3. kvFiles[m] # {} => \E f \in kvFiles[m] : \A g \in kvFiles[m] : g.end <= f.end
    BY DEF HasLatest
  <2>4. \E f \in kvFiles[m] \cup {x} : \A g \in kvFiles[m] \cup {x} : g.end <= f.end
    BY <2>2, <2>3, LatestAdd
  <2>. QED  BY <2>1, <2>4
<1>2. CASE m2 # m
  BY <1>2 DEF TypeOK, HasLatest
<1>. QED  BY <1>1, <1>2

(* Initially storage holds at most one snapshot per module.               *)
LEMMA InitHasLatest == Init => HasLatest
<1> SUFFICES ASSUME Init, NEW m \in Modules, kvFiles[m] # {}
             PROVE  \E f \in kvFiles[m] : \A g \in kvFiles[m] : g.end <= f.end
  BY DEF HasLatest
<1>1. PICK lastKV \in [Modules -> 0 .. T] :
          kvFiles =
             [m2 \in Modules |->
                IF lastKV[m2] # 0
                THEN {[end |-> lastKV[m2],
                       content |-> <<NewRange(ModuleInitialBlock[m2], lastKV[m2])>>]}
                ELSE {}]
  BY DEF Init
<1>. QED  BY <1>1

-----------------------------------------------------------------------------
(* A merge of head h into module m (MergePartial, WriteStateFails,        *)
(* DeleteFails) keeps I1 and the types of builder and the next block.     *)
LEMMA AppendKeeps ==
    ASSUME TypeOK, MergedContiguous, NEW m \in Modules, NEW h \in BlockRanges,
           h.StartBlock = nextExpectedStartBlock[m],
           builder' = [builder EXCEPT ![m] = Append(builder[m], h)],
           nextExpectedStartBlock' =
              [nextExpectedStartBlock EXCEPT ![m] = h.ExclusiveEndBlock]
    PROVE  /\ MergedContiguous'
           /\ builder' \in [Modules -> Seq(BlockRanges)]
           /\ nextExpectedStartBlock' \in [Modules -> 0 .. T]
<1>1. Chain(Append(builder[m], h), ModuleInitialBlock[m], h.ExclusiveEndBlock)
  <2>1. Chain(builder[m], ModuleInitialBlock[m], h.StartBlock)
    BY DEF MergedContiguous
  <2>2. builder[m] \in Seq(BlockRanges) /\ ModuleInitialBlock[m] \in Nat
    BY DEF TypeOK
  <2>. QED  BY <2>1, <2>2, ChainAppend
<1>2. MergedContiguous'
  <2> SUFFICES ASSUME NEW m2 \in Modules
               PROVE  Chain(builder'[m2], ModuleInitialBlock[m2],
                            nextExpectedStartBlock'[m2])
    BY DEF MergedContiguous
  <2>1. CASE m2 = m
    BY <1>1, <2>1 DEF TypeOK
  <2>2. CASE m2 # m
    BY <2>2 DEF TypeOK, MergedContiguous
  <2>. QED  BY <2>1, <2>2
<1>3. builder' \in [Modules -> Seq(BlockRanges)]
  BY DEF TypeOK
<1>4. nextExpectedStartBlock' \in [Modules -> 0 .. T]
  BY DEF TypeOK, BlockRanges
<1>. QED  BY <1>2, <1>3, <1>4

(* Popping head h of module m leaves a bag of ranges.                     *)
LEMMA PopHeadTyped ==
    ASSUME TypeOK, NEW m \in Modules, NEW h \in BlockRanges, CanMerge(m, h)
    PROVE  PopHead(m, h) \in [Modules -> [BlockRanges -> Nat]]
<1>1. ranges[m][h] > 0 /\ ranges[m][h] \in Nat
  BY DEF CanMerge, IsHead, Pending, TypeOK
<1>2. [ranges[m] EXCEPT ![h] = ranges[m][h] - 1] \in [BlockRanges -> Nat]
  <2>1. ranges[m][h] - 1 \in Nat
    BY <1>1
  <2>2. ranges[m] \in [BlockRanges -> Nat]
    BY DEF TypeOK
  <2>. QED  BY <2>1, <2>2
<1>3. PopHead(m, h) =
        [ranges EXCEPT ![m] = [ranges[m] EXCEPT ![h] = ranges[m][h] - 1]]
  BY DEF PopHead
<1>. QED  BY <1>2, <1>3 DEF TypeOK
-----------------------------------------------------------------------------
(* The initial states satisfy FInv.                                       *)
LEMMA FInitInv == FInit => FInv
<1> SUFFICES ASSUME FInit PROVE FInv
  OBVIOUS
<1>1. Init /\ failed = FALSE /\ faults = 0
  BY DEF FInit
<1>2. TypeOK /\ MergedContiguous /\ SnapshotExact /\ HasLatest
  BY <1>1, InitTypeOK, InitMergedContiguous, InitSnapshotExact, InitHasLatest
<1>. QED  BY <1>1, <1>2 DEF FInv

(* A step that does not fail is a step of Squasher: FInv is kept.         *)
LEMMA OkStepInv ==
    ASSUME FInv, NEW m \in Modules,
           \/ \E r \in BlockRanges : Ok(RunJob(m, r)) \/ Ok(Squash(m, r))
           \/ Ok(MergePartial(m) /\ HeadLoadable(m))
           \/ Ok(SquashDone(m))
    PROVE  FInv'
<1>1. [Next]_vars /\ UNCHANGED faultVars
  BY DEF Ok, Next
<1>2. TypeOK' /\ MergedContiguous' /\ SnapshotExact'
  BY <1>1, StepTypeOK, StepMergedContiguous, StepSnapshotExact DEF FInv
<1>3. HasLatest'
  <2>1. CASE MergePartial(m)
    <3>1. PICK h \in BlockRanges :
              /\ h.StartBlock = nextExpectedStartBlock[m]
              /\ kvFiles' = IF h.ExclusiveEndBlock % I = 0
                            THEN [kvFiles EXCEPT ![m] = kvFiles[m] \cup {Snapshot(m, h)}]
                            ELSE kvFiles
      BY <2>1, MergeStep DEF FInv
    <3>2. CASE h.ExclusiveEndBlock % I = 0
      <4>1. Snapshot(m, h) \in SnapshotRecords
        BY DEF Snapshot, SnapshotRecords, FInv, TypeOK, BlockRanges
      <4>. QED  BY <3>1, <3>2, <4>1, HasLatestAdd DEF FInv
    <3>3. CASE h.ExclusiveEndBlock % I # 0
      BY <3>1, <3>3 DEF FInv, HasLatest
    <3>. QED  BY <3>2, <3>3
  <2>2. CASE ~MergePartial(m)
    <3>1. UNCHANGED kvFiles
      BY <2>2 DEF Ok, RunJob, Squash, SquashDone, storageVars
    <3>. QED  BY <3>1 DEF FInv, HasLatest
  <2>. QED  BY <2>1, <2>2
<1>. QED  BY <1>1, <1>2, <1>3 DEF FInv, faultVars
(* A worker whose stream ends with io.EOF only adds files and reports.    *)
LEMMA EOFStepInv ==
    ASSUME FInv, NEW m \in Modules, NEW r \in BlockRanges, NEW b \in Nat,
           RunJobEOF(m, r, b)
    PROVE  FInv'
<1>1. {p \in Split(r, I) : p.ExclusiveEndBlock <= b} \subseteq BlockRanges
  BY SplitInRanges
<1>2. partialFiles' \in [Modules -> SUBSET BlockRanges]
  BY <1>1 DEF RunJobEOF, FInv, TypeOK
<1>3. attempts[m][r] + 1 \in 0 .. MaxAttempts
  BY DEF RunJobEOF, FInv, TypeOK
<1>4. attempts' \in [Modules -> [BlockRanges -> 0 .. MaxAttempts]]
  BY <1>3 DEF RunJobEOF, FInv, TypeOK
<1>5. reported' \subseteq Modules \X BlockRanges
  <2>1. reported' = reported \cup {<<m, r>>}
    BY DEF RunJobEOF
  <2>2. <<m, r>> \in Modules \X BlockRanges
    OBVIOUS
  <2>. QED  BY <2>1, <2>2 DEF FInv, TypeOK
<1>6. faults' \in Nat /\ failed' \in BOOLEAN
  BY DEF RunJobEOF, FInv
<1>7. UNCHANGED <<squashVars, kvFiles, modulesReadyUpToBlock, jobs>>
  BY DEF RunJobEOF
<1>8. TypeOK'
  BY <1>2, <1>4, <1>5, <1>7 DEF FInv, TypeOK, squashVars
<1>. QED
  BY <1>6, <1>7, <1>8
     DEF FInv, squashVars, MergedContiguous, SnapshotExact, HasLatest

(* Squash returns an error before changing anything but the lock.         *)
LEMMA AbortStepInv ==
    ASSUME FInv, NEW m \in Modules, SquashErrors(m) \/ LoadMissing(m)
    PROVE  FInv'
<1>1. lock' = NoModule /\ failed' = TRUE /\ faults' \in Nat
  BY DEF SquashErrors, LoadMissing, Abort, FInv
<1>2. UNCHANGED <<ranges, nextExpectedStartBlock, targetReached, builder,
                  storageVars, envVars>>
  BY DEF SquashErrors, LoadMissing
<1>3. TypeOK'
  BY <1>1, <1>2 DEF FInv, TypeOK, storageVars, envVars
<1>. QED
  BY <1>1, <1>2, <1>3
     DEF FInv, storageVars, MergedContiguous, SnapshotExact, HasLatest

(* WriteState fails after the merge: I1 holds for the merged head.        *)
LEMMA WriteStateFailsInv ==
    ASSUME FInv, NEW m \in Modules, WriteStateFails(m)
    PROVE  FInv'
<1>1. PICK h \in BlockRanges :
          /\ CanMerge(m, h)
          /\ builder' = [builder EXCEPT ![m] = Append(builder[m], h)]
          /\ nextExpectedStartBlock' =
                [nextExpectedStartBlock EXCEPT ![m] = h.ExclusiveEndBlock]
  BY DEF WriteStateFails
<1>2. /\ MergedContiguous'
      /\ builder' \in [Modules -> Seq(BlockRanges)]
      /\ nextExpectedStartBlock' \in [Modules -> 0 .. T]
  BY <1>1, AppendKeeps DEF FInv, CanMerge
<1>3. lock' = NoModule /\ failed' = TRUE /\ faults' \in Nat
  BY DEF WriteStateFails, Abort, FInv
<1>4. UNCHANGED <<ranges, targetReached, storageVars, envVars>>
  BY DEF WriteStateFails
<1>5. TypeOK'
  BY <1>2, <1>3, <1>4 DEF FInv, TypeOK, storageVars, envVars
<1>. QED
  BY <1>2, <1>3, <1>4, <1>5 DEF FInv, storageVars, SnapshotExact, HasLatest
(* A non-boundary merge whose delete fails keeps the file: as a merge.    *)
LEMMA DeleteFailsInv ==
    ASSUME FInv, NEW m \in Modules, DeleteFails(m)
    PROVE  FInv'
<1>1. PICK h \in BlockRanges :
          /\ CanMerge(m, h)
          /\ builder' = [builder EXCEPT ![m] = Append(builder[m], h)]
          /\ nextExpectedStartBlock' =
                [nextExpectedStartBlock EXCEPT ![m] = h.ExclusiveEndBlock]
          /\ ranges' = PopHead(m, h)
          /\ IF h.ExclusiveEndBlock = T
             THEN /\ targetReached' = [targetReached EXCEPT ![m] = TRUE]
                  /\ modulesReadyUpToBlock' = [modulesReadyUpToBlock EXCEPT
                        ![m] = MaxOf(modulesReadyUpToBlock[m], h.ExclusiveEndBlock)]
             ELSE UNCHANGED <<targetReached, modulesReadyUpToBlock>>
  BY DEF DeleteFails
<1>2. /\ MergedContiguous'
      /\ builder' \in [Modules -> Seq(BlockRanges)]
      /\ nextExpectedStartBlock' \in [Modules -> 0 .. T]
  BY <1>1, AppendKeeps DEF FInv, CanMerge
<1>3. ranges' \in [Modules -> [BlockRanges -> Nat]]
  BY <1>1, PopHeadTyped DEF FInv
<1>4. targetReached' \in [Modules -> BOOLEAN]
      /\ modulesReadyUpToBlock' \in [Modules -> 0 .. T]
  <2>1. CASE h.ExclusiveEndBlock = T
    <3>1. MaxOf(modulesReadyUpToBlock[m], h.ExclusiveEndBlock) \in 0 .. T
      BY DEF MaxOf, FInv, TypeOK, BlockRanges
    <3>2. targetReached' = [targetReached EXCEPT ![m] = TRUE]
          /\ modulesReadyUpToBlock' = [modulesReadyUpToBlock EXCEPT
                ![m] = MaxOf(modulesReadyUpToBlock[m], h.ExclusiveEndBlock)]
      BY <1>1, <2>1
    <3>. QED  BY <3>1, <3>2 DEF FInv, TypeOK
  <2>2. CASE h.ExclusiveEndBlock # T
    BY <1>1, <2>2 DEF FInv, TypeOK
  <2>. QED  BY <2>1, <2>2
<1>5. faults' \in Nat /\ UNCHANGED <<lock, kvFiles, partialFiles, envVars, failed>>
  BY DEF DeleteFails, FInv
<1>6. TypeOK'
  BY <1>2, <1>3, <1>4, <1>5 DEF FInv, TypeOK, envVars
<1>. QED
  BY <1>2, <1>5, <1>6 DEF FInv, SnapshotExact, HasLatest

(* The re-run: each store restarts from the latest snapshot on storage,   *)
(* whose content chains up to its end (I2), so I1 holds again.            *)
LEMMA RestartInv ==
    ASSUME FInv, Restart
    PROVE  FInv'
<1>1. ASSUME NEW m \in Modules
      PROVE  /\ ResumeFrom(m) \in 0 .. T
             /\ builder'[m] \in Seq(BlockRanges)
             /\ Chain(builder'[m], ModuleInitialBlock[m], nextExpectedStartBlock'[m])
  <2>1. CASE kvFiles[m] = {}
    <3>1. ResumeFrom(m) = ModuleInitialBlock[m] /\ builder'[m] = <<>>
          /\ nextExpectedStartBlock'[m] = ModuleInitialBlock[m]
      BY <2>1 DEF Restart, ResumeFrom
    <3>. QED  BY <3>1 DEF Chain
  <2>2. CASE kvFiles[m] # {}
    <3>1. ResumeFrom(m) = Latest(m).end /\ builder'[m] = Latest(m).content
          /\ nextExpectedStartBlock'[m] = Latest(m).end
      BY <2>2 DEF Restart, ResumeFrom
    <3>. QED  BY <2>2, <3>1, LatestFacts DEF FInv
  <2>. QED  BY <2>1, <2>2
<1>2. /\ builder' \in [Modules -> Seq(BlockRanges)]
      /\ nextExpectedStartBlock' \in [Modules -> 0 .. T]
      /\ modulesReadyUpToBlock' \in [Modules -> 0 .. T]
      /\ MergedContiguous'
  BY <1>1 DEF Restart, MergedContiguous
<1>3. jobs' \in [Modules -> SUBSET BlockRanges]
  BY <1>1, PlanJobsInRanges DEF Restart, ReplannedJobs
<1>4. /\ ranges' \in [Modules -> [BlockRanges -> Nat]]
      /\ targetReached' \in [Modules -> BOOLEAN]
      /\ attempts' \in [Modules -> [BlockRanges -> 0 .. MaxAttempts]]
      /\ lock' = NoModule /\ reported' = {}
  BY DEF Restart, NoPending
<1>5. UNCHANGED <<kvFiles, partialFiles, faults>> /\ failed' = FALSE
  BY DEF Restart
<1>6. TypeOK'
  BY <1>2, <1>3, <1>4, <1>5 DEF FInv, TypeOK
<1>. QED
  BY <1>2, <1>5, <1>6 DEF FInv, SnapshotExact, HasLatest

-----------------------------------------------------------------------------
(* FInv is inductive: every step of the fault model keeps it.             *)
LEMMA FStepInv == FInv /\ [FNext]_fvars => FInv'
<1> SUFFICES ASSUME FInv, [FNext]_fvars PROVE FInv'
  OBVIOUS
<1>1. ASSUME NEW m \in Modules, NEW r \in BlockRanges,
             NEW b \in r.StartBlock .. r.ExclusiveEndBlock - 1,
             RunJobEOF(m, r, b)
      PROVE  FInv'
  <2>1. b \in Nat
    BY DEF BlockRanges
  <2>. QED  BY <1>1, <2>1, EOFStepInv
<1>2. CASE UNCHANGED fvars
  BY <1>2 DEF fvars, vars, faultVars, squashVars, storageVars, envVars,
             FInv, TypeOK, MergedContiguous, SnapshotExact, HasLatest
<1>. QED
  BY <1>1, <1>2, OkStepInv, AbortStepInv, WriteStateFailsInv,
     DeleteFailsInv, RestartInv DEF FNext

(* Under every failure the model allows, and after every re-run of the    *)
(* request from storage, the types hold, the merged ranges of each store  *)
(* chain from its initial block (I1) and every complete snapshot on       *)
(* storage is exact (I2) (squasher.go mergeAvailablePartials, NewSquasher).*)
THEOREM FaultsInvariant == FSpec => []FInv
BY FInitInv, FStepInv, PTL DEF FSpec

(* Corollary for the faults run: I1 holds in every state, failed or not.  *)
THEOREM FaultsMergedContiguous == FSpec => []MergedContiguous
<1>1. FInv => MergedContiguous
  BY DEF FInv
<1>. QED  BY <1>1, FaultsInvariant, PTL
=============================================================================
