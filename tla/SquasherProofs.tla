--------------------------- MODULE SquasherProofs ---------------------------
(***************************************************************************)
(* Proofs about the Squasher, for every value of the constants that       *)
(* satisfies SquasherAssumption: the type invariant, contiguity of the    *)
(* merged ranges (I1) and exactness of every complete snapshot (I2).      *)
(***************************************************************************)
EXTENDS Squasher, SequenceTheorems, TLAPS

USE SquasherAssumption DEF T, I

(* Every piece of Range.Split is a non-empty range inside the original.   *)
LEMMA SplitInRanges ==
    ASSUME NEW r \in BlockRanges, NEW n \in Nat \ {0}
    PROVE  Split(r, n) \subseteq BlockRanges
<1> SUFFICES ASSUME NEW k \in (r.StartBlock \div n) ..
                               ((r.ExclusiveEndBlock - 1) \div n)
             PROVE  NewRange(MaxOf(r.StartBlock, k * n),
                             MinOf((k + 1) * n, r.ExclusiveEndBlock))
                      \in BlockRanges
  BY DEF Split
<1> DEFINE s == r.StartBlock  e == r.ExclusiveEndBlock
<1>1. s \in 0 .. T /\ e \in 0 .. T /\ s < e
  BY DEF BlockRanges
<1>2. k \in Nat /\ k * n <= e - 1
  <2>1. k <= (e - 1) \div n
    BY <1>1
  <2>2. ((e - 1) \div n) * n <= e - 1
    BY <1>1
  <2>3. k \in Nat
    BY <1>1
  <2>4. k * n <= ((e - 1) \div n) * n
    BY <2>1, <2>3, <1>1, Z3
  <2>. QED  BY <1>1, <2>2, <2>3, <2>4
<1>3. s < (k + 1) * n
  <2>1. s \div n <= k
    BY <1>1
  <2>2. s < (s \div n + 1) * n
    BY <1>1
  <2>. QED  BY <1>1, <1>2, <2>1, <2>2
<1>. QED
  BY <1>1, <1>2, <1>3 DEF NewRange, MaxOf, MinOf, BlockRanges

(* The plan's jobs are ranges.                                            *)
LEMMA PlanJobsInRanges ==
    ASSUME NEW from \in 0 .. T
    PROVE  PlanJobs(from) \subseteq BlockRanges
<1>1. CASE from < T
  <2>1. NewRange(from, T) \in BlockRanges
    BY <1>1 DEF NewRange, BlockRanges
  <2>. QED  BY <1>1, <2>1, SplitInRanges DEF PlanJobs
<1>2. CASE from >= T
  BY <1>2 DEF PlanJobs
<1>. QED  BY <1>1, <1>2

(* Appending a range that starts where a chain ends extends the chain.    *)
LEMMA ChainAppend ==
    ASSUME NEW s \in Seq(BlockRanges), NEW from \in Nat, NEW h \in BlockRanges,
           Chain(s, from, h.StartBlock)
    PROVE  Chain(Append(s, h), from, h.ExclusiveEndBlock)
<1>1. CASE s = <<>>
  <2>1. Append(s, h) = <<h>>
    BY <1>1
  <2>. QED  BY <1>1, <2>1 DEF Chain
<1>2. CASE s # <<>>
  <2>1. /\ Len(Append(s, h)) = Len(s) + 1
        /\ \A i \in 1 .. Len(s) : Append(s, h)[i] = s[i]
        /\ Append(s, h)[Len(s) + 1] = h
        /\ Append(s, h) # <<>>
        /\ Len(s) \in Nat \ {0}
    BY <1>2, AppendProperties, EmptySeq, LenProperties
  <2>2. /\ s[1].StartBlock = from
        /\ \A i \in 1 .. Len(s) - 1 : s[i].ExclusiveEndBlock = s[i + 1].StartBlock
        /\ s[Len(s)].ExclusiveEndBlock = h.StartBlock
    BY <1>2 DEF Chain
  <2> DEFINE t == Append(s, h)
  <2>3. t[1].StartBlock = from
    BY <2>1, <2>2
  <2>4. \A i \in 1 .. Len(t) - 1 : t[i].ExclusiveEndBlock = t[i + 1].StartBlock
    <3> SUFFICES ASSUME NEW i \in 1 .. Len(s)
                 PROVE  t[i].ExclusiveEndBlock = t[i + 1].StartBlock
      BY <2>1
    <3>1. CASE i < Len(s)
      BY <2>1, <2>2, <3>1
    <3>2. CASE i = Len(s)
      <4>1. t[i] = s[Len(s)]
        BY <2>1, <3>2
      <4>2. t[i + 1] = h
        BY <2>1, <3>2
      <4>3. s[Len(s)].ExclusiveEndBlock = h.StartBlock
        BY <2>2, Zenon
      <4>. QED  BY <4>1, <4>2, <4>3, Zenon
    <3>. QED  BY <2>1, <3>1, <3>2
  <2>5. t[Len(t)].ExclusiveEndBlock = h.ExclusiveEndBlock
    BY <2>1
  <2>. QED  BY <2>1, <2>3, <2>4, <2>5 DEF Chain
<1>. QED  BY <1>1, <1>2

-----------------------------------------------------------------------------
(* The initial states, and every step, keep the types.                    *)
LEMMA InitTypeOK == Init => TypeOK
<1> SUFFICES ASSUME Init PROVE TypeOK
  OBVIOUS
<1>1. PICK lastKV \in [Modules -> 0 .. T] :
          /\ \A m \in Modules : lastKV[m] \in LastKVChoices(m)
          /\ nextExpectedStartBlock =
               [m \in Modules |->
                  IF lastKV[m] # 0 THEN lastKV[m] ELSE ModuleInitialBlock[m]]
          /\ builder =
               [m \in Modules |->
                  IF lastKV[m] # 0
                  THEN <<NewRange(ModuleInitialBlock[m], lastKV[m])>>
                  ELSE <<>>]
          /\ kvFiles =
               [m \in Modules |->
                  IF lastKV[m] # 0
                  THEN {[end |-> lastKV[m],
                         content |-> <<NewRange(ModuleInitialBlock[m], lastKV[m])>>]}
                  ELSE {}]
          /\ jobs = [m \in Modules |-> PlanJobs(nextExpectedStartBlock[m])]
  BY DEF Init
<1>2. ASSUME NEW m \in Modules, lastKV[m] # 0
      PROVE  NewRange(ModuleInitialBlock[m], lastKV[m]) \in BlockRanges
  BY <1>1, <1>2 DEF LastKVChoices, NewRange, BlockRanges
<1>3. nextExpectedStartBlock \in [Modules -> 0 .. T]
  BY <1>1
<1>4. jobs \in [Modules -> SUBSET BlockRanges]
  BY <1>1, <1>3, PlanJobsInRanges
<1>5. builder \in [Modules -> Seq(BlockRanges)]
  BY <1>1, <1>2
<1>6. kvFiles \in [Modules -> SUBSET SnapshotRecords]
  BY <1>1, <1>2 DEF SnapshotRecords
<1>. QED
  BY <1>3, <1>4, <1>5, <1>6 DEF Init, TypeOK

LEMMA StepTypeOK == TypeOK /\ [Next]_vars => TypeOK'
<1> SUFFICES ASSUME TypeOK, [Next]_vars PROVE TypeOK'
  OBVIOUS
<1>1. ASSUME NEW m \in Modules, NEW r \in BlockRanges, RunJob(m, r)
      PROVE  TypeOK'
  <2>1. PartialsWritten(r) \subseteq BlockRanges
    BY SplitInRanges DEF PartialsWritten
  <2>2. partialFiles' \in [Modules -> SUBSET BlockRanges]
    BY <1>1, <2>1 DEF RunJob, TypeOK
  <2>3. attempts[m][r] + 1 \in 0 .. MaxAttempts
    BY <1>1 DEF RunJob, TypeOK
  <2>4. attempts' \in [Modules -> [BlockRanges -> 0 .. MaxAttempts]]
    BY <1>1, <2>3 DEF RunJob, TypeOK
  <2>5. reported' \subseteq Modules \X BlockRanges
    <3>1. reported' = reported \cup {<<m, r>>}
      BY <1>1 DEF RunJob
    <3>2. <<m, r>> \in Modules \X BlockRanges
      OBVIOUS
    <3>. QED  BY <3>1, <3>2 DEF TypeOK
  <2>6. UNCHANGED <<squashVars, kvFiles, modulesReadyUpToBlock, jobs>>
    BY <1>1 DEF RunJob
  <2>. QED  BY <2>2, <2>4, <2>5, <2>6 DEF TypeOK, squashVars
<1>2. ASSUME NEW m \in Modules, NEW r \in BlockRanges, Squash(m, r)
      PROVE  TypeOK'
  <2>1. ranges' \in [Modules -> [BlockRanges -> Nat]]
    <3>1. ranges' = [ranges EXCEPT ![m] =
                        [q \in BlockRanges |->
                            IF q \in Split(r, I) /\ Bounded(m, q)
                            THEN ranges[m][q] + 1 ELSE ranges[m][q]]]
      BY <1>2, Zenon DEF Squash
    <3>2. [q \in BlockRanges |->
              IF q \in Split(r, I) /\ Bounded(m, q)
              THEN ranges[m][q] + 1 ELSE ranges[m][q]]
            \in [BlockRanges -> Nat]
      <4>1. ASSUME NEW q \in BlockRanges
            PROVE  ranges[m][q] \in Nat
        BY DEF TypeOK
      <4>. QED  BY <4>1
    <3>. QED  BY <3>1, <3>2 DEF TypeOK
  <2>2. lock' \in Modules \cup {NoModule} /\ reported' \subseteq Modules \X BlockRanges
    BY <1>2 DEF Squash, TypeOK
  <2>3. UNCHANGED <<nextExpectedStartBlock, targetReached, builder,
                    storageVars, jobs, attempts>>
    BY <1>2 DEF Squash
  <2>. QED  BY <2>1, <2>2, <2>3 DEF TypeOK, storageVars
<1>3. ASSUME NEW m \in Modules, MergePartial(m)
      PROVE  TypeOK'
  <2>1. PICK h \in BlockRanges :
          /\ CanMerge(m, h)
          /\ builder' = [builder EXCEPT ![m] = Append(@, h)]
          /\ nextExpectedStartBlock' =
                [nextExpectedStartBlock EXCEPT ![m] = h.ExclusiveEndBlock]
          /\ IF h.ExclusiveEndBlock % I = 0
             THEN /\ kvFiles' = [kvFiles EXCEPT ![m] = @ \cup {Snapshot(m, h)}]
                  /\ UNCHANGED partialFiles
             ELSE /\ partialFiles' = [partialFiles EXCEPT ![m] = @ \ {h}]
                  /\ UNCHANGED kvFiles
          /\ ranges' = PopHead(m, h)
          /\ IF h.ExclusiveEndBlock = T
             THEN /\ targetReached' = [targetReached EXCEPT ![m] = TRUE]
                  /\ modulesReadyUpToBlock' = [modulesReadyUpToBlock EXCEPT
                        ![m] = MaxOf(@, h.ExclusiveEndBlock)]
             ELSE UNCHANGED <<targetReached, modulesReadyUpToBlock>>
    BY <1>3 DEF MergePartial
  <2>2. ranges[m][h] > 0
    BY <2>1 DEF CanMerge, IsHead, Pending
  <2>3. ranges' \in [Modules -> [BlockRanges -> Nat]]
    <3>1. ranges[m][h] - 1 \in Nat
      <4>1. ranges[m][h] \in Nat
        BY DEF TypeOK
      <4>. QED  BY <2>2, <4>1
    <3>2. [ranges[m] EXCEPT ![h] = ranges[m][h] - 1] \in [BlockRanges -> Nat]
      BY <3>1 DEF TypeOK
    <3>3. ranges' = [ranges EXCEPT ![m] = [ranges[m] EXCEPT ![h] = ranges[m][h] - 1]]
      BY <2>1 DEF PopHead
    <3>. QED  BY <3>2, <3>3 DEF TypeOK
  <2>4. Snapshot(m, h) \in SnapshotRecords
    BY DEF Snapshot, SnapshotRecords, TypeOK, BlockRanges
  <2>5. builder' \in [Modules -> Seq(BlockRanges)]
    BY <2>1 DEF TypeOK
  <2>6. kvFiles' \in [Modules -> SUBSET SnapshotRecords]
        /\ partialFiles' \in [Modules -> SUBSET BlockRanges]
    <3>1. CASE h.ExclusiveEndBlock % I = 0
      <4>1. kvFiles' = [kvFiles EXCEPT ![m] = kvFiles[m] \cup {Snapshot(m, h)}]
            /\ partialFiles' = partialFiles
        BY <2>1, <3>1
      <4>. QED  BY <2>4, <4>1 DEF TypeOK
    <3>2. CASE h.ExclusiveEndBlock % I # 0
      <4>1. partialFiles' = [partialFiles EXCEPT ![m] = partialFiles[m] \ {h}]
            /\ kvFiles' = kvFiles
        BY <2>1, <3>2
      <4>. QED  BY <4>1 DEF TypeOK
    <3>. QED  BY <3>1, <3>2
  <2>7. targetReached' \in [Modules -> BOOLEAN]
        /\ modulesReadyUpToBlock' \in [Modules -> 0 .. T]
    <3>1. CASE h.ExclusiveEndBlock = T
      <4>1. targetReached' = [targetReached EXCEPT ![m] = TRUE]
            /\ modulesReadyUpToBlock' = [modulesReadyUpToBlock EXCEPT
                  ![m] = MaxOf(modulesReadyUpToBlock[m], h.ExclusiveEndBlock)]
        BY <2>1, <3>1
      <4>2. MaxOf(modulesReadyUpToBlock[m], h.ExclusiveEndBlock) \in 0 .. T
        BY DEF MaxOf, TypeOK, BlockRanges
      <4>. QED  BY <4>1, <4>2 DEF TypeOK
    <3>2. CASE h.ExclusiveEndBlock # T
      BY <2>1, <3>2 DEF TypeOK
    <3>. QED  BY <3>1, <3>2
  <2>8. nextExpectedStartBlock' \in [Modules -> 0 .. T]
    BY <2>1 DEF TypeOK, BlockRanges
  <2>. QED
    BY <1>3, <2>3, <2>5, <2>6, <2>7, <2>8
       DEF MergePartial, TypeOK, envVars
<1>4. ASSUME NEW m \in Modules, SquashDone(m)
      PROVE  TypeOK'
  BY <1>4 DEF SquashDone, TypeOK, storageVars, envVars
<1>5. CASE UNCHANGED vars
  BY <1>5 DEF vars, TypeOK, squashVars, storageVars, envVars
<1>. QED  BY <1>1, <1>2, <1>3, <1>4, <1>5 DEF Next

(* Type correctness of every reachable state.                             *)
THEOREM TypeCorrect == Spec => []TypeOK
BY InitTypeOK, StepTypeOK, PTL DEF Spec

-----------------------------------------------------------------------------
(* The merge step of mergeAvailablePartials, as far as the merged ranges  *)
(* and the snapshots are concerned: the head h taken by the loop.         *)
LEMMA MergeStep ==
    ASSUME TypeOK, NEW m \in Modules, MergePartial(m)
    PROVE  \E h \in BlockRanges :
              /\ h.StartBlock = nextExpectedStartBlock[m]
              /\ builder' = [builder EXCEPT ![m] = Append(builder[m], h)]
              /\ nextExpectedStartBlock' =
                    [nextExpectedStartBlock EXCEPT ![m] = h.ExclusiveEndBlock]
              /\ kvFiles' = IF h.ExclusiveEndBlock % I = 0
                            THEN [kvFiles EXCEPT ![m] = kvFiles[m] \cup {Snapshot(m, h)}]
                            ELSE kvFiles
<1>1. PICK h \in BlockRanges :
        /\ CanMerge(m, h)
        /\ builder' = [builder EXCEPT ![m] = Append(@, h)]
        /\ nextExpectedStartBlock' =
              [nextExpectedStartBlock EXCEPT ![m] = h.ExclusiveEndBlock]
        /\ IF h.ExclusiveEndBlock % I = 0
           THEN /\ kvFiles' = [kvFiles EXCEPT ![m] = @ \cup {Snapshot(m, h)}]
                /\ UNCHANGED partialFiles
           ELSE /\ partialFiles' = [partialFiles EXCEPT ![m] = @ \ {h}]
                /\ UNCHANGED kvFiles
  BY DEF MergePartial
<1>2. h.StartBlock = nextExpectedStartBlock[m]
  BY <1>1 DEF CanMerge
<1>3. kvFiles' = IF h.ExclusiveEndBlock % I = 0
                 THEN [kvFiles EXCEPT ![m] = kvFiles[m] \cup {Snapshot(m, h)}]
                 ELSE kvFiles
  BY <1>1
<1>. QED  BY <1>1, <1>2, <1>3

(* I1 holds initially and every step keeps it.                            *)
LEMMA InitMergedContiguous == Init => MergedContiguous
<1> SUFFICES ASSUME Init, NEW m \in Modules
             PROVE  Chain(builder[m], ModuleInitialBlock[m],
                          nextExpectedStartBlock[m])
  BY DEF MergedContiguous
<1>1. PICK lastKV \in [Modules -> 0 .. T] :
          /\ \A m2 \in Modules : lastKV[m2] \in LastKVChoices(m2)
          /\ nextExpectedStartBlock =
               [m2 \in Modules |->
                  IF lastKV[m2] # 0 THEN lastKV[m2] ELSE ModuleInitialBlock[m2]]
          /\ builder =
               [m2 \in Modules |->
                  IF lastKV[m2] # 0
                  THEN <<NewRange(ModuleInitialBlock[m2], lastKV[m2])>>
                  ELSE <<>>]
  BY DEF Init
<1>1a. CASE lastKV[m] # 0
  BY <1>1, <1>1a DEF Chain, NewRange
<1>1b. CASE lastKV[m] = 0
  BY <1>1, <1>1b DEF Chain
<1>. QED  BY <1>1a, <1>1b

LEMMA StepMergedContiguous == TypeOK /\ MergedContiguous /\ [Next]_vars => MergedContiguous'
<1> SUFFICES ASSUME TypeOK, MergedContiguous, [Next]_vars
             PROVE  MergedContiguous'
  OBVIOUS
<1>1. CASE UNCHANGED <<builder, nextExpectedStartBlock>>
  BY <1>1 DEF MergedContiguous
<1>2. ASSUME NEW m \in Modules, MergePartial(m)
      PROVE  MergedContiguous'
  <2>1. PICK h \in BlockRanges :
            /\ h.StartBlock = nextExpectedStartBlock[m]
            /\ builder' = [builder EXCEPT ![m] = Append(builder[m], h)]
            /\ nextExpectedStartBlock' =
                  [nextExpectedStartBlock EXCEPT ![m] = h.ExclusiveEndBlock]
    BY <1>2, MergeStep
  <2>2. Chain(Append(builder[m], h), ModuleInitialBlock[m], h.ExclusiveEndBlock)
    <3>1. Chain(builder[m], ModuleInitialBlock[m], h.StartBlock)
      BY <2>1 DEF MergedContiguous
    <3>2. builder[m] \in Seq(BlockRanges) /\ ModuleInitialBlock[m] \in Nat
      BY DEF TypeOK
    <3>. QED  BY <3>1, <3>2, ChainAppend
  <2> SUFFICES ASSUME NEW m2 \in Modules
               PROVE  Chain(builder'[m2], ModuleInitialBlock[m2],
                            nextExpectedStartBlock'[m2])
    BY DEF MergedContiguous
  <2>3. CASE m2 = m
    BY <2>1, <2>2, <2>3 DEF TypeOK
  <2>4. CASE m2 # m
    BY <2>1, <2>4 DEF TypeOK, MergedContiguous
  <2>. QED  BY <2>3, <2>4
<1>. QED
  BY <1>1, <1>2 DEF Next, RunJob, Squash, SquashDone, vars, squashVars

(* I1: the ranges merged into each store chain from the module's initial  *)
(* block to nextExpectedStartBlock, in every reachable state, whatever    *)
(* the order in which workers report (squasher.go mergeAvailablePartials).*)
THEOREM MergedContiguousInv == Spec => []MergedContiguous
BY InitMergedContiguous, StepMergedContiguous, TypeCorrect, PTL DEF Spec

(* I2 holds initially and every step keeps it, given I1.                  *)
LEMMA InitSnapshotExact == Init => SnapshotExact
<1> SUFFICES ASSUME Init, NEW m \in Modules, NEW f \in kvFiles[m]
             PROVE  f.end % I = 0 /\ Chain(f.content, ModuleInitialBlock[m], f.end)
  BY DEF SnapshotExact
<1>1. PICK lastKV \in [Modules -> 0 .. T] :
          /\ \A m2 \in Modules : lastKV[m2] \in LastKVChoices(m2)
          /\ kvFiles =
               [m2 \in Modules |->
                  IF lastKV[m2] # 0
                  THEN {[end |-> lastKV[m2],
                         content |-> <<NewRange(ModuleInitialBlock[m2], lastKV[m2])>>]}
                  ELSE {}]
  BY DEF Init
<1>2. lastKV[m] # 0 /\ lastKV[m] % I = 0
  BY <1>1 DEF LastKVChoices
<1>3. f = [end |-> lastKV[m],
           content |-> <<NewRange(ModuleInitialBlock[m], lastKV[m])>>]
  BY <1>1, <1>2
<1>. QED  BY <1>2, <1>3 DEF Chain, NewRange

LEMMA StepSnapshotExact == TypeOK /\ MergedContiguous /\ SnapshotExact /\ [Next]_vars => SnapshotExact'
<1> SUFFICES ASSUME TypeOK, MergedContiguous, SnapshotExact, [Next]_vars
             PROVE  SnapshotExact'
  OBVIOUS
<1>1. CASE UNCHANGED kvFiles
  BY <1>1 DEF SnapshotExact
<1>2. ASSUME NEW m \in Modules, MergePartial(m)
      PROVE  SnapshotExact'
  <2>1. PICK h \in BlockRanges :
            /\ h.StartBlock = nextExpectedStartBlock[m]
            /\ kvFiles' = IF h.ExclusiveEndBlock % I = 0
                          THEN [kvFiles EXCEPT ![m] = kvFiles[m] \cup {Snapshot(m, h)}]
                          ELSE kvFiles
    BY <1>2, MergeStep
  <2>2. CASE h.ExclusiveEndBlock % I # 0
    BY <2>1, <2>2 DEF SnapshotExact
  <2>3. CASE h.ExclusiveEndBlock % I = 0
    <3>1. Chain(Append(builder[m], h), ModuleInitialBlock[m], h.ExclusiveEndBlock)
      <4>1. Chain(builder[m], ModuleInitialBlock[m], h.StartBlock)
        BY <2>1 DEF MergedContiguous
      <4>2. builder[m] \in Seq(BlockRanges) /\ ModuleInitialBlock[m] \in Nat
        BY DEF TypeOK
      <4>. QED  BY <4>1, <4>2, ChainAppend
    <3>2. /\ Snapshot(m, h).end % I = 0
          /\ Chain(Snapshot(m, h).content, ModuleInitialBlock[m], Snapshot(m, h).end)
      BY <2>3, <3>1 DEF Snapshot
    <3> SUFFICES ASSUME NEW m2 \in Modules, NEW f \in kvFiles'[m2]
                 PROVE  f.end % I = 0 /\ Chain(f.content, ModuleInitialBlock[m2], f.end)
      BY DEF SnapshotExact
    <3>3. CASE m2 = m /\ f = Snapshot(m, h)
      BY <3>2, <3>3
    <3>4. CASE ~(m2 = m /\ f = Snapshot(m, h))
      <4>1. f \in kvFiles[m2]
        BY <2>1, <2>3, <3>4 DEF TypeOK
      <4>. QED  BY <4>1 DEF SnapshotExact
    <3>. QED  BY <3>3, <3>4
  <2>. QED  BY <2>2, <2>3
<1>. QED
  BY <1>1, <1>2 DEF Next, RunJob, Squash, SquashDone, vars, storageVars

(* I2: every complete snapshot on storage ends on a save-interval         *)
(* boundary and holds exactly the ranges from the module's initial block  *)
(* to its end; it rests on I1, since WriteState stores the merged store.  *)
THEOREM SnapshotExactInv == Spec => []SnapshotExact
BY InitSnapshotExact, StepSnapshotExact, TypeCorrect, MergedContiguousInv, PTL DEF Spec

=============================================================================
