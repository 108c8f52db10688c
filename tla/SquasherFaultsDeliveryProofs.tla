-------------------- MODULE SquasherFaultsDeliveryProofs --------------------
(***************************************************************************)
(* Proof that the running request never holds a stale range under every    *)
(* failure the fault model allows and after every re-run from storage     *)
(* (LiveNoStaleHead), for every value of the constants, when each job of   *)
(* a plan reports its success once (MaxAttempts = 1).                      *)
(*                                                                         *)
(* The argument is DInv's without the files: a worker stream that ends     *)
(* with io.EOF reports success with pieces unwritten, so FilesKept fails   *)
(* (the run squasher_eof shows it), but the life of each piece, Clean,     *)
(* does not depend on the files.  An aborted request may leave Clean       *)
(* broken (WriteStateFails advances nextExpectedStartBlock without         *)
(* popping the head); the re-run throws the pending list, the attempts     *)
(* and the plan away and plans again from the latest snapshot, so Clean    *)
(* holds again from there.                                                 *)
(***************************************************************************)
EXTENDS SquasherFaultsProofs, SquasherDeliveryProofs

USE SquasherAssumption, SquasherFaultsAssumption DEF T, I

(* The fault model's inductive invariant: FInv, the plan's jobs do not     *)
(* overlap, and while the request runs every piece is in one stage of its  *)
(* life.                                                                   *)
FDInv == FInv /\ JobsDisjoint /\ (~failed => Clean)
-----------------------------------------------------------------------------
(* A plan made from block `from` (PlanJobs, as NewSquasher's caller makes  *)
(* it on every run) has jobs that do not overlap, and every piece of every *)
(* job starts at or after `from`.                                          *)
LEMMA PlanFresh ==
    ASSUME NEW from \in 0 .. T
    PROVE  /\ \A r1, r2 \in PlanJobs(from) : r1 = r2 \/ Disjoint(r1, r2)
           /\ \A r \in PlanJobs(from) : \A q \in Split(r, I) : q.StartBlock >= from
<1>1. CASE from >= T
  BY <1>1 DEF PlanJobs
<1>2. CASE from < T
  <2> DEFINE R == NewRange(from, T)
  <2>1. R \in BlockRanges /\ R.StartBlock = from
    BY <1>2 DEF NewRange, BlockRanges
  <2>2. PlanJobs(from) = Split(R, SubrequestSplit)
    BY <1>2 DEF PlanJobs
  <2>3. \A r1, r2 \in PlanJobs(from) : r1 = r2 \/ Disjoint(r1, r2)
    BY <2>1, <2>2, SplitDisjoint
  <2>4. ASSUME NEW r \in PlanJobs(from), NEW q \in Split(r, I)
        PROVE  q.StartBlock >= from
    <3>1. r \in BlockRanges /\ from <= r.StartBlock
      BY <2>1, <2>2, SplitWithin
    <3>2. q \in BlockRanges /\ r.StartBlock <= q.StartBlock
      BY <3>1, SplitWithin
    <3>3. QED
      BY <3>1, <3>2 DEF BlockRanges
  <2>5. QED
    BY <2>3, <2>4
<1>3. QED
  BY <1>1, <1>2

(* The re-run starts the life of every piece again: nothing pending or     *)
(* reported, no attempts, and a plan that starts at the resumed block.     *)
LEMMA RestartClean ==
    ASSUME FInv, Restart
    PROVE  JobsDisjoint' /\ Clean'
<1>1. ASSUME NEW m \in Modules
      PROVE  /\ ResumeFrom(m) \in 0 .. T
             /\ jobs'[m] = PlanJobs(ResumeFrom(m))
             /\ nextExpectedStartBlock'[m] = ResumeFrom(m)
  <2>1. ResumeFrom(m) \in 0 .. T
    <3>1. CASE kvFiles[m] = {}
      BY <3>1 DEF ResumeFrom, FInv, TypeOK
    <3>2. CASE kvFiles[m] # {}
      <4>1. Latest(m) \in kvFiles[m]
        BY <3>2, LatestFacts DEF FInv
      <4>2. Latest(m) \in SnapshotRecords
        BY <4>1 DEF FInv, TypeOK
      <4>3. Latest(m).end \in 0 .. T
        BY <4>2 DEF SnapshotRecords
      <4>4. QED
        BY <3>2, <4>3 DEF ResumeFrom
    <3>3. QED
      BY <3>1, <3>2
  <2>2. QED
    BY <2>1 DEF Restart, ReplannedJobs
<1>2. /\ ranges' = NoPending
      /\ attempts' = [m \in Modules |-> [r \in BlockRanges |-> 0]]
      /\ reported' = {}
  BY DEF Restart
<1>3. JobsDisjoint'
  BY <1>1, PlanFresh DEF JobsDisjoint
<1>4. NotRunClean'
  <2> SUFFICES ASSUME NEW m \in Modules, NEW r \in jobs'[m], NEW q \in Split(r, I)
               PROVE  ranges'[m][q] = 0 /\ Unmerged(m, q)'
    BY <1>2 DEF NotRunClean
  <2>1. r \in BlockRanges
    BY <1>1, PlanJobsInRanges
  <2>2. q \in BlockRanges
    BY <2>1, SplitWithin
  <2>3. ranges'[m][q] = 0
    BY <1>2, <2>2 DEF NoPending
  <2>4. q.StartBlock >= nextExpectedStartBlock'[m]
    BY <1>1, PlanFresh
  <2>5. QED
    BY <2>3, <2>4 DEF Unmerged
<1>5. ReportedClean' /\ PendingOnce'
  BY <1>2 DEF ReportedClean, PendingOnce, NoPending
<1>6. QED
  BY <1>3, <1>4, <1>5 DEF Clean

(* Every step keeps FDInv, when each job of a plan reports once.           *)
LEMMA FStepFDInv ==
    ASSUME MaxAttempts = 1
    PROVE  FDInv /\ [FNext]_fvars => FDInv'
<1> SUFFICES ASSUME FDInv, [FNext]_fvars PROVE FDInv'
  OBVIOUS
<1>1. FInv /\ JobsDisjoint /\ TypeOK
  BY DEF FDInv, FInv
<1>2. FInv'
  BY <1>1, FStepInv
(* Steps that abort the request keep the plan; Clean is not needed after. *)
<1>3. ASSUME NEW m \in Modules,
             SquashErrors(m) \/ LoadMissing(m) \/ WriteStateFails(m)
      PROVE  FDInv'
  <2>1. failed' = TRUE /\ jobs' = jobs
    BY <1>3 DEF SquashErrors, LoadMissing, WriteStateFails, Abort, envVars
  <2>2. QED
    BY <1>1, <1>2, <2>1 DEF FDInv, JobsDisjoint
<1>4. CASE Restart
  BY <1>1, <1>2, <1>4, RestartClean DEF FDInv, Restart
(* Every other step leaves failed and the plan alone, and runs only while *)
(* the request runs.                                                      *)
<1>5. ASSUME ~failed, failed' = failed, jobs' = jobs, Clean'
      PROVE  FDInv'
  BY <1>1, <1>2, <1>5 DEF FDInv, JobsDisjoint
<1>6. ASSUME ~failed PROVE NotRunClean /\ ReportedClean /\ PendingOnce /\ Clean
  BY <1>6 DEF FDInv, Clean
<1>7. ASSUME NEW m \in Modules, NEW r \in BlockRanges, Ok(RunJob(m, r))
      PROVE  FDInv'
  <2>1. ~failed /\ failed' = failed /\ jobs' = jobs
    BY <1>7 DEF Ok, RunJob, faultVars
  <2>2. /\ r \in jobs[m] /\ attempts[m][r] < MaxAttempts /\ <<m, r>> \notin reported
        /\ attempts' = [attempts EXCEPT ![m][r] = @ + 1]
        /\ reported' = reported \cup {<<m, r>>}
        /\ ranges' = ranges /\ nextExpectedStartBlock' = nextExpectedStartBlock
    BY <1>7 DEF Ok, RunJob, squashVars
  <2>3. Clean'
    BY <1>1, <1>6, <2>1, <2>2, ReportClean
  <2>4. QED
    BY <1>5, <2>1, <2>3
<1>8. ASSUME NEW m \in Modules, NEW r \in BlockRanges,
             NEW b \in r.StartBlock .. r.ExclusiveEndBlock - 1, RunJobEOF(m, r, b)
      PROVE  FDInv'
  <2>1. ~failed /\ failed' = failed /\ jobs' = jobs
    BY <1>8 DEF RunJobEOF, CanFault
  <2>2. /\ r \in jobs[m] /\ attempts[m][r] < MaxAttempts /\ <<m, r>> \notin reported
        /\ attempts' = [attempts EXCEPT ![m][r] = @ + 1]
        /\ reported' = reported \cup {<<m, r>>}
        /\ ranges' = ranges /\ nextExpectedStartBlock' = nextExpectedStartBlock
    BY <1>8 DEF RunJobEOF, squashVars
  <2>3. Clean'
    BY <1>1, <1>6, <2>1, <2>2, ReportClean
  <2>4. QED
    BY <1>5, <2>1, <2>3
<1>9. ASSUME NEW m \in Modules, NEW r \in BlockRanges, Ok(Squash(m, r))
      PROVE  FDInv'
  <2>1. ~failed /\ failed' = failed /\ jobs' = jobs
    BY <1>9 DEF Ok, Squash, faultVars
  <2>2. Clean'
    BY <1>1, <1>6, <1>9, <2>1, SquashClean DEF Ok
  <2>3. QED
    BY <1>5, <2>1, <2>2
(* The merge loop pops the head it merged, whether or not deleting its    *)
(* file fails.                                                             *)
<1>10. ASSUME NEW m \in Modules, NEW h \in BlockRanges, ~failed,
              failed' = failed, CanMerge(m, h),
              nextExpectedStartBlock' =
                 [nextExpectedStartBlock EXCEPT ![m] = h.ExclusiveEndBlock],
              ranges' = PopHead(m, h),
              jobs' = jobs, attempts' = attempts, reported' = reported
       PROVE  FDInv'
  <2>1. Clean'
    BY <1>1, <1>6, <1>10, MergeClean
  <2>2. QED
    BY <1>5, <1>10, <2>1
<1>11. ASSUME NEW m \in Modules, Ok(MergePartial(m) /\ HeadLoadable(m))
       PROVE  FDInv'
  <2>1. ~failed /\ failed' = failed
    BY <1>11 DEF Ok, faultVars
  <2>2. jobs' = jobs /\ attempts' = attempts /\ reported' = reported
    BY <1>11 DEF Ok, MergePartial, envVars
  <2>3. PICK h \in BlockRanges :
          /\ CanMerge(m, h)
          /\ nextExpectedStartBlock' =
                [nextExpectedStartBlock EXCEPT ![m] = h.ExclusiveEndBlock]
          /\ ranges' = PopHead(m, h)
    BY <1>11 DEF Ok, MergePartial
  <2>4. QED
    BY <1>10, <2>1, <2>2, <2>3
<1>12. ASSUME NEW m \in Modules, DeleteFails(m)
       PROVE  FDInv'
  <2>1. ~failed /\ failed' = failed
    BY <1>12 DEF DeleteFails, CanFault
  <2>2. jobs' = jobs /\ attempts' = attempts /\ reported' = reported
    BY <1>12 DEF DeleteFails, envVars
  <2>3. PICK h \in BlockRanges :
          /\ CanMerge(m, h)
          /\ nextExpectedStartBlock' =
                [nextExpectedStartBlock EXCEPT ![m] = h.ExclusiveEndBlock]
          /\ ranges' = PopHead(m, h)
    BY <1>12 DEF DeleteFails
  <2>4. QED
    BY <1>10, <2>1, <2>2, <2>3
(* SquashDone releases the lock and a stutter changes nothing.             *)
<1>13. CASE \/ \E m \in Modules : Ok(SquashDone(m))
            \/ UNCHANGED fvars
  <2>1. /\ failed' = failed /\ jobs' = jobs /\ ranges' = ranges
        /\ nextExpectedStartBlock' = nextExpectedStartBlock
        /\ attempts' = attempts /\ reported' = reported
    BY <1>13 DEF Ok, SquashDone, faultVars, fvars, vars, squashVars,
                 storageVars, envVars
  <2>2. ~failed => Clean'
    BY <1>6, <2>1 DEF Clean, NotRunClean, ReportedClean, PendingOnce, Unmerged
  <2>3. QED
    BY <1>1, <1>2, <2>1, <2>2 DEF FDInv, JobsDisjoint
<1>14. QED
  BY <1>3, <1>4, <1>7, <1>8, <1>9, <1>11, <1>12, <1>13 DEF FNext

(* FDInv holds in every state of the fault model when each job of a plan  *)
(* reports its success once.                                              *)
THEOREM FaultsDeliveryInvariant ==
    ASSUME MaxAttempts = 1
    PROVE  FSpec => []FDInv
<1>1. FInit => FDInv
  <2> SUFFICES ASSUME FInit PROVE FDInv
    OBVIOUS
  <2>1. FInv
    BY FInitInv
  <2>2. JobsDisjoint /\ Clean
    BY InitDInv DEF FInit, DInv
  <2>3. QED
    BY <2>1, <2>2 DEF FDInv
<1>. QED  BY <1>1, FStepFDInv, PTL DEF FSpec

(* LiveNoStaleHead (spec 4.F and 7.5): while the request runs, no range   *)
(* below nextExpectedStartBlock waits in a Squashable's list, under every *)
(* failure of a worker or of mergeAvailablePartials and after every       *)
(* re-run from storage, when each job of a plan reports its success once. *)
(* The re-run's empty list (NewSquasher) and fresh plan are what keep a   *)
(* range merged before the failure from being delivered again.            *)
THEOREM LiveNoStaleHeadInv ==
    ASSUME MaxAttempts = 1
    PROVE  FSpec => []LiveNoStaleHead
<1>1. FDInv => LiveNoStaleHead
  BY DEF FDInv, Clean, PendingOnce, LiveNoStaleHead, NoStaleHead, Pending,
         Unmerged
<1>. QED  BY <1>1, FaultsDeliveryInvariant, PTL
=============================================================================
