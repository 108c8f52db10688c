--------------------------- MODULE SquasherFaults ---------------------------
(***************************************************************************)
(* The Squasher of Squasher.tla with the failures its code handles, and    *)
(* the re-run of the request that spec 7.5 prescribes after one.           *)
(*                                                                         *)
(*  - A worker's stream may end with io.EOF instead of ErrStopBlockReached *)
(*    (src/pipeline/error.go:22): OnStreamTerminated still reports        *)
(*    success, but flushStores is not called, so only the boundaries the  *)
(*    stream crossed were flushed.                                        *)
(*  - In mergeAvailablePartials (src/orchestrator/squasher.go) the        *)
(*    context may be done at the top of the loop, LoadFrom or Merge may   *)
(*    fail, WriteState may fail after the merge, and DeletePartialFile    *)
(*    may fail (only logged).  Every other error ends Squash: the         *)
(*    deferred Unlock runs and the error is fatal to the request.         *)
(*  - The request is then run again: the Squasher is rebuilt from what    *)
(*    storage holds (the largest complete snapshot, spec 4.B) and the     *)
(*    plan is made again.  Only kvFiles and partialFiles survive.         *)
(*                                                                         *)
(* Failures other than a missing partial are bounded by MaxFaults.         *)
(***************************************************************************)
EXTENDS Squasher

CONSTANTS
    MaxFaults           \* bound: environment failures in one behaviour

ASSUME SquasherFaultsAssumption == MaxFaults \in Nat

VARIABLES
    failed,             \* Squash returned an error: the request is aborted
    faults              \* failures injected so far

faultVars == <<failed, faults>>
fvars == <<vars, faultVars>>

(* The latest complete snapshot on storage, and the block the re-run       *)
(* resumes at: its end, or the module's initial block when there is none. *)
Latest(m) == CHOOSE f \in kvFiles[m] : \A g \in kvFiles[m] : g.end <= f.end

-----------------------------------------------------------------------------
(* Mutants: plausible slips in the definition that follows each one.      *)
MutResumeFromMemory(m) == nextExpectedStartBlock[m]
MutNoPendingKept == ranges
MutReplannedJobsStale == jobs
-----------------------------------------------------------------------------

ResumeFrom(m) ==
    IF kvFiles[m] = {} THEN ModuleInitialBlock[m] ELSE Latest(m).end

(* The rebuilt Squashables start with nothing pending.                    *)
NoPending == [m \in Modules |-> [r \in BlockRanges |-> 0]]

(* The plan of the re-run covers what is left after the snapshot.        *)
ReplannedJobs == [m \in Modules |-> PlanJobs(ResumeFrom(m))]

(* LoadFrom finds the head's .partial file.                               *)
HeadLoadable(m) ==
    \A h \in BlockRanges : CanMerge(m, h) => h \in partialFiles[m]

CanFault == ~failed /\ faults < MaxFaults

(* A Squasher step that does not fail.                                    *)
Ok(A) == ~failed /\ A /\ UNCHANGED faultVars

(* The stream of job r ends with io.EOF after block b: the boundaries up  *)
(* to b were flushed while processing, the stop-block flush is skipped,   *)
(* and OnStreamTerminated returns nil, so success is reported.            *)
RunJobEOF(m, r, b) ==
    /\ CanFault
    /\ r \in jobs[m]
    /\ attempts[m][r] < MaxAttempts
    /\ <<m, r>> \notin reported
    /\ partialFiles' = [partialFiles EXCEPT ![m] =
                          @ \cup {p \in Split(r, I) : p.ExclusiveEndBlock <= b}]
    /\ attempts' = [attempts EXCEPT ![m][r] = @ + 1]
    /\ reported' = reported \cup {<<m, r>>}
    /\ faults' = faults + 1
    /\ UNCHANGED <<squashVars, kvFiles, modulesReadyUpToBlock, jobs, failed>>

(* Squash returns an error: the deferred Unlock releases the lock and the *)
(* request is aborted with the Squashable's state as it is.              *)
Abort == lock' = NoModule /\ failed' = TRUE

(* Squash returns an error with nothing changed: <-ctx.Done() is ready at *)
(* the top of the merge loop, or LoadFrom or Merge of a present .partial   *)
(* file fails (a storage error).  Both can happen whenever the loop runs,  *)
(* and their effect is the same.                                           *)
SquashErrors(m) ==
    /\ CanFault /\ lock = m
    /\ Abort /\ faults' = faults + 1
    /\ UNCHANGED <<ranges, nextExpectedStartBlock, targetReached, builder,
                   storageVars, envVars>>

(* LoadFrom of the head fails because its .partial file is missing.       *)
LoadMissing(m) ==
    /\ ~failed /\ lock = m
    /\ ~HeadLoadable(m)
    /\ Abort
    /\ UNCHANGED <<ranges, nextExpectedStartBlock, targetReached, builder,
                   storageVars, envVars, faults>>

(* The head is merged and nextExpectedStartBlock advanced, then           *)
(* WriteState fails: the head is not popped and no snapshot is written.   *)
WriteStateFails(m) ==
    /\ CanFault /\ lock = m
    /\ \E h \in BlockRanges :
          /\ CanMerge(m, h) /\ h \in partialFiles[m]
          /\ h.ExclusiveEndBlock % I = 0
          /\ builder' = [builder EXCEPT ![m] = Append(@, h)]
          /\ nextExpectedStartBlock' =
                [nextExpectedStartBlock EXCEPT ![m] = h.ExclusiveEndBlock]
    /\ Abort /\ faults' = faults + 1
    /\ UNCHANGED <<ranges, targetReached, storageVars, envVars>>

(* A non-boundary merge whose DeletePartialFile fails: the error is only  *)
(* logged, the file stays, and the loop goes on.                          *)
DeleteFails(m) ==
    /\ CanFault /\ lock = m
    /\ \E h \in BlockRanges :
          /\ CanMerge(m, h) /\ h \in partialFiles[m]
          /\ h.ExclusiveEndBlock % I # 0
          /\ builder' = [builder EXCEPT ![m] = Append(@, h)]
          /\ nextExpectedStartBlock' =
                [nextExpectedStartBlock EXCEPT ![m] = h.ExclusiveEndBlock]
          /\ ranges' = PopHead(m, h)
          /\ IF h.ExclusiveEndBlock = T
             THEN /\ targetReached' = [targetReached EXCEPT ![m] = TRUE]
                  /\ modulesReadyUpToBlock' = [modulesReadyUpToBlock EXCEPT
                        ![m] = MaxOf(@, h.ExclusiveEndBlock)]
             ELSE UNCHANGED <<targetReached, modulesReadyUpToBlock>>
    /\ faults' = faults + 1
    /\ UNCHANGED <<lock, kvFiles, partialFiles, envVars, failed>>

(* The request is run again: NewSquasher from the latest snapshot on      *)
(* storage (loaded into the builder) and a new plan; the files survive.   *)
Restart ==
    /\ failed
    /\ nextExpectedStartBlock' = [m \in Modules |-> ResumeFrom(m)]
    /\ builder' = [m \in Modules |->
                     IF kvFiles[m] = {} THEN <<>> ELSE Latest(m).content]
    /\ ranges' = NoPending
    /\ targetReached' = [m \in Modules |-> FALSE]
    /\ modulesReadyUpToBlock' = [m \in Modules |-> ResumeFrom(m)]
    /\ lock' = NoModule
    /\ jobs' = ReplannedJobs
    /\ attempts' = [m \in Modules |-> [r \in BlockRanges |-> 0]]
    /\ reported' = {}
    /\ failed' = FALSE
    /\ UNCHANGED <<kvFiles, partialFiles, faults>>

FInit == Init /\ failed = FALSE /\ faults = 0

FNext ==
    \/ \E m \in Modules :
          \/ \E r \in BlockRanges :
                \/ Ok(RunJob(m, r))
                \/ Ok(Squash(m, r))
                \/ \E b \in r.StartBlock .. r.ExclusiveEndBlock - 1 :
                      RunJobEOF(m, r, b)
          \/ Ok(MergePartial(m) /\ HeadLoadable(m))
          \/ Ok(SquashDone(m))
          \/ SquashErrors(m) \/ LoadMissing(m)
          \/ WriteStateFails(m) \/ DeleteFails(m)
    \/ Restart

(* As in Squasher, plus: a missing partial is found and the re-run is     *)
(* started.  The failures themselves are not fair: they may not happen.   *)
FFairness ==
    /\ \A m \in Modules :
          /\ WF_fvars(\E r \in BlockRanges : Ok(RunJob(m, r)))
          /\ WF_fvars(\E r \in BlockRanges : Ok(Squash(m, r)))
          /\ WF_fvars(Ok(MergePartial(m) /\ HeadLoadable(m)))
          /\ WF_fvars(Ok(SquashDone(m)))
          /\ WF_fvars(LoadMissing(m))
    /\ WF_fvars(Restart)

FSpec == FInit /\ [][FNext]_fvars
FFairSpec == FSpec /\ FFairness

-----------------------------------------------------------------------------
(* MergedContiguous and SnapshotExact of Squasher hold in every state,    *)
(* failed or not.  The two below are about the request that is running,   *)
(* not the one that was aborted.                                          *)

(* No range below nextExpectedStartBlock waits in the running request's   *)
(* list: the re-run starts with an empty list, so the plan's jobs cannot  *)
(* deliver a range a second time.                                         *)
LiveNoStaleHead == ~failed => NoStaleHead

(* Each partial waiting to be merged has its file: a job reported as a     *)
(* success has written every piece (spec 6: success implies the partial   *)
(* was written).                                                          *)
LivePendingLoadable == ~failed => PendingLoadable

(* Whatever fails (a bounded number of times), the re-runs eventually     *)
(* merge every store up to the target with nothing pending.               *)
FSquashCompletes ==
    <>[](~failed /\ \A m \in Modules :
            nextExpectedStartBlock[m] = T /\ Pending(m) = {})
=============================================================================
