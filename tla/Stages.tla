------------------------------ MODULE Stages ------------------------------
(***************************************************************************)
(* The segment x stage scheduling matrix (src/orchestrator/stage/stages.go)*)
(* with the workers and the merging that complete its units.               *)
(*                                                                         *)
(* Stage st holds modules whose inputs are all in lower stages; a unit     *)
(* (segment, stage) is the work of one stage over one segment.  NextJob    *)
(* hands out the first schedulable unit, scanning segments upwards and,    *)
(* inside a segment, stages downwards; a unit of a higher stage may only   *)
(* run once the lower stages' stores are complete up to its segment.       *)
(* Segments are global indices (block / Interval); the matrix row of       *)
(* segment k is k - segmentOffset, and rows are allocated by growSegments. *)
(***************************************************************************)
EXTENDS Naturals, Sequences

CONSTANTS
    Interval,          \* the save interval of the request's segmenter
    StageInitBlock,    \* lowestStageInitBlock of each stage, from NewStages
    ExclusiveEndBlock  \* the end of the backfill: the request's start block

NumStages == Len(StageInitBlock)
StageIdx == 0 .. NumStages - 1

ASSUME StagesAssumption ==
    /\ Interval \in Nat \ {0}
    /\ StageInitBlock \in Seq(Nat) /\ StageInitBlock # <<>>
    /\ ExclusiveEndBlock \in Nat
    /\ \A st \in 1 .. NumStages : StageInitBlock[st] < ExclusiveEndBlock

(* UnitState values.                                                      *)
UnitPending == "pending"
UnitScheduled == "scheduled"
UnitPartialPresent == "partialPresent"
UnitCompleted == "completed"
UnitStates == {UnitPending, UnitScheduled, UnitPartialPresent, UnitCompleted}

VARIABLE segmentStates  \* segmentStates[row][stage + 1], row = segment - offset + 1

(* Segmenter indices: the stage segmenter's FirstIndex (WithInitialBlock) *)
(* and the request segmenter's first and last index.                      *)
FirstIndex(st) == StageInitBlock[st + 1] \div Interval
SetMin(S) == CHOOSE x \in S : \A y \in S : x <= y
GlobalFirstIndex == SetMin({FirstIndex(st) : st \in StageIdx})
LastIndex == (ExclusiveEndBlock - 1) \div Interval

(* segmentOffset = IndexForStartBlock(LowestInitBlock()).                 *)
segmentOffset == GlobalFirstIndex

Units == [Segment : GlobalFirstIndex .. LastIndex, Stage : StageIdx]

(* The units a stage really has: from its own first segment to the last.  *)
StageUnits == {u \in Units : u.Segment >= FirstIndex(u.Stage)}

Row(w) == w.Segment - segmentOffset + 1

(* GetState: the unit's cell of the matrix.                               *)
GetState(w) == segmentStates[Row(w)][w.Stage + 1]

(* The state NextJob reads for u, once its row has been allocated.        *)
ScanState(w) ==
    IF Row(w) \in 1 .. Len(segmentStates) THEN GetState(w) ELSE UnitPending

-----------------------------------------------------------------------------
(* Mutants: plausible slips in the helper that follows each one.          *)
MutDependenciesNoCheck(unit) == TRUE
MutGrowSegmentsNone(n) == n
MutPendingRowShort == [st \in 1 .. NumStages - 1 |-> UnitPending]
MutSchedulableAnyState(cand) ==
    /\ cand.Segment >= FirstIndex(cand.Stage)
    /\ IF cand.Segment <= FirstIndex(cand.Stage) \/ cand.Stage = 0 THEN TRUE
       ELSE \A i \in 0 .. cand.Stage - 1 :
               ScanState([Segment |-> cand.Segment - 1, Stage |-> i]) = UnitCompleted
MutMergedAnyOrder(u) ==
    /\ Row(u) <= Len(segmentStates)
    /\ GetState(u) = UnitPartialPresent
    /\ segmentStates' = [segmentStates EXCEPT ![Row(u)][u.Stage + 1] =
                            UnitCompleted]
-----------------------------------------------------------------------------

(* dependenciesCompleted: a unit at or before its stage's first segment,  *)
(* or of stage 0, is free; otherwise every lower stage must have          *)
(* completed the previous segment.                                        *)
dependenciesCompleted(unit) ==
    IF unit.Segment <= FirstIndex(unit.Stage) \/ unit.Stage = 0 THEN TRUE
    ELSE \A i \in 0 .. unit.Stage - 1 :
            ScanState([Segment |-> unit.Segment - 1, Stage |-> i]) = UnitCompleted

(* growSegments: the number of rows after one call on n rows.             *)
growSegments(n) == IF n = 0 THEN 2 ELSE 2 * n

(* One iteration of the NextJob loop at row k: it grows the matrix once   *)
(* if row k is missing (len(segmentStates) <= segmentIdx - segmentOffset). *)
ScanGrow(before, k) == IF before <= k THEN growSegments(before) ELSE before

(* The rows the NextJob loop has allocated once it has looked at row k.   *)
RowsAfterScan[k \in Nat] ==
    IF k = 0 THEN ScanGrow(Len(segmentStates), 0)
    ELSE ScanGrow(RowsAfterScan[k - 1], k)

PendingRow == [st \in 1 .. NumStages |-> UnitPending]

(* The matrix extended with pending rows up to n rows.                    *)
Grown(n) ==
    [r \in 1 .. n |->
        IF r <= Len(segmentStates) THEN segmentStates[r] ELSE PendingRow]

(* The loop body's conditions for handing out unit u.                     *)
Schedulable(cand) ==
    /\ ScanState(cand) = UnitPending
    /\ cand.Segment >= FirstIndex(cand.Stage)
    /\ dependenciesCompleted(cand)

(* The unit the loop returns: lowest segment, and in it the highest stage. *)
IsFirstSchedulable(u) ==
    /\ Schedulable(u)
    /\ \A v \in Units :
          Schedulable(v) =>
              \/ u.Segment < v.Segment
              \/ u.Segment = v.Segment /\ u.Stage >= v.Stage

-----------------------------------------------------------------------------
(* NewStages: no row allocated yet.                                       *)
Init == segmentStates = <<>>

(* NextJob returns u: the loop has grown the matrix up to u's segment,    *)
(* and markSegmentScheduled marks u scheduled.                            *)
NextJob(u) ==
    /\ IsFirstSchedulable(u)
    /\ segmentStates' =
          [Grown(RowsAfterScan[Row(u) - 1]) EXCEPT ![Row(u)][u.Stage + 1] =
              UnitScheduled]

(* NextJob returns nothing: the loop ran past LastIndex, growing the      *)
(* matrix once more at LastIndex + 1 if needed.                           *)
NextJobNone ==
    /\ ~\E u \in Units : Schedulable(u)
    /\ segmentStates' = Grown(RowsAfterScan[LastIndex + 1 - segmentOffset])

(* A worker finishes the job of u and its partial files are on storage    *)
(* (MarkSegmentPartialPresent).                                           *)
WorkerDone(u) ==
    /\ Row(u) <= Len(segmentStates)
    /\ GetState(u) = UnitScheduled
    /\ segmentStates' = [segmentStates EXCEPT ![Row(u)][u.Stage + 1] =
                            UnitPartialPresent]

(* The stage's stores merge u's partials once the previous segment of the *)
(* same stage is merged (merging is in block order): MarkSegmentMerging   *)
(* then MarkSegmentCompleted.                                             *)
Merged(u) ==
    /\ Row(u) <= Len(segmentStates)
    /\ GetState(u) = UnitPartialPresent
    /\ \/ u.Segment = FirstIndex(u.Stage)
       \/ ScanState([Segment |-> u.Segment - 1, Stage |-> u.Stage]) = UnitCompleted
    /\ segmentStates' = [segmentStates EXCEPT ![Row(u)][u.Stage + 1] =
                            UnitCompleted]

Next ==
    \/ \E u \in Units : NextJob(u) \/ WorkerDone(u) \/ Merged(u)
    \/ NextJobNone

(* The scheduler calls NextJob whenever a worker is free, and every       *)
(* dispatched job eventually finishes and is merged.                      *)
Fairness ==
    /\ WF_segmentStates(\E u \in Units : NextJob(u))
    /\ \A u \in Units : WF_segmentStates(WorkerDone(u))
    /\ \A u \in Units : WF_segmentStates(Merged(u))

Spec == Init /\ [][Next]_segmentStates
FairSpec == Spec /\ Fairness

-----------------------------------------------------------------------------
TypeOK == segmentStates \in Seq([1 .. NumStages -> UnitStates])

(* The state of a unit, pending where no row is allocated.                *)
StateOf(u) == ScanState(u)

(* I3 for the matrix: a unit of a higher stage is handed out only when    *)
(* every lower stage has completed all of its segments before the unit's  *)
(* segment, i.e. its input stores are complete up to the unit's start.    *)
DependenciesMet ==
    \A u \in Units :
        StateOf(u) # UnitPending =>
            \A v \in StageUnits :
                v.Stage < u.Stage /\ v.Segment < u.Segment =>
                    StateOf(v) = UnitCompleted

Rank(s) ==
    CASE s = UnitPending -> 0 [] s = UnitScheduled -> 1
      [] s = UnitPartialPresent -> 2 [] s = UnitCompleted -> 3

(* No unit ever goes back (a completed segment is never rescheduled, a    *)
(* scheduled one never handed out twice, I4), and growing the matrix      *)
(* never loses a row.                                                     *)
UnitsOnlyAdvance ==
    [][/\ Len(segmentStates') >= Len(segmentStates)
       /\ \A u \in Units :
             Row(u) <= Len(segmentStates) =>
                Rank(StateOf(u)') >= Rank(StateOf(u))
       /\ \A u \in Units :
             StateOf(u)' = UnitScheduled /\ StateOf(u) # UnitScheduled =>
                StateOf(u) = UnitPending]_segmentStates

(* Every unit of every stage is eventually completed: the backfill ends.  *)
AllUnitsCompleted ==
    <>(\A u \in StageUnits : StateOf(u) = UnitCompleted)
=============================================================================
