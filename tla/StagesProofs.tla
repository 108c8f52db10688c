---------------------------- MODULE StagesProofs ----------------------------
(***************************************************************************)
(* Proofs about the Stages matrix (stages.go), for every interval, end     *)
(* block and list of stage initial blocks.                                 *)
(*                                                                         *)
(* RowsAfterScan, the number of rows the NextJob loop has allocated, is a  *)
(* recursive function of the row index; NatInductiveDef gives its         *)
(* defining equations, and the facts about it are proved by taking the     *)
(* least counterexample (WFMin on Nat).                                    *)
(*                                                                         *)
(* DependenciesMet is not inductive by itself: dependenciesCompleted only  *)
(* looks at the previous segment of each lower stage, and that says the   *)
(* earlier segments are complete only because a stage's units are merged  *)
(* in block order (MergedInOrder) and no unit before its stage's first    *)
(* segment is ever handed out (PendingBeforeFirst).  It holds when a       *)
(* higher stage starts no later than a lower one (StartOrdered); the run   *)
(* stages_later_stage shows it fails otherwise.                            *)
(***************************************************************************)
EXTENDS Stages, NaturalsInduction, WellFoundedInduction, TLAPS

(* A stage with a higher index starts in the same segment as, or an       *)
(* earlier segment than, every lower stage: the case where every module    *)
(* of the request has the same initial block.                             *)
StartOrdered ==
    \A s1, s2 \in StageIdx : s1 < s2 => FirstIndex(s2) <= FirstIndex(s1)

(* The unit of the same stage in the previous segment.                    *)
Prev(w) == [Segment |-> w.Segment - 1, Stage |-> w.Stage]

(* No unit before its stage's first segment ever leaves UnitPending.      *)
PendingBeforeFirst ==
    \A u \in Units : u.Segment < FirstIndex(u.Stage) => StateOf(u) = UnitPending

(* A stage's units complete in segment order: a completed unit after the  *)
(* stage's first segment has a completed predecessor.                     *)
MergedInOrder ==
    \A u \in Units :
        StateOf(u) = UnitCompleted /\ u.Segment > FirstIndex(u.Stage) =>
            StateOf(Prev(u)) = UnitCompleted

SInv == TypeOK /\ PendingBeforeFirst /\ MergedInOrder /\ DependenciesMet

(* A matrix row, and a unit's cell in any matrix m (ScanState on m).      *)
RowT == [1 .. NumStages -> UnitStates]
Cell(m, w) == IF Row(w) \in 1 .. Len(m) THEN m[Row(w)][w.Stage + 1] ELSE UnitPending
SetCell(m, u, x) == [m EXCEPT ![Row(u)][u.Stage + 1] = x]

-----------------------------------------------------------------------------
(* Arithmetic lemmas.                                                     *)

(* Every non-empty set of naturals has a least element.                   *)
LEMMA NatMin ==
  ASSUME NEW S \in SUBSET Nat, S # {}
  PROVE  \E x \in S : \A y \in S : x <= y
<1>1. \E x \in S : \A y \in S : ~(<<y, x>> \in OpToRel(<, Nat))
  BY NatLessThanWellFounded, WFMin
<1>2. PICK x \in S : \A y \in S : ~(<<y, x>> \in OpToRel(<, Nat))
  BY <1>1
<1>3. ASSUME NEW y \in S PROVE x <= y
  <2>1. ~(<<y, x>> \in OpToRel(<, Nat))
    BY <1>2
  <2>2. <<y, x>> \in Nat \X Nat
    OBVIOUS
  <2>3. ~(y < x)
    BY <2>1, <2>2, Zenon DEF OpToRel
  <2>4. QED  BY <2>3
<1>4. QED  BY <1>3

(* Induction over a set of naturals: a set that holds 0 and is closed     *)
(* under successor holds every natural.                                   *)
LEMMA SetInduction ==
  ASSUME NEW P \in SUBSET Nat, 0 \in P, \A n \in P : n + 1 \in P
  PROVE  Nat \subseteq P
<1> SUFFICES ASSUME Nat \ P # {} PROVE FALSE
  OBVIOUS
<1>1. PICK x \in Nat \ P : \A y \in Nat \ P : x <= y
  BY NatMin
<1>2. x # 0 /\ x - 1 \in Nat
  BY <1>1
<1>3. x - 1 \in P
  BY <1>1, <1>2
<1>4. QED
  BY <1>1, <1>3

-----------------------------------------------------------------------------
(* Facts about the constants.                                             *)

LEMMA NumStagesPos == NumStages \in Nat \ {0}
BY StagesAssumption DEF NumStages

LEMMA FirstIndexType ==
  ASSUME NEW st \in StageIdx
  PROVE  /\ FirstIndex(st) \in Nat
         /\ FirstIndex(st) <= LastIndex
         /\ LastIndex \in Nat
<1>1. st + 1 \in 1 .. NumStages
  BY NumStagesPos DEF StageIdx
<1>2. StageInitBlock[st + 1] \in Nat /\ StageInitBlock[st + 1] <= ExclusiveEndBlock - 1
  BY <1>1, StagesAssumption DEF NumStages
<1>3. ExclusiveEndBlock - 1 \in Nat
  BY <1>2, StagesAssumption
<1>4. \A a, b \in Nat, c \in Nat \ {0} : a <= b => a \div c <= b \div c
  OBVIOUS
<1>5. QED
  BY <1>2, <1>3, <1>4, StagesAssumption DEF FirstIndex, LastIndex

LEMMA GlobalFirstIndexMin ==
  /\ GlobalFirstIndex \in Nat
  /\ \A st \in StageIdx : GlobalFirstIndex <= FirstIndex(st)
  /\ \E st \in StageIdx : GlobalFirstIndex = FirstIndex(st)
<1> DEFINE S == {FirstIndex(st) : st \in StageIdx}
<1>1. S \in SUBSET Nat /\ S # {}
  BY FirstIndexType, NumStagesPos DEF StageIdx
<1>2. \E x \in S : \A y \in S : x <= y
  BY <1>1, NatMin
<1>3. GlobalFirstIndex \in S /\ \A y \in S : GlobalFirstIndex <= y
  BY <1>2 DEF GlobalFirstIndex, SetMin
<1>4. QED
  BY <1>1, <1>3

LEMMA UnitFacts ==
  ASSUME NEW w \in Units
  PROVE  /\ w.Segment \in Nat
         /\ GlobalFirstIndex <= w.Segment /\ w.Segment <= LastIndex
         /\ w.Stage \in StageIdx /\ w.Stage + 1 \in 1 .. NumStages
         /\ Row(w) \in Nat \ {0}
         /\ w = [Segment |-> w.Segment, Stage |-> w.Stage]
BY GlobalFirstIndexMin, NumStagesPos DEF Units, Row, segmentOffset, StageIdx
-----------------------------------------------------------------------------
(* The rows the NextJob loop allocates.                                   *)

LEMMA RowsDef ==
  NatInductiveDefConclusion(RowsAfterScan, ScanGrow(Len(segmentStates), 0), ScanGrow)
<1>1. NatInductiveDefHypothesis(RowsAfterScan, ScanGrow(Len(segmentStates), 0), ScanGrow)
  BY Zenon DEF NatInductiveDefHypothesis, RowsAfterScan
<1>2. QED  BY Zenon, <1>1, NatInductiveDef

(* After looking at row k the loop has allocated more than k rows, and    *)
(* never fewer than the matrix had: row k is then in the matrix.          *)
RowsOK(k) ==
    /\ RowsAfterScan[k] \in Nat
    /\ RowsAfterScan[k] > k
    /\ RowsAfterScan[k] >= Len(segmentStates)

LEMMA RowsFacts ==
  ASSUME TypeOK
  PROVE  \A k \in Nat : RowsOK(k)
<1>0. /\ RowsAfterScan[0] = ScanGrow(Len(segmentStates), 0)
      /\ \A n \in Nat : RowsAfterScan[n + 1] = ScanGrow(RowsAfterScan[n], n + 1)
  BY RowsDef DEF NatInductiveDefConclusion
<1>1. Len(segmentStates) \in Nat
  BY DEF TypeOK
<1>2. RowsOK(0)
  BY <1>0, <1>1 DEF RowsOK, ScanGrow, growSegments
<1>3. ASSUME NEW n \in Nat, RowsOK(n) PROVE RowsOK(n + 1)
  <2> DEFINE b == RowsAfterScan[n]
  <2>1. b \in Nat /\ b > n /\ b >= Len(segmentStates)
    BY <1>3 DEF RowsOK
  <2>2. RowsAfterScan[n + 1] = ScanGrow(b, n + 1)
    BY <1>0
  <2>3. CASE b <= n + 1
    <3>1. b = n + 1
      BY <2>1, <2>3
    <3>2. RowsAfterScan[n + 1] = 2 * (n + 1)
      BY <2>2, <2>3, <3>1 DEF ScanGrow, growSegments
    <3>3. QED  BY <2>1, <3>1, <3>2 DEF RowsOK
  <2>4. CASE ~(b <= n + 1)
    <3>1. RowsAfterScan[n + 1] = b
      BY <2>2, <2>4 DEF ScanGrow
    <3>2. QED  BY <2>1, <2>4, <3>1 DEF RowsOK
  <2>5. QED  BY <2>3, <2>4
<1>4. Nat \subseteq {k \in Nat : RowsOK(k)}
  <2> DEFINE P == {k \in Nat : RowsOK(k)}
  <2>1. P \in SUBSET Nat /\ 0 \in P
    BY <1>2
  <2>2. \A n \in P : n + 1 \in P
    BY <1>3
  <2>3. QED  BY <2>1, <2>2, SetInduction, Zenon
<1>5. QED  BY <1>4

-----------------------------------------------------------------------------
(* The cells of a matrix.                                                 *)

LEMMA StateOfCell ==
  ASSUME NEW w
  PROVE  /\ StateOf(w) = Cell(segmentStates, w)
         /\ StateOf(w)' = Cell(segmentStates', w)
BY DEF StateOf, ScanState, GetState, Cell

(* Grown(n) adds pending rows and keeps every cell.                       *)
LEMMA CellGrown ==
  ASSUME TypeOK, NEW n \in Nat, n >= Len(segmentStates)
  PROVE  /\ Grown(n) \in Seq(RowT)
         /\ Len(Grown(n)) = n
         /\ \A w \in Units : Cell(Grown(n), w) = Cell(segmentStates, w)
<1>1. PendingRow \in RowT
  BY DEF PendingRow, RowT, UnitStates
<1>2. Grown(n) \in [1 .. n -> RowT]
  BY <1>1 DEF Grown, TypeOK, RowT
<1>3. Grown(n) \in Seq(RowT) /\ Len(Grown(n)) = n
  BY <1>2
<1>4. ASSUME NEW w \in Units PROVE Cell(Grown(n), w) = Cell(segmentStates, w)
  <2>1. Row(w) \in Nat \ {0} /\ w.Stage + 1 \in 1 .. NumStages
    BY UnitFacts
  <2>2. CASE Row(w) <= Len(segmentStates)
    BY <1>3, <2>1, <2>2 DEF Cell, Grown
  <2>3. CASE Row(w) > Len(segmentStates) /\ Row(w) <= n
    BY <1>3, <2>1, <2>3 DEF Cell, Grown, PendingRow
  <2>4. CASE Row(w) > n
    BY <1>3, <2>1, <2>4 DEF Cell
  <2>5. QED  BY <2>1, <2>2, <2>3, <2>4
<1>5. QED  BY <1>3, <1>4

(* EXCEPT leaves the other arguments of a function alone.               *)
LEMMA ExceptOther ==
  ASSUME NEW f, NEW a, NEW b \in DOMAIN f, a # b, NEW x
  PROVE  [f EXCEPT ![a] = x][b] = f[b]
OBVIOUS

(* Setting the cell of u changes u's state and no other unit's.           *)
LEMMA CellExcept ==
  ASSUME NEW m \in Seq(RowT), NEW u \in Units, Row(u) \in 1 .. Len(m),
         NEW x \in UnitStates
  PROVE  /\ SetCell(m, u, x) \in Seq(RowT)
         /\ Len(SetCell(m, u, x)) = Len(m)
         /\ \A w \in Units :
               Cell(SetCell(m, u, x), w) = IF w = u THEN x ELSE Cell(m, w)
<1> DEFINE m2 == SetCell(m, u, x)
<1> USE DEF SetCell
<1>1. u.Stage + 1 \in 1 .. NumStages
  BY UnitFacts
<1>2. m2 \in Seq(RowT) /\ Len(m2) = Len(m)
  <2>1. m2 \in [1 .. Len(m) -> RowT]
    BY <1>1 DEF RowT
  <2>2. QED  BY <2>1
<1>3. ASSUME NEW w \in Units PROVE Cell(m2, w) = IF w = u THEN x ELSE Cell(m, w)
  <2>1. Row(w) \in Nat \ {0} /\ w.Stage + 1 \in 1 .. NumStages
    BY UnitFacts
  <2>2. CASE w = u
    <3>1. m[Row(u)] \in [1 .. NumStages -> UnitStates]
      BY DEF RowT
    <3>2. m2[Row(u)] = [m[Row(u)] EXCEPT ![u.Stage + 1] = x]
      BY DEF RowT
    <3>3. m2[Row(u)][u.Stage + 1] = x
      BY <1>1, <3>1, <3>2
    <3>4. Row(u) \in 1 .. Len(m2)
      BY <1>2
    <3>5. QED  BY <2>2, <3>3, <3>4 DEF Cell
  <2>3. CASE w # u /\ Row(w) = Row(u)
    <3>1. w.Stage # u.Stage
      <4>1. w.Segment \in Nat /\ u.Segment \in Nat /\ segmentOffset \in Nat
        BY UnitFacts, GlobalFirstIndexMin DEF segmentOffset
      <4>2. w.Segment = u.Segment
        BY <2>3, <4>1 DEF Row
      <4>3. w = [Segment |-> w.Segment, Stage |-> w.Stage]
            /\ u = [Segment |-> u.Segment, Stage |-> u.Stage]
        BY UnitFacts
      <4>4. QED  BY <2>3, <4>2, <4>3
    <3>2. m[Row(u)] \in [1 .. NumStages -> UnitStates]
      BY DEF RowT
    <3>3. m2[Row(w)] = [m[Row(u)] EXCEPT ![u.Stage + 1] = x]
      BY <2>3 DEF RowT
    <3>4. w.Stage + 1 # u.Stage + 1
      BY <3>1, UnitFacts DEF StageIdx
    <3>5. m2[Row(w)][w.Stage + 1] = m[Row(u)][w.Stage + 1]
      <4>1. w.Stage + 1 \in DOMAIN m[Row(u)]
        BY <2>1, <3>2
      <4>2. QED  BY <3>3, <3>4, <4>1, ExceptOther
    <3>6. m2[Row(w)][w.Stage + 1] = m[Row(w)][w.Stage + 1]
      BY <2>3, <3>5
    <3>7. QED  BY <1>2, <2>3, <3>6 DEF Cell
  <2>4. CASE Row(w) # Row(u)
    BY <1>2, <2>1, <2>4 DEF Cell, RowT
  <2>5. QED  BY <2>2, <2>3, <2>4
<1>4. QED  BY <1>2, <1>3
-----------------------------------------------------------------------------
(* What each action does to the units' states.                            *)

(* The step sets u to x, leaves every other unit, and keeps every row.    *)
Effect(u, x) ==
    /\ segmentStates' \in Seq(RowT)
    /\ Len(segmentStates') >= Len(segmentStates)
    /\ \A w \in Units : StateOf(w)' = IF w = u THEN x ELSE StateOf(w)

(* The step changes no unit's state.                                      *)
Keeps ==
    /\ segmentStates' \in Seq(RowT)
    /\ Len(segmentStates') >= Len(segmentStates)
    /\ \A w \in Units : StateOf(w)' = StateOf(w)

LEMMA SetCellEffect ==
  ASSUME NEW m \in Seq(RowT), Len(m) >= Len(segmentStates),
         \A w \in Units : Cell(m, w) = StateOf(w),
         NEW u \in Units, Row(u) \in 1 .. Len(m), NEW x \in UnitStates,
         segmentStates' = SetCell(m, u, x)
  PROVE  Effect(u, x)
<1> DEFINE m2 == SetCell(m, u, x)
<1>1. /\ m2 \in Seq(RowT)
      /\ Len(m2) = Len(m)
      /\ \A w \in Units : Cell(m2, w) = IF w = u THEN x ELSE Cell(m, w)
  BY CellExcept
<1>2. ASSUME NEW w \in Units
      PROVE  StateOf(w)' = IF w = u THEN x ELSE StateOf(w)
  <2>1. StateOf(w)' = Cell(m2, w)
    BY StateOfCell
  <2>2. QED  BY <1>1, <2>1
<1>3. QED  BY <1>1, <1>2 DEF Effect

LEMMA NextJobEffect ==
  ASSUME TypeOK, NEW u \in Units, NextJob(u)
  PROVE  Effect(u, UnitScheduled) /\ StateOf(u) = UnitPending
<1> DEFINE N == RowsAfterScan[Row(u) - 1]
<1>1. Row(u) - 1 \in Nat
  BY UnitFacts
<1>2. N \in Nat /\ N >= Row(u) /\ N >= Len(segmentStates)
  BY <1>1, RowsFacts, UnitFacts DEF RowsOK
<1>3. /\ Grown(N) \in Seq(RowT)
      /\ Len(Grown(N)) = N
      /\ \A w \in Units : Cell(Grown(N), w) = Cell(segmentStates, w)
  BY <1>2, CellGrown
<1>4. \A w \in Units : Cell(Grown(N), w) = StateOf(w)
  BY <1>3, StateOfCell
<1>5. segmentStates' = SetCell(Grown(N), u, UnitScheduled)
  BY DEF NextJob, SetCell
<1>6. Row(u) \in 1 .. Len(Grown(N)) /\ Len(Grown(N)) >= Len(segmentStates)
  BY <1>2, <1>3, UnitFacts
<1>7. Effect(u, UnitScheduled)
  BY <1>3, <1>4, <1>5, <1>6, SetCellEffect DEF UnitStates
<1>8. StateOf(u) = UnitPending
  BY DEF NextJob, IsFirstSchedulable, Schedulable, StateOf
<1>9. QED  BY <1>7, <1>8

LEMMA NextJobNoneEffect ==
  ASSUME TypeOK, NextJobNone
  PROVE  Keeps
<1> DEFINE N == RowsAfterScan[LastIndex + 1 - segmentOffset]
<1>1. LastIndex + 1 - segmentOffset \in Nat
  BY GlobalFirstIndexMin, FirstIndexType DEF segmentOffset
<1>2. N \in Nat /\ N >= Len(segmentStates)
  BY <1>1, RowsFacts DEF RowsOK
<1>3. /\ Grown(N) \in Seq(RowT)
      /\ Len(Grown(N)) = N
      /\ \A w \in Units : Cell(Grown(N), w) = Cell(segmentStates, w)
  BY <1>2, CellGrown
<1>4. segmentStates' = Grown(N)
  BY DEF NextJobNone
<1>5. QED  BY <1>2, <1>3, <1>4, StateOfCell DEF Keeps

LEMMA WorkerDoneEffect ==
  ASSUME TypeOK, NEW u \in Units, WorkerDone(u)
  PROVE  Effect(u, UnitPartialPresent) /\ StateOf(u) = UnitScheduled
<1>1. Row(u) \in 1 .. Len(segmentStates)
  BY UnitFacts DEF WorkerDone
<1>2. Effect(u, UnitPartialPresent)
  <2>1. segmentStates' = SetCell(segmentStates, u, UnitPartialPresent)
    BY DEF WorkerDone, SetCell
  <2>2. segmentStates \in Seq(RowT)
    BY DEF TypeOK, RowT
  <2>3. \A w \in Units : Cell(segmentStates, w) = StateOf(w)
    BY StateOfCell
  <2>4. QED  BY <1>1, <2>1, <2>2, <2>3, SetCellEffect DEF UnitStates
<1>3. StateOf(u) = UnitScheduled
  BY <1>1 DEF WorkerDone, StateOf, ScanState
<1>4. QED  BY <1>2, <1>3

LEMMA MergedEffect ==
  ASSUME TypeOK, NEW u \in Units, Merged(u)
  PROVE  /\ Effect(u, UnitCompleted)
         /\ StateOf(u) = UnitPartialPresent
         /\ u.Segment = FirstIndex(u.Stage) \/ StateOf(Prev(u)) = UnitCompleted
<1>1. Row(u) \in 1 .. Len(segmentStates)
  BY UnitFacts DEF Merged
<1>2. Effect(u, UnitCompleted)
  <2>1. segmentStates' = SetCell(segmentStates, u, UnitCompleted)
    BY DEF Merged, SetCell
  <2>2. segmentStates \in Seq(RowT)
    BY DEF TypeOK, RowT
  <2>3. \A w \in Units : Cell(segmentStates, w) = StateOf(w)
    BY StateOfCell
  <2>4. QED  BY <1>1, <2>1, <2>2, <2>3, SetCellEffect DEF UnitStates
<1>3. StateOf(u) = UnitPartialPresent
  BY <1>1 DEF Merged, StateOf, ScanState
<1>4. u.Segment = FirstIndex(u.Stage) \/ StateOf(Prev(u)) = UnitCompleted
  BY DEF Merged, StateOf, Prev
<1>5. QED  BY <1>2, <1>3, <1>4
-----------------------------------------------------------------------------
(* The lower stages' stores are complete below u's segment.              *)
DepsDone(u) ==
    \A v \in StageUnits :
        v.Stage < u.Stage /\ v.Segment < u.Segment => StateOf(v) = UnitCompleted

LEMMA PrevUnit ==
  ASSUME NEW w \in Units, w.Segment > FirstIndex(w.Stage)
  PROVE  Prev(w) \in Units
BY UnitFacts, GlobalFirstIndexMin, FirstIndexType DEF Prev, Units

(* Merging in order: once segment s of stage i is completed, so is every  *)
(* segment of stage i from its first one up to s.                         *)
LEMMA ChainDown ==
  ASSUME MergedInOrder, NEW i \in StageIdx, NEW s \in Nat, s <= LastIndex,
         StateOf([Segment |-> s, Stage |-> i]) = UnitCompleted
  PROVE  \A v \in Units :
            v.Stage = i /\ FirstIndex(i) <= v.Segment /\ v.Segment <= s =>
                StateOf(v) = UnitCompleted
<1> DEFINE Done(d) ==
           s - d >= FirstIndex(i) =>
               StateOf([Segment |-> s - d, Stage |-> i]) = UnitCompleted
<1> DEFINE P == {d \in Nat : Done(d)}
<1>0. /\ FirstIndex(i) \in Nat /\ LastIndex \in Nat /\ GlobalFirstIndex \in Nat
      /\ GlobalFirstIndex <= FirstIndex(i)
  BY FirstIndexType, GlobalFirstIndexMin
<1>1. 0 \in P
  OBVIOUS
<1>2. ASSUME NEW d \in P PROVE d + 1 \in P
  <2> SUFFICES ASSUME s - (d + 1) >= FirstIndex(i)
               PROVE  StateOf([Segment |-> s - (d + 1), Stage |-> i]) = UnitCompleted
    OBVIOUS
  <2> DEFINE w == [Segment |-> s - d, Stage |-> i]
  <2>1. StateOf(w) = UnitCompleted
    BY <1>0, <1>2
  <2>2. w \in Units /\ w.Segment > FirstIndex(w.Stage)
    <3>1. d \in Nat
      BY <1>2
    <3>2. s - d \in GlobalFirstIndex .. LastIndex /\ s - d > FirstIndex(i)
      BY <1>0, <3>1
    <3>3. QED  BY <3>2 DEF Units
  <2>3. StateOf(Prev(w)) = UnitCompleted
    BY <2>1, <2>2 DEF MergedInOrder
  <2>4. Prev(w) = [Segment |-> s - (d + 1), Stage |-> i]
    BY DEF Prev
  <2>5. QED  BY <2>3, <2>4
<1>3. Nat \subseteq P
  <2>1. P \in SUBSET Nat
    OBVIOUS
  <2>2. QED  BY <1>1, <1>2, <2>1, SetInduction, Zenon
<1>4. ASSUME NEW v \in Units,
             v.Stage = i, FirstIndex(i) <= v.Segment, v.Segment <= s
      PROVE  StateOf(v) = UnitCompleted
  <2>1. s - v.Segment \in Nat /\ s - (s - v.Segment) = v.Segment
    BY <1>4, UnitFacts
  <2>2. Done(s - v.Segment)
    BY <1>3, <2>1
  <2>3. v = [Segment |-> s - (s - v.Segment), Stage |-> i]
    BY <1>4, <2>1, UnitFacts
  <2>4. QED  BY <1>4, <2>1, <2>2, <2>3
<1>5. QED  BY <1>4

(* The unit NextJob hands out has its inputs complete, when a higher      *)
(* stage never starts after a lower one.                                  *)
LEMMA NextJobDeps ==
  ASSUME SInv, StartOrdered, NEW u \in Units, Schedulable(u)
  PROVE  DepsDone(u)
<1> SUFFICES ASSUME NEW v \in StageUnits, v.Stage < u.Stage, v.Segment < u.Segment
             PROVE  StateOf(v) = UnitCompleted
  BY DEF DepsDone
<1>1. v \in Units /\ v.Segment >= FirstIndex(v.Stage)
  BY DEF StageUnits
<1>2. /\ u.Stage \in Nat /\ v.Stage \in Nat /\ v.Segment \in Nat /\ u.Segment \in Nat
      /\ FirstIndex(u.Stage) \in Nat /\ FirstIndex(v.Stage) \in Nat
  BY <1>1, UnitFacts, FirstIndexType DEF StageIdx
<1>3. CASE u.Stage = 0
  BY <1>2, <1>3
<1>4. CASE u.Segment <= FirstIndex(u.Stage)
  <2>1. FirstIndex(u.Stage) <= FirstIndex(v.Stage)
    BY <1>1, UnitFacts DEF StartOrdered
  <2>2. QED  BY <1>1, <1>2, <1>4, <2>1
<1>5. CASE ~(u.Segment <= FirstIndex(u.Stage)) /\ u.Stage # 0
  <2> DEFINE s == u.Segment - 1
  <2>1. v.Stage \in 0 .. u.Stage - 1
    BY <1>2
  <2>2. StateOf([Segment |-> s, Stage |-> v.Stage]) = UnitCompleted
    BY <1>5, <2>1 DEF Schedulable, dependenciesCompleted, StateOf
  <2>3. s \in Nat /\ s <= LastIndex /\ v.Segment <= s
    <3>1. u.Segment <= LastIndex /\ LastIndex \in Nat
      BY UnitFacts, FirstIndexType
    <3>2. QED  BY <1>2, <1>5, <3>1
  <2>4. QED  BY <1>1, <2>2, <2>3, UnitFacts, ChainDown DEF SInv
<1>6. QED  BY <1>3, <1>4, <1>5
-----------------------------------------------------------------------------
(* The transitions a unit makes: handed out with its inputs complete,     *)
(* finished by a worker, merged after its predecessor.                    *)
Advance(u, x) ==
    \/ /\ StateOf(u) = UnitPending /\ x = UnitScheduled
       /\ u.Segment >= FirstIndex(u.Stage) /\ DepsDone(u)
    \/ StateOf(u) = UnitScheduled /\ x = UnitPartialPresent
    \/ /\ StateOf(u) = UnitPartialPresent /\ x = UnitCompleted
       /\ u.Segment = FirstIndex(u.Stage) \/ StateOf(Prev(u)) = UnitCompleted

(* SInv survives any step that moves one unit along Advance.              *)
LEMMA EffectInv ==
  ASSUME SInv, NEW u \in Units, NEW x \in UnitStates, Effect(u, x), Advance(u, x)
  PROVE  SInv'
<1> USE DEF UnitPending, UnitScheduled, UnitPartialPresent, UnitCompleted
<1>1. \A w \in Units : StateOf(w) = UnitCompleted => StateOf(w)' = UnitCompleted
  BY DEF Effect, Advance
<1>2. \A w \in Units : StateOf(w)' # UnitPending =>
          \/ StateOf(w) # UnitPending
          \/ w = u /\ DepsDone(u)
  BY DEF Effect, Advance
<1>3. u.Segment >= FirstIndex(u.Stage)
  BY UnitFacts, FirstIndexType DEF Advance, SInv, PendingBeforeFirst
<1>4. TypeOK'
  BY DEF Effect, TypeOK, RowT
<1>5. PendingBeforeFirst'
  <2> SUFFICES ASSUME NEW w \in Units, w.Segment < FirstIndex(w.Stage)
               PROVE  StateOf(w)' = UnitPending
    BY DEF PendingBeforeFirst
  <2>1. w # u
    BY <1>3, UnitFacts, FirstIndexType
  <2>2. QED  BY <2>1 DEF Effect, SInv, PendingBeforeFirst
<1>6. MergedInOrder'
  <2> SUFFICES ASSUME NEW w \in Units, StateOf(w)' = UnitCompleted,
                      w.Segment > FirstIndex(w.Stage)
               PROVE  StateOf(Prev(w))' = UnitCompleted
    BY DEF MergedInOrder
  <2>1. Prev(w) \in Units
    BY PrevUnit
  <2>2. StateOf(Prev(w)) = UnitCompleted
    <3>1. CASE w = u
      BY <3>1, UnitFacts DEF Effect, Advance
    <3>2. CASE w # u
      BY <3>2 DEF Effect, SInv, MergedInOrder
    <3>3. QED  BY <3>1, <3>2
  <2>3. QED  BY <1>1, <2>1, <2>2
<1>7. DependenciesMet'
  <2> SUFFICES ASSUME NEW w \in Units, StateOf(w)' # UnitPending,
                      NEW v \in StageUnits, v.Stage < w.Stage, v.Segment < w.Segment
               PROVE  StateOf(v)' = UnitCompleted
    BY DEF DependenciesMet
  <2>1. v \in Units
    BY DEF StageUnits
  <2>2. StateOf(v) = UnitCompleted
    BY <1>2 DEF SInv, DependenciesMet, DepsDone
  <2>3. QED  BY <1>1, <2>1, <2>2
<1>8. QED  BY <1>4, <1>5, <1>6, <1>7 DEF SInv
(* A step that changes no unit keeps SInv.                                *)
LEMMA KeepsInv ==
  ASSUME SInv, Keeps
  PROVE  SInv'
<1>1. TypeOK'
  BY DEF Keeps, TypeOK, RowT
<1>2. PendingBeforeFirst'
  BY DEF Keeps, SInv, PendingBeforeFirst
<1>3. MergedInOrder'
  <2> SUFFICES ASSUME NEW w \in Units, StateOf(w)' = UnitCompleted,
                      w.Segment > FirstIndex(w.Stage)
               PROVE  StateOf(Prev(w))' = UnitCompleted
    BY DEF MergedInOrder
  <2>1. Prev(w) \in Units
    BY PrevUnit
  <2>2. QED  BY <2>1 DEF Keeps, SInv, MergedInOrder
<1>4. DependenciesMet'
  BY DEF Keeps, SInv, DependenciesMet, StageUnits
<1>5. QED  BY <1>1, <1>2, <1>3, <1>4 DEF SInv

-----------------------------------------------------------------------------
(* Every state of the matrix satisfies TypeOK.                            *)

LEMMA StepTypeOK ==
  ASSUME TypeOK, [Next]_segmentStates
  PROVE  TypeOK'
<1>1. CASE \E u \in Units : NextJob(u) \/ WorkerDone(u) \/ Merged(u)
  <2>1. PICK u \in Units : NextJob(u) \/ WorkerDone(u) \/ Merged(u)
    BY <1>1
  <2>2. \E x \in UnitStates : Effect(u, x)
    BY <2>1, NextJobEffect, WorkerDoneEffect, MergedEffect DEF UnitStates
  <2>3. QED  BY <2>2 DEF Effect, TypeOK, RowT
<1>2. CASE NextJobNone
  BY <1>2, NextJobNoneEffect DEF Keeps, TypeOK, RowT
<1>3. CASE UNCHANGED segmentStates
  BY <1>3 DEF TypeOK
<1>4. QED  BY <1>1, <1>2, <1>3 DEF Next

(* TypeOK holds in every reachable state: the matrix stays a sequence of  *)
(* rows of unit states however NextJob grows it.                          *)
THEOREM TypeCorrect == Spec => []TypeOK
<1>1. Init => TypeOK
  BY DEF Init, TypeOK
<1>2. QED  BY <1>1, StepTypeOK, PTL DEF Spec

-----------------------------------------------------------------------------
(* DependenciesMet, through SInv.                                         *)

LEMMA InitSInv ==
  ASSUME Init
  PROVE  SInv
<1>1. \A w \in Units : StateOf(w) = UnitPending
  BY DEF Init, StateOf, ScanState
<1>2. QED  BY <1>1 DEF Init, SInv, TypeOK, PendingBeforeFirst, MergedInOrder,
                     DependenciesMet, UnitPending, UnitCompleted

LEMMA StepSInv ==
  ASSUME SInv, StartOrdered, [Next]_segmentStates
  PROVE  SInv'
<1>1. TypeOK
  BY DEF SInv
<1>2. ASSUME NEW u \in Units, NextJob(u) PROVE SInv'
  <2>1. Effect(u, UnitScheduled) /\ StateOf(u) = UnitPending
    BY <1>1, <1>2, NextJobEffect
  <2>2. Schedulable(u)
    BY <1>2 DEF NextJob, IsFirstSchedulable
  <2>3. DepsDone(u)
    BY <2>2, NextJobDeps
  <2>4. Advance(u, UnitScheduled)
    BY <2>1, <2>2, <2>3 DEF Advance, Schedulable
  <2>5. QED  BY <2>1, <2>4, EffectInv DEF UnitStates
<1>3. ASSUME NEW u \in Units, WorkerDone(u) PROVE SInv'
  <2>1. Effect(u, UnitPartialPresent) /\ StateOf(u) = UnitScheduled
    BY <1>1, <1>3, WorkerDoneEffect
  <2>2. Advance(u, UnitPartialPresent)
    BY <2>1 DEF Advance
  <2>3. QED  BY <2>1, <2>2, EffectInv DEF UnitStates
<1>4. ASSUME NEW u \in Units, Merged(u) PROVE SInv'
  <2>1. /\ Effect(u, UnitCompleted)
        /\ StateOf(u) = UnitPartialPresent
        /\ u.Segment = FirstIndex(u.Stage) \/ StateOf(Prev(u)) = UnitCompleted
    BY <1>1, <1>4, MergedEffect
  <2>2. Advance(u, UnitCompleted)
    BY <2>1 DEF Advance
  <2>3. QED  BY <2>1, <2>2, EffectInv DEF UnitStates
<1>5. CASE NextJobNone
  BY <1>1, <1>5, NextJobNoneEffect, KeepsInv
<1>6. CASE UNCHANGED segmentStates
  BY <1>6 DEF SInv, TypeOK, PendingBeforeFirst, MergedInOrder, DependenciesMet,
              StateOf, ScanState, GetState, StageUnits
<1>7. QED  BY <1>2, <1>3, <1>4, <1>5, <1>6 DEF Next

(* When a higher stage never starts after a lower one, SInv holds in      *)
(* every reachable state: NextJob, WorkerDone and Merged keep units       *)
(* before their stage's start pending, merge each stage in order, and     *)
(* hand out no unit before its input stores are complete.                 *)
THEOREM StagesInvariant ==
  ASSUME StartOrdered
  PROVE  Spec => []SInv
BY InitSInv, StepSInv, PTL DEF Spec

(* I3: a unit of a higher stage is handed out by NextJob only once every  *)
(* lower stage has completed every segment below the unit's, for every    *)
(* interval, end block and list of stage start blocks with StartOrdered.  *)
THEOREM DependenciesMetInvariant ==
  ASSUME StartOrdered
  PROVE  Spec => []DependenciesMet
BY StagesInvariant, PTL DEF SInv
-----------------------------------------------------------------------------
(* UnitsOnlyAdvance, from the effects of the actions.                     *)

(* The step of UnitsOnlyAdvance.                                          *)
OnlyAdvanceStep ==
    /\ Len(segmentStates') >= Len(segmentStates)
    /\ \A u \in Units :
          Row(u) <= Len(segmentStates) =>
             Rank(StateOf(u)') >= Rank(StateOf(u))
    /\ \A u \in Units :
          StateOf(u)' = UnitScheduled /\ StateOf(u) # UnitScheduled =>
             StateOf(u) = UnitPending

LEMMA StateType ==
  ASSUME TypeOK, NEW w \in Units
  PROVE  StateOf(w) \in UnitStates
<1>1. Row(w) \in Nat \ {0} /\ w.Stage + 1 \in 1 .. NumStages
  BY UnitFacts
<1>2. CASE Row(w) \in 1 .. Len(segmentStates)
  <2>1. segmentStates[Row(w)] \in [1 .. NumStages -> UnitStates]
    BY <1>2 DEF TypeOK
  <2>2. QED  BY <1>1, <1>2, <2>1 DEF StateOf, ScanState, GetState
<1>3. CASE Row(w) \notin 1 .. Len(segmentStates)
  BY <1>3 DEF StateOf, ScanState, UnitStates
<1>4. QED  BY <1>2, <1>3

LEMMA RankType ==
  ASSUME NEW s \in UnitStates
  PROVE  Rank(s) \in Nat
BY DEF Rank, UnitStates, UnitPending, UnitScheduled, UnitPartialPresent, UnitCompleted

LEMMA EffectOnlyAdvance ==
  ASSUME TypeOK, NEW u \in Units, NEW x \in UnitStates, Effect(u, x),
         \/ StateOf(u) = UnitPending /\ x = UnitScheduled
         \/ StateOf(u) = UnitScheduled /\ x = UnitPartialPresent
         \/ StateOf(u) = UnitPartialPresent /\ x = UnitCompleted
  PROVE  OnlyAdvanceStep
<1> USE DEF UnitPending, UnitScheduled, UnitPartialPresent, UnitCompleted
<1>1. ASSUME NEW w \in Units PROVE Rank(StateOf(w)') >= Rank(StateOf(w))
  <2>1. CASE w = u
    BY <2>1 DEF Effect, Rank
  <2>2. CASE w # u
    BY <2>2, StateType, RankType DEF Effect
  <2>3. QED  BY <2>1, <2>2
<1>2. QED  BY <1>1 DEF Effect, OnlyAdvanceStep

LEMMA StepOnlyAdvance ==
  ASSUME TypeOK, [Next]_segmentStates
  PROVE  [OnlyAdvanceStep]_segmentStates
<1>1. ASSUME NEW u \in Units, NextJob(u) PROVE OnlyAdvanceStep
  BY <1>1, NextJobEffect, EffectOnlyAdvance DEF UnitStates
<1>2. ASSUME NEW u \in Units, WorkerDone(u) PROVE OnlyAdvanceStep
  BY <1>2, WorkerDoneEffect, EffectOnlyAdvance DEF UnitStates
<1>3. ASSUME NEW u \in Units, Merged(u) PROVE OnlyAdvanceStep
  BY <1>3, MergedEffect, EffectOnlyAdvance DEF UnitStates
<1>4. ASSUME NextJobNone PROVE OnlyAdvanceStep
  <2>1. Keeps
    BY <1>4, NextJobNoneEffect
  <2>2. ASSUME NEW w \in Units PROVE Rank(StateOf(w)') >= Rank(StateOf(w))
    BY <2>1, StateType, RankType DEF Keeps
  <2>3. QED  BY <2>1, <2>2 DEF Keeps, OnlyAdvanceStep
<1>5. Next => OnlyAdvanceStep
  BY <1>1, <1>2, <1>3, <1>4 DEF Next
<1>6. QED  BY <1>5, Zenon

(* I4 and the growth of the matrix: no step of NextJob, a worker or the   *)
(* merge moves a unit back, hands out a unit that was not pending, or     *)
(* drops a row.                                                           *)
THEOREM OnlyAdvance == Spec => UnitsOnlyAdvance
<1>1. Init => TypeOK
  BY DEF Init, TypeOK
<1>2. QED  BY <1>1, StepTypeOK, StepOnlyAdvance, PTL DEF Spec, UnitsOnlyAdvance, OnlyAdvanceStep
=============================================================================
