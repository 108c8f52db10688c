----------------------- MODULE SquasherDeliveryProofs -----------------------
(***************************************************************************)
(* Proofs that the Squasher's merge loop never meets a stale head and     *)
(* always finds the .partial file of the range it merges (NoStaleHead and *)
(* PendingLoadable), for every value of the constants, when each job of   *)
(* the plan reports its success once (MaxAttempts = 1).  The run          *)
(* squasher_duplicate shows NoStaleHead fails when a job's success can be *)
(* delivered twice.                                                       *)
(*                                                                         *)
(* Neither invariant is inductive: a step that merges the head h advances *)
(* nextExpectedStartBlock to h's end and may delete h's file, which is    *)
(* safe only because no other range waiting, reported or still to be run  *)
(* overlaps h.  DInv tracks every piece of every job through its life:    *)
(* not run, reported (files written, not yet squashed), pending once, and *)
(* merged, and records that the plan's jobs do not overlap.               *)
(***************************************************************************)
EXTENDS SquasherProofs

USE SquasherAssumption DEF T, I

(* Two block ranges share no block.                                       *)
Disjoint(a, b) ==
    a.ExclusiveEndBlock <= b.StartBlock \/ b.ExclusiveEndBlock <= a.StartBlock

(* The plan's jobs of a module do not overlap.                            *)
JobsDisjoint ==
    \A m \in Modules : \A r1, r2 \in jobs[m] : r1 = r2 \/ Disjoint(r1, r2)

(* A range not yet merged: it starts at or after nextExpectedStartBlock.  *)
Unmerged(m, q) == q.StartBlock >= nextExpectedStartBlock[m]

(* A job that has not run: not reported, and none of its pieces pending  *)
(* or merged.                                                             *)
NotRunClean ==
    \A m \in Modules : \A r \in jobs[m] :
        attempts[m][r] = 0 =>
            /\ <<m, r>> \notin reported
            /\ \A q \in Split(r, I) : ranges[m][q] = 0 /\ Unmerged(m, q)

(* A reported job ran once; none of its pieces is pending or merged yet.  *)
ReportedClean ==
    \A m \in Modules : \A r \in BlockRanges :
        <<m, r>> \in reported =>
            /\ r \in jobs[m] /\ attempts[m][r] = 1
            /\ \A q \in Split(r, I) : ranges[m][q] = 0 /\ Unmerged(m, q)

(* A pending range is pending once, is not merged, and is a piece of a    *)
(* job that ran and was squashed.                                         *)
PendingOnce ==
    \A m \in Modules : \A q \in BlockRanges :
        ranges[m][q] > 0 =>
            /\ ranges[m][q] = 1
            /\ Unmerged(m, q)
            /\ \E r \in jobs[m] :
                  /\ q \in Split(r, I)
                  /\ attempts[m][r] = 1
                  /\ <<m, r>> \notin reported

(* The files: a reported job wrote a file for every piece, and a pending   *)
(* range still has its file.                                              *)
FilesKept ==
    \A m \in Modules :
        /\ \A r \in BlockRanges :
              <<m, r>> \in reported => Split(r, I) \subseteq partialFiles[m]
        /\ \A q \in BlockRanges : ranges[m][q] > 0 => q \in partialFiles[m]

(* The life of a piece, which the fault model shares, and its files.      *)
Clean == NotRunClean /\ ReportedClean /\ PendingOnce

DInv == TypeOK /\ JobsDisjoint /\ Clean /\ FilesKept
-----------------------------------------------------------------------------
(* Every piece of Range.Split lies inside the original range.             *)
LEMMA SplitWithin ==
    ASSUME NEW r \in BlockRanges, NEW n \in Nat \ {0}, NEW q \in Split(r, n)
    PROVE  /\ q \in BlockRanges
           /\ r.StartBlock <= q.StartBlock
           /\ q.ExclusiveEndBlock <= r.ExclusiveEndBlock
<1>1. q \in BlockRanges
  BY SplitInRanges
<1>2. PICK k \in (r.StartBlock \div n) .. ((r.ExclusiveEndBlock - 1) \div n) :
          q = NewRange(MaxOf(r.StartBlock, k * n),
                       MinOf((k + 1) * n, r.ExclusiveEndBlock))
  BY DEF Split
<1>3. QED
  BY <1>1, <1>2 DEF NewRange, MaxOf, MinOf, BlockRanges

(* Two pieces of one Range.Split are equal or share no block: piece k     *)
(* ends at or before (k + 1) * n, where any later piece starts.           *)
LEMMA SplitDisjoint ==
    ASSUME NEW r \in BlockRanges, NEW n \in Nat \ {0},
           NEW q1 \in Split(r, n), NEW q2 \in Split(r, n)
    PROVE  q1 = q2 \/ Disjoint(q1, q2)
<1> DEFINE s == r.StartBlock  e == r.ExclusiveEndBlock
           Piece(k) == NewRange(MaxOf(s, k * n), MinOf((k + 1) * n, e))
           Ks == (s \div n) .. ((e - 1) \div n)
<1>1. s \in Nat /\ e \in Nat
  BY DEF BlockRanges
<1>2. PICK k1 \in Ks : q1 = Piece(k1)
  BY DEF Split
<1>3. PICK k2 \in Ks : q2 = Piece(k2)
  BY DEF Split
<1>4. ASSUME NEW j1 \in Ks, NEW j2 \in Ks, j1 < j2
      PROVE  Piece(j1).ExclusiveEndBlock <= Piece(j2).StartBlock
  <2>1. j1 \in Int /\ j2 \in Int /\ j1 + 1 <= j2
    BY <1>1, <1>4
  <2>2. (j1 + 1) * n <= j2 * n
    BY <2>1, Z3
  <2>3. Piece(j1).ExclusiveEndBlock <= (j1 + 1) * n
    BY <1>1, <2>1 DEF NewRange, MinOf
  <2>4. j2 * n <= Piece(j2).StartBlock
    BY <1>1, <2>1 DEF NewRange, MaxOf
  <2>5. Piece(j1).ExclusiveEndBlock \in Int /\ Piece(j2).StartBlock \in Int
    BY <1>1, <2>1 DEF NewRange, MaxOf, MinOf
  <2>6. QED
    BY <2>1, <2>2, <2>3, <2>4, <2>5
<1>5. CASE k1 = k2
  BY <1>2, <1>3, <1>5
<1>6. CASE k1 < k2
  BY <1>2, <1>3, <1>6, <1>4 DEF Disjoint
<1>7. CASE k2 < k1
  BY <1>2, <1>3, <1>7, <1>4 DEF Disjoint
<1>8. QED
  BY <1>1, <1>5, <1>6, <1>7
(* Pieces of two jobs of a plan whose jobs do not overlap are the same    *)
(* piece of the same job or share no block.                               *)
LEMMA PiecesDisjoint ==
    ASSUME NEW m \in Modules, jobs[m] \subseteq BlockRanges, JobsDisjoint,
           NEW r1 \in jobs[m], NEW r2 \in jobs[m],
           NEW q1 \in Split(r1, I), NEW q2 \in Split(r2, I)
    PROVE  (r1 = r2 /\ q1 = q2) \/ Disjoint(q1, q2)
<1>1. CASE r1 = r2
  BY <1>1, SplitDisjoint
<1>2. CASE r1 # r2
  <2>1. Disjoint(r1, r2)
    BY <1>2 DEF JobsDisjoint
  <2>2. /\ r1.StartBlock <= q1.StartBlock
        /\ q1.ExclusiveEndBlock <= r1.ExclusiveEndBlock
        /\ r2.StartBlock <= q2.StartBlock
        /\ q2.ExclusiveEndBlock <= r2.ExclusiveEndBlock
        /\ q1 \in BlockRanges /\ q2 \in BlockRanges
    BY SplitWithin
  <2>3. QED
    BY <2>1, <2>2 DEF Disjoint, BlockRanges
<1>3. QED
  BY <1>1, <1>2

(* A block range is not disjoint from itself.                             *)
LEMMA DisjointIrreflexive ==
    ASSUME NEW q \in BlockRanges
    PROVE  ~Disjoint(q, q)
BY DEF Disjoint, BlockRanges

-----------------------------------------------------------------------------
(* The initial states satisfy DInv: the plan's jobs cut [from, target) at *)
(* multiples of the subrequest split, no job has run, nothing is pending. *)
LEMMA InitDInv == Init => DInv
<1> SUFFICES ASSUME Init PROVE DInv
  OBVIOUS
<1>1. TypeOK
  BY InitTypeOK
<1>2. /\ jobs = [m \in Modules |-> PlanJobs(nextExpectedStartBlock[m])]
      /\ ranges = [m \in Modules |-> [r \in BlockRanges |-> 0]]
      /\ attempts = [m \in Modules |-> [r \in BlockRanges |-> 0]]
      /\ reported = {}
  BY DEF Init
<1>3. ASSUME NEW m \in Modules, NEW r \in jobs[m]
      PROVE  /\ NewRange(nextExpectedStartBlock[m], T) \in BlockRanges
             /\ r \in Split(NewRange(nextExpectedStartBlock[m], T), SubrequestSplit)
  <2>1. nextExpectedStartBlock[m] \in 0 .. T
    BY <1>1 DEF TypeOK
  <2>2. nextExpectedStartBlock[m] < T
    <3>1. jobs[m] = PlanJobs(nextExpectedStartBlock[m])
      BY <1>2
    <3>2. ~(nextExpectedStartBlock[m] >= T)
      BY <3>1, <1>3, Zenon DEF PlanJobs
    <3>3. QED
      BY <2>1, <3>2
  <2>3. QED
    BY <1>2, <2>1, <2>2 DEF PlanJobs, NewRange, BlockRanges
<1>4. JobsDisjoint
  <2> SUFFICES ASSUME NEW m \in Modules, NEW r1 \in jobs[m], NEW r2 \in jobs[m]
               PROVE  r1 = r2 \/ Disjoint(r1, r2)
    BY DEF JobsDisjoint
  <2>1. QED
    BY <1>3, SplitDisjoint
<1>5. NotRunClean
  <2> SUFFICES ASSUME NEW m \in Modules, NEW r \in jobs[m],
                      NEW q \in Split(r, I)
               PROVE  ranges[m][q] = 0 /\ Unmerged(m, q)
    BY <1>2 DEF NotRunClean
  <2> DEFINE R == NewRange(nextExpectedStartBlock[m], T)
  <2>1. R.StartBlock <= r.StartBlock /\ r \in BlockRanges
    BY <1>3, SplitWithin
  <2>2. r.StartBlock <= q.StartBlock /\ q \in BlockRanges
    BY <2>1, SplitWithin
  <2>3. ranges[m][q] = 0
    BY <1>2, <2>2
  <2>4. R.StartBlock = nextExpectedStartBlock[m]
    BY DEF NewRange
  <2>5. nextExpectedStartBlock[m] <= r.StartBlock
    BY <2>1, <2>4
  <2>6. Unmerged(m, q)
    <3>1. /\ r.StartBlock \in Nat /\ q.StartBlock \in Nat
          /\ nextExpectedStartBlock[m] \in Nat
      BY <1>1, <2>1, <2>2 DEF BlockRanges, TypeOK
    <3>2. QED
      BY <2>2, <2>5, <3>1 DEF Unmerged
  <2>7. QED
    BY <2>3, <2>6
<1>6. ReportedClean /\ PendingOnce /\ FilesKept
  BY <1>2 DEF ReportedClean, PendingOnce, FilesKept
<1>7. QED
  BY <1>1, <1>4, <1>5, <1>6 DEF DInv, Clean
-----------------------------------------------------------------------------
(* A worker reports job r once: its pieces go from "not run" to           *)
(* "reported".  Stated over what the step does to the job's bookkeeping,  *)
(* which RunJob and the fault model's RunJobEOF share.                    *)
LEMMA ReportClean ==
    ASSUME MaxAttempts = 1, TypeOK, Clean,
           NEW m \in Modules, NEW r \in BlockRanges,
           r \in jobs[m], attempts[m][r] < MaxAttempts, <<m, r>> \notin reported,
           attempts' = [attempts EXCEPT ![m][r] = @ + 1],
           reported' = reported \cup {<<m, r>>},
           ranges' = ranges, nextExpectedStartBlock' = nextExpectedStartBlock,
           jobs' = jobs
    PROVE  Clean'
<1>1. attempts[m][r] = 0 /\ attempts' = [attempts EXCEPT ![m][r] = 1]
  <2>1. attempts[m][r] \in 0 .. MaxAttempts
    BY DEF TypeOK
  <2>2. attempts[m][r] = 0
    BY <2>1
  <2>3. attempts' = [attempts EXCEPT ![m][r] = attempts[m][r] + 1]
    OBVIOUS
  <2>4. QED
    BY <2>2, <2>3
<1>2. ASSUME NEW m2 \in Modules, NEW r2 \in BlockRanges, <<m2, r2>> # <<m, r>>
      PROVE  attempts'[m2][r2] = attempts[m2][r2]
  BY <1>1, <1>2 DEF TypeOK
<1>3. NotRunClean'
  <2> SUFFICES ASSUME NEW m2 \in Modules, NEW r2 \in jobs'[m2],
                      attempts'[m2][r2] = 0
               PROVE  /\ <<m2, r2>> \notin reported'
                      /\ \A q \in Split(r2, I) :
                            ranges'[m2][q] = 0 /\ Unmerged(m2, q)'
    BY DEF NotRunClean
  <2>1. r2 \in jobs[m2] /\ r2 \in BlockRanges
    BY DEF TypeOK
  <2>2. <<m2, r2>> # <<m, r>>
    BY <1>1, <2>1 DEF TypeOK
  <2>3. attempts[m2][r2] = 0
    BY <1>2, <2>1, <2>2
  <2>4. QED
    BY <2>1, <2>2, <2>3 DEF Clean, NotRunClean, Unmerged
<1>4. ReportedClean'
  <2> SUFFICES ASSUME NEW m2 \in Modules, NEW r2 \in BlockRanges,
                      <<m2, r2>> \in reported'
               PROVE  /\ r2 \in jobs'[m2] /\ attempts'[m2][r2] = 1
                      /\ \A q \in Split(r2, I) :
                            ranges'[m2][q] = 0 /\ Unmerged(m2, q)'
    BY DEF ReportedClean
  <2>1. CASE <<m2, r2>> = <<m, r>>
    <3>1. m2 = m /\ r2 = r
      BY <2>1
    <3>2. attempts'[m][r] = 1
      BY <1>1 DEF TypeOK
    <3>3. \A q \in Split(r, I) : ranges[m][q] = 0 /\ Unmerged(m, q)
      BY <1>1 DEF Clean, NotRunClean
    <3>4. QED
      BY <3>1, <3>2, <3>3 DEF Unmerged
  <2>2. CASE <<m2, r2>> # <<m, r>>
    <3>1. <<m2, r2>> \in reported
      BY <2>2
    <3>2. attempts'[m2][r2] = attempts[m2][r2]
      BY <1>2, <2>2
    <3>3. QED
      BY <3>1, <3>2 DEF Clean, ReportedClean, Unmerged
  <2>3. QED
    BY <2>1, <2>2
<1>5. PendingOnce'
  <2> SUFFICES ASSUME NEW m2 \in Modules, NEW q \in BlockRanges,
                      ranges'[m2][q] > 0
               PROVE  /\ ranges'[m2][q] = 1
                      /\ Unmerged(m2, q)'
                      /\ \E r2 \in jobs'[m2] :
                            /\ q \in Split(r2, I)
                            /\ attempts'[m2][r2] = 1
                            /\ <<m2, r2>> \notin reported'
    BY DEF PendingOnce
  <2>1. /\ ranges[m2][q] = 1 /\ Unmerged(m2, q)
        /\ \E r2 \in jobs[m2] :
              q \in Split(r2, I) /\ attempts[m2][r2] = 1
              /\ <<m2, r2>> \notin reported
    BY DEF Clean, PendingOnce
  <2>2. PICK r2 \in jobs[m2] :
            q \in Split(r2, I) /\ attempts[m2][r2] = 1
            /\ <<m2, r2>> \notin reported
    BY <2>1
  <2>3. r2 \in BlockRanges /\ <<m2, r2>> # <<m, r>>
    BY <1>1, <2>2 DEF TypeOK
  <2>4. attempts'[m2][r2] = 1 /\ <<m2, r2>> \notin reported'
    BY <1>2, <2>2, <2>3
  <2>5. QED
    BY <2>1, <2>2, <2>4 DEF Unmerged
<1>6. QED
  BY <1>3, <1>4, <1>5 DEF Clean

(* A worker runs job r once: the pieces of the reported job have files.   *)
LEMMA RunJobDInv ==
    ASSUME MaxAttempts = 1, TypeOK, Clean, FilesKept,
           NEW m \in Modules, NEW r \in BlockRanges, RunJob(m, r)
    PROVE  Clean' /\ FilesKept'
<1>1. /\ r \in jobs[m] /\ attempts[m][r] < MaxAttempts /\ <<m, r>> \notin reported
      /\ attempts' = [attempts EXCEPT ![m][r] = @ + 1]
      /\ reported' = reported \cup {<<m, r>>}
      /\ partialFiles' = [partialFiles EXCEPT ![m] = @ \cup Split(r, I)]
      /\ ranges' = ranges /\ nextExpectedStartBlock' = nextExpectedStartBlock
      /\ jobs' = jobs
  BY DEF RunJob, PartialsWritten, squashVars
<1>2. Clean'
  BY <1>1, ReportClean
<1>3. \A m2 \in Modules : partialFiles[m2] \subseteq partialFiles'[m2]
  BY <1>1 DEF TypeOK
<1>4. Split(r, I) \subseteq partialFiles'[m]
  BY <1>1 DEF TypeOK
<1>5. FilesKept'
  BY <1>1, <1>3, <1>4 DEF FilesKept
<1>6. QED
  BY <1>2, <1>5

(* Squash(m, r) moves the pieces of the reported job r into the pending   *)
(* list; no other job shares a piece with r.                              *)
LEMMA SquashClean ==
    ASSUME MaxAttempts = 1, TypeOK, JobsDisjoint,
           NotRunClean, ReportedClean, PendingOnce,
           NEW m \in Modules, NEW r \in BlockRanges, Squash(m, r)
    PROVE  Clean'
<1>1. /\ <<m, r>> \in reported
      /\ reported' = reported \ {<<m, r>>}
      /\ UNCHANGED <<nextExpectedStartBlock, partialFiles, jobs, attempts>>
  BY DEF Squash, storageVars
<1>2. /\ r \in jobs[m] /\ attempts[m][r] = 1
      /\ \A q \in Split(r, I) : ranges[m][q] = 0 /\ Unmerged(m, q)
  BY <1>1 DEF ReportedClean
<1>3. ASSUME NEW m2 \in Modules, NEW q \in BlockRanges
      PROVE  ranges'[m2][q] =
                IF m2 = m /\ q \in Split(r, I) /\ Bounded(m, q)
                THEN ranges[m2][q] + 1 ELSE ranges[m2][q]
  BY DEF Squash, TypeOK
(* A piece of another job of m is not a piece of r.                       *)
<1>4. ASSUME NEW r2 \in jobs[m], r2 # r, NEW q \in Split(r2, I)
      PROVE  q \notin Split(r, I) /\ q \in BlockRanges
  <2>1. jobs[m] \subseteq BlockRanges /\ r2 \in BlockRanges
    BY DEF TypeOK
  <2>2. q \in BlockRanges
    BY <2>1, SplitWithin
  <2>3. q \in Split(r, I) => Disjoint(q, q)
    BY <1>2, <1>4, <2>1, PiecesDisjoint
  <2>4. QED
    BY <2>2, <2>3, DisjointIrreflexive
<1>5. NotRunClean'
  <2> SUFFICES ASSUME NEW m2 \in Modules, NEW r2 \in jobs'[m2],
                      attempts'[m2][r2] = 0
               PROVE  /\ <<m2, r2>> \notin reported'
                      /\ \A q \in Split(r2, I) :
                            ranges'[m2][q] = 0 /\ Unmerged(m2, q)'
    BY DEF NotRunClean
  <2>1. r2 \in jobs[m2] /\ attempts[m2][r2] = 0 /\ r2 \in BlockRanges
    BY <1>1 DEF TypeOK
  <2>2. /\ <<m2, r2>> \notin reported
        /\ \A q \in Split(r2, I) : ranges[m2][q] = 0 /\ Unmerged(m2, q)
    BY <2>1 DEF Clean, NotRunClean
  <2>3. ASSUME NEW q \in Split(r2, I) PROVE ranges'[m2][q] = ranges[m2][q]
    <3>1. q \in BlockRanges
      BY <2>1, SplitWithin
    <3>2. CASE m2 = m
      <4>1. r2 # r
        BY <1>2, <2>1, <3>2
      <4>2. q \notin Split(r, I)
        BY <2>1, <3>2, <4>1, <1>4
      <4>3. QED
        BY <1>3, <3>1, <4>2
    <3>3. CASE m2 # m
      BY <1>3, <3>1, <3>3
    <3>4. QED
      BY <3>2, <3>3
  <2>4. QED
    BY <1>1, <2>2, <2>3 DEF Unmerged
<1>6. ReportedClean'
  <2> SUFFICES ASSUME NEW m2 \in Modules, NEW r2 \in BlockRanges,
                      <<m2, r2>> \in reported'
               PROVE  /\ r2 \in jobs'[m2] /\ attempts'[m2][r2] = 1
                      /\ \A q \in Split(r2, I) :
                            ranges'[m2][q] = 0 /\ Unmerged(m2, q)'
    BY DEF ReportedClean
  <2>1. <<m2, r2>> \in reported /\ <<m2, r2>> # <<m, r>>
    BY <1>1
  <2>2. /\ r2 \in jobs[m2] /\ attempts[m2][r2] = 1
        /\ \A q \in Split(r2, I) : ranges[m2][q] = 0 /\ Unmerged(m2, q)
    BY <2>1 DEF Clean, ReportedClean
  <2>3. ASSUME NEW q \in Split(r2, I) PROVE ranges'[m2][q] = ranges[m2][q]
    <3>1. q \in BlockRanges
      BY SplitWithin
    <3>2. CASE m2 = m
      <4>1. r2 # r
        BY <2>1, <3>2
      <4>2. q \notin Split(r, I)
        BY <2>2, <3>2, <4>1, <1>4
      <4>3. QED
        BY <1>3, <3>1, <4>2
    <3>3. CASE m2 # m
      BY <1>3, <3>1, <3>3
    <3>4. QED
      BY <3>2, <3>3
  <2>4. QED
    BY <1>1, <2>2, <2>3 DEF Unmerged
<1>7. PendingOnce'
  <2> SUFFICES ASSUME NEW m2 \in Modules, NEW q \in BlockRanges,
                      ranges'[m2][q] > 0
               PROVE  /\ ranges'[m2][q] = 1
                      /\ Unmerged(m2, q)'
                      /\ \E r2 \in jobs'[m2] :
                            /\ q \in Split(r2, I)
                            /\ attempts'[m2][r2] = 1
                            /\ <<m2, r2>> \notin reported'
    BY DEF PendingOnce
  <2>1. CASE m2 = m /\ q \in Split(r, I) /\ Bounded(m, q)
    <3>1. ranges[m][q] = 0 /\ Unmerged(m, q)
      BY <1>2, <2>1
    <3>2. ranges'[m2][q] = 1
      BY <1>3, <2>1, <3>1
    <3>3. <<m, r>> \notin reported'
      BY <1>1
    <3>4. QED
      BY <1>1, <1>2, <2>1, <3>1, <3>2, <3>3 DEF Unmerged
  <2>2. CASE ~(m2 = m /\ q \in Split(r, I) /\ Bounded(m, q))
    <3>1. ranges'[m2][q] = ranges[m2][q]
      BY <1>3, <2>2
    <3>2. /\ ranges[m2][q] = 1 /\ Unmerged(m2, q)
          /\ \E r2 \in jobs[m2] :
                q \in Split(r2, I) /\ attempts[m2][r2] = 1
                /\ <<m2, r2>> \notin reported
      BY <3>1 DEF Clean, PendingOnce
    <3>3. QED
      BY <1>1, <3>1, <3>2 DEF Unmerged
  <2>3. QED
    BY <2>1, <2>2
<1>8. QED
  BY <1>5, <1>6, <1>7 DEF Clean

(* Squash(m, r): the new pending pieces are those of r, whose files the   *)
(* worker wrote.                                                          *)
LEMMA SquashDInv ==
    ASSUME MaxAttempts = 1, TypeOK, JobsDisjoint,
           NotRunClean, ReportedClean, PendingOnce, FilesKept,
           NEW m \in Modules, NEW r \in BlockRanges, Squash(m, r)
    PROVE  Clean' /\ FilesKept'
<1>1. /\ <<m, r>> \in reported
      /\ reported' = reported \ {<<m, r>>}
      /\ UNCHANGED partialFiles
  BY DEF Squash, storageVars
<1>2. Split(r, I) \subseteq partialFiles[m]
  BY <1>1 DEF FilesKept
<1>3. ASSUME NEW m2 \in Modules, NEW q \in BlockRanges
      PROVE  ranges'[m2][q] =
                IF m2 = m /\ q \in Split(r, I) /\ Bounded(m, q)
                THEN ranges[m2][q] + 1 ELSE ranges[m2][q]
  BY DEF Squash, TypeOK
<1>4. FilesKept'
  <2>1. ASSUME NEW m2 \in Modules, NEW q \in BlockRanges, ranges'[m2][q] > 0
        PROVE  q \in partialFiles'[m2]
    <3>1. CASE m2 = m /\ q \in Split(r, I) /\ Bounded(m, q)
      BY <1>1, <1>2, <3>1
    <3>2. CASE ~(m2 = m /\ q \in Split(r, I) /\ Bounded(m, q))
      <4>1. ranges[m2][q] > 0
        BY <1>3, <2>1, <3>2
      <4>2. QED
        BY <1>1, <4>1 DEF FilesKept
    <3>3. QED
      BY <3>1, <3>2
  <2>2. ASSUME NEW m2 \in Modules, NEW r2 \in BlockRanges, <<m2, r2>> \in reported'
        PROVE  Split(r2, I) \subseteq partialFiles'[m2]
    BY <1>1, <2>2 DEF FilesKept
  <2>3. QED
    BY <2>1, <2>2 DEF FilesKept
<1>5. QED
  BY <1>4, SquashClean

(* The merge loop takes the head h at nextExpectedStartBlock: every other *)
(* piece of the plan that is not merged yet starts at or after h's end,   *)
(* because the pieces of the plan do not overlap.                         *)
LEMMA AfterHead ==
    ASSUME TypeOK, JobsDisjoint, NEW m \in Modules,
           NEW rh \in jobs[m], NEW h \in Split(rh, I),
           h.StartBlock = nextExpectedStartBlock[m],
           NEW r2 \in jobs[m], NEW q \in Split(r2, I),
           q # h, Unmerged(m, q)
    PROVE  h.ExclusiveEndBlock <= q.StartBlock
<1>1. jobs[m] \subseteq BlockRanges
  BY DEF TypeOK
<1>2. h \in BlockRanges /\ q \in BlockRanges
  BY <1>1, SplitWithin
<1>3. Disjoint(q, h)
  BY <1>1, PiecesDisjoint
<1>4. QED
  BY <1>2, <1>3 DEF Disjoint, Unmerged, BlockRanges

(* The pending count after popping the head h, which is pending once.     *)
LEMMA PopHeadAt ==
    ASSUME TypeOK, NEW m \in Modules, NEW h \in BlockRanges, ranges[m][h] = 1,
           ranges' = PopHead(m, h),
           NEW m2 \in Modules, NEW q \in BlockRanges
    PROVE  ranges'[m2][q] = IF m2 = m /\ q = h THEN 0 ELSE ranges[m2][q]
<1>1. ranges' = [ranges EXCEPT ![m] = [ranges[m] EXCEPT ![h] = ranges[m][h] - 1]]
  BY DEF PopHead
<1>2. CASE m2 = m /\ q = h
  BY <1>1, <1>2 DEF TypeOK
<1>3. CASE m2 = m /\ q # h
  BY <1>1, <1>3 DEF TypeOK
<1>4. CASE m2 # m
  BY <1>1, <1>4 DEF TypeOK
<1>5. QED
  BY <1>2, <1>3, <1>4

(* One iteration of the merge loop: the head leaves the pending list and  *)
(* nextExpectedStartBlock moves to its end; what is left is still after  *)
(* it.  Stated over what the step does to the Squashable, which          *)
(* MergePartial and the fault model's DeleteFails share.                 *)
LEMMA MergeClean ==
    ASSUME TypeOK, JobsDisjoint, NotRunClean, ReportedClean, PendingOnce,
           NEW m \in Modules, NEW h \in BlockRanges, CanMerge(m, h),
           nextExpectedStartBlock' =
              [nextExpectedStartBlock EXCEPT ![m] = h.ExclusiveEndBlock],
           ranges' = PopHead(m, h),
           jobs' = jobs, attempts' = attempts, reported' = reported
    PROVE  Clean'
<1>3. h.StartBlock = nextExpectedStartBlock[m] /\ ranges[m][h] > 0
  BY DEF CanMerge, IsHead, Pending
<1>4. /\ ranges[m][h] = 1
      /\ \E rh \in jobs[m] : h \in Split(rh, I)
  BY <1>3 DEF PendingOnce
<1>5. PICK rh \in jobs[m] : h \in Split(rh, I)
  BY <1>4
<1>6. ASSUME NEW m2 \in Modules, NEW q \in BlockRanges
      PROVE  /\ ranges'[m2][q] = IF m2 = m /\ q = h THEN 0 ELSE ranges[m2][q]
             /\ nextExpectedStartBlock'[m2] =
                   IF m2 = m THEN h.ExclusiveEndBlock ELSE nextExpectedStartBlock[m2]
  <2>1. ranges'[m2][q] = IF m2 = m /\ q = h THEN 0 ELSE ranges[m2][q]
    BY <1>4, PopHeadAt
  <2>2. QED
    BY <2>1 DEF TypeOK
(* A live piece of m other than h is after h once it is unmerged now.     *)
<1>7. ASSUME NEW r2 \in jobs[m], NEW q \in Split(r2, I), q # h, Unmerged(m, q)
      PROVE  Unmerged(m, q)'
  <2>1. h.ExclusiveEndBlock <= q.StartBlock
    BY <1>3, <1>5, <1>7, AfterHead
  <2>2. QED
    BY <1>6, <2>1, SplitWithin DEF Unmerged, TypeOK
<1>8. NotRunClean'
  <2> SUFFICES ASSUME NEW m2 \in Modules, NEW r2 \in jobs'[m2],
                      attempts'[m2][r2] = 0
               PROVE  /\ <<m2, r2>> \notin reported'
                      /\ \A q \in Split(r2, I) :
                            ranges'[m2][q] = 0 /\ Unmerged(m2, q)'
    BY DEF NotRunClean
  <2>1. r2 \in jobs[m2] /\ r2 \in BlockRanges
    BY DEF TypeOK
  <2>2. /\ <<m2, r2>> \notin reported
        /\ \A q \in Split(r2, I) : ranges[m2][q] = 0 /\ Unmerged(m2, q)
    BY <2>1 DEF NotRunClean
  <2>3. ASSUME NEW q \in Split(r2, I)
        PROVE  ranges'[m2][q] = 0 /\ Unmerged(m2, q)'
    <3>1. q \in BlockRanges /\ ranges[m2][q] = 0 /\ Unmerged(m2, q)
      BY <2>1, <2>2, SplitWithin
    <3>2. q # h \/ m2 # m
      BY <1>4, <3>1
    <3>3. ranges'[m2][q] = 0
      BY <1>6, <3>1
    <3>4. CASE m2 = m
      BY <1>7, <2>1, <3>1, <3>2, <3>3, <3>4
    <3>5. CASE m2 # m
      BY <1>6, <3>1, <3>3, <3>5 DEF Unmerged
    <3>6. QED
      BY <3>3, <3>4, <3>5
  <2>4. QED
    BY <2>2, <2>3
<1>9. ReportedClean'
  <2> SUFFICES ASSUME NEW m2 \in Modules, NEW r2 \in BlockRanges,
                      <<m2, r2>> \in reported'
               PROVE  /\ r2 \in jobs'[m2] /\ attempts'[m2][r2] = 1
                      /\ \A q \in Split(r2, I) :
                            ranges'[m2][q] = 0 /\ Unmerged(m2, q)'
    BY DEF ReportedClean
  <2>1. /\ r2 \in jobs[m2] /\ attempts[m2][r2] = 1
        /\ \A q \in Split(r2, I) : ranges[m2][q] = 0 /\ Unmerged(m2, q)
    BY DEF ReportedClean
  <2>2. ASSUME NEW q \in Split(r2, I)
        PROVE  ranges'[m2][q] = 0 /\ Unmerged(m2, q)'
    <3>1. q \in BlockRanges /\ ranges[m2][q] = 0 /\ Unmerged(m2, q)
      BY <2>1, SplitWithin
    <3>2. q # h \/ m2 # m
      BY <1>4, <3>1
    <3>3. ranges'[m2][q] = 0
      BY <1>6, <3>1, <3>2
    <3>4. CASE m2 = m
      BY <1>7, <2>1, <3>1, <3>2, <3>3, <3>4
    <3>5. CASE m2 # m
      BY <1>6, <3>1, <3>3, <3>5 DEF Unmerged
    <3>6. QED
      BY <3>3, <3>4, <3>5
  <2>3. QED
    BY <2>1, <2>2
<1>10. PendingOnce'
  <2> SUFFICES ASSUME NEW m2 \in Modules, NEW q \in BlockRanges,
                      ranges'[m2][q] > 0
               PROVE  /\ ranges'[m2][q] = 1
                      /\ Unmerged(m2, q)'
                      /\ \E r2 \in jobs'[m2] :
                            /\ q \in Split(r2, I)
                            /\ attempts'[m2][r2] = 1
                            /\ <<m2, r2>> \notin reported'
    BY DEF PendingOnce
  <2>1. (q # h \/ m2 # m) /\ ranges'[m2][q] = ranges[m2][q]
    BY <1>6
  <2>2. /\ ranges[m2][q] = 1 /\ Unmerged(m2, q)
        /\ \E r2 \in jobs[m2] :
              q \in Split(r2, I) /\ attempts[m2][r2] = 1
              /\ <<m2, r2>> \notin reported
    BY <2>1 DEF PendingOnce
  <2>3. PICK r2 \in jobs[m2] :
            q \in Split(r2, I) /\ attempts[m2][r2] = 1
            /\ <<m2, r2>> \notin reported
    BY <2>2
  <2>4. Unmerged(m2, q)'
    <3>1. CASE m2 = m
      BY <1>7, <2>1, <2>2, <2>3, <3>1
    <3>2. CASE m2 # m
      BY <1>6, <2>2, <3>2 DEF Unmerged
    <3>3. QED
      BY <3>1, <3>2
  <2>5. QED
    BY <2>1, <2>2, <2>3, <2>4
<1>11. QED
  BY <1>8, <1>9, <1>10 DEF Clean

(* MergePartial deletes only the file of the head it merged, and no other *)
(* pending or reported piece is that head.                                *)
LEMMA MergePartialDInv ==
    ASSUME TypeOK, JobsDisjoint, NotRunClean, ReportedClean, PendingOnce,
           FilesKept, NEW m \in Modules, MergePartial(m)
    PROVE  Clean' /\ FilesKept'
<1>1. PICK h \in BlockRanges :
        /\ CanMerge(m, h)
        /\ nextExpectedStartBlock' =
              [nextExpectedStartBlock EXCEPT ![m] = h.ExclusiveEndBlock]
        /\ IF h.ExclusiveEndBlock % I = 0
           THEN UNCHANGED partialFiles
           ELSE partialFiles' = [partialFiles EXCEPT ![m] = @ \ {h}]
        /\ ranges' = PopHead(m, h)
  BY DEF MergePartial
<1>2. jobs' = jobs /\ attempts' = attempts /\ reported' = reported
  BY DEF MergePartial, envVars
<1>3. Clean'
  BY <1>1, <1>2, MergeClean
<1>4. ranges[m][h] = 1
  BY <1>1 DEF CanMerge, IsHead, Pending, PendingOnce
<1>5. ASSUME NEW m2 \in Modules, NEW q \in BlockRanges, q # h \/ m2 # m,
             q \in partialFiles[m2]
      PROVE  q \in partialFiles'[m2]
  <2>1. CASE h.ExclusiveEndBlock % I = 0
    <3>1. partialFiles' = partialFiles
      BY <1>1, <2>1
    <3>2. QED
      BY <1>5, <3>1
  <2>2. CASE h.ExclusiveEndBlock % I # 0
    <3>1. partialFiles' = [partialFiles EXCEPT ![m] = partialFiles[m] \ {h}]
      BY <1>1, <2>2
    <3>2. QED
      BY <1>5, <3>1 DEF TypeOK
  <2>3. QED
    BY <2>1, <2>2
<1>6. ASSUME NEW m2 \in Modules, NEW q \in BlockRanges, ranges'[m2][q] > 0
      PROVE  q \in partialFiles'[m2]
  <2>1. (q # h \/ m2 # m) /\ ranges'[m2][q] = ranges[m2][q]
    BY <1>1, <1>4, <1>6, PopHeadAt
  <2>2. q \in partialFiles[m2]
    BY <1>6, <2>1 DEF FilesKept
  <2>3. QED
    BY <1>5, <2>1, <2>2
<1>7. ASSUME NEW m2 \in Modules, NEW r2 \in BlockRanges, <<m2, r2>> \in reported',
             NEW q \in Split(r2, I)
      PROVE  q \in partialFiles'[m2]
  <2>1. <<m2, r2>> \in reported
    BY <1>2, <1>7
  <2>2. q \in BlockRanges /\ ranges[m2][q] = 0 /\ q \in partialFiles[m2]
    BY <2>1, SplitWithin DEF ReportedClean, FilesKept
  <2>3. q # h \/ m2 # m
    BY <1>4, <2>2
  <2>4. QED
    BY <1>5, <2>2, <2>3
<1>8. FilesKept'
  BY <1>6, <1>7 DEF FilesKept
<1>9. QED
  BY <1>3, <1>8

(* DInv is inductive when each job reports its success once.              *)
LEMMA StepDInv ==
    ASSUME MaxAttempts = 1
    PROVE  DInv /\ [Next]_vars => DInv'
<1> SUFFICES ASSUME DInv, [Next]_vars PROVE DInv'
  OBVIOUS
<1>1. /\ TypeOK /\ JobsDisjoint /\ NotRunClean /\ ReportedClean /\ PendingOnce
      /\ Clean /\ FilesKept
  BY DEF DInv, Clean
<1>2. TypeOK'
  BY <1>1, StepTypeOK
<1>3. JobsDisjoint'
  <2>1. UNCHANGED jobs
    BY DEF Next, RunJob, Squash, MergePartial, SquashDone, vars, envVars
  <2>2. QED
    BY <1>1, <2>1 DEF JobsDisjoint
<1>4. Clean' /\ FilesKept'
  <2>1. ASSUME NEW m \in Modules, NEW r \in BlockRanges, RunJob(m, r)
        PROVE  Clean' /\ FilesKept'
    BY <1>1, <2>1, RunJobDInv
  <2>2. ASSUME NEW m \in Modules, NEW r \in BlockRanges, Squash(m, r)
        PROVE  Clean' /\ FilesKept'
    BY <1>1, <2>2, SquashDInv
  <2>3. ASSUME NEW m \in Modules, MergePartial(m)
        PROVE  Clean' /\ FilesKept'
    BY <1>1, <2>3, MergePartialDInv
  <2>4. CASE UNCHANGED <<ranges, nextExpectedStartBlock, partialFiles,
                         jobs, attempts, reported>>
    BY <1>1, <2>4 DEF Clean, NotRunClean, ReportedClean, PendingOnce, Unmerged,
                      FilesKept
  <2>5. QED
    BY <2>1, <2>2, <2>3, <2>4
       DEF Next, SquashDone, vars, squashVars, storageVars, envVars
<1>5. QED
  BY <1>2, <1>3, <1>4 DEF DInv

(* DInv holds in every reachable state when each job reports once.        *)
THEOREM DeliveryInvariant ==
    ASSUME MaxAttempts = 1
    PROVE  Spec => []DInv
BY InitDInv, StepDInv, PTL DEF Spec

(* NoStaleHead (spec 4.F, at-most-once merge): when each job of the plan  *)
(* reports its success once, no range below nextExpectedStartBlock ever   *)
(* waits in a Squashable's list, for every number of modules, interval,  *)
(* split and target; the merge loop can never be blocked by a stale head. *)
THEOREM NoStaleHeadInv ==
    ASSUME MaxAttempts = 1
    PROVE  Spec => []NoStaleHead
<1>1. DInv => NoStaleHead
  BY DEF DInv, Clean, PendingOnce, NoStaleHead, Pending, Unmerged
<1>2. QED
  BY <1>1, DeliveryInvariant, PTL

(* PendingLoadable: when each job reports once, every range waiting in a  *)
(* Squashable's list has its .partial file, so LoadFrom in                *)
(* mergeAvailablePartials finds it: deleting a merged non-boundary        *)
(* partial never removes the file of another waiting range.               *)
THEOREM PendingLoadableInv ==
    ASSUME MaxAttempts = 1
    PROVE  Spec => []PendingLoadable
<1>1. DInv => PendingLoadable
  BY DEF DInv, FilesKept, PendingLoadable, Pending
<1>2. QED
  BY <1>1, DeliveryInvariant, PTL
=============================================================================
