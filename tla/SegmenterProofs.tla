-------------------------- MODULE SegmenterProofs --------------------------
(***************************************************************************)
(* Proofs about Segmenter for every save interval, every block bound and   *)
(* every word width that SegmenterAssumption allows (in particular the     *)
(* 64-bit words of the code): the segments Range returns are the aligned   *)
(* windows of the reference, and IndexForBlock undoes the uint64 wrap of   *)
(* its subtraction.                                                        *)
(***************************************************************************)
EXTENDS Segmenter, TLAPS

USE SegmenterAssumption

(* Euclidean division by a positive interval.                             *)
LEMMA DivMod ==
    ASSUME NEW x \in Nat, NEW i \in Nat \ {0}
    PROVE  x = (x \div i) * i + (x % i)
OBVIOUS

(* The quotient and the remainder are in range.                           *)
LEMMA DivBounds ==
    ASSUME NEW x \in Nat, NEW i \in Nat \ {0}
    PROVE  x \div i \in 0 .. x /\ x % i \in 0 .. i - 1
OBVIOUS

(* Division by a positive interval is monotone.                           *)
LEMMA DivMonotone ==
    ASSUME NEW x \in Nat, NEW y \in Nat, NEW i \in Nat \ {0}, x <= y
    PROVE  x \div i <= y \div i
OBVIOUS

(* A multiple of the interval divides back exactly.                       *)
LEMMA DivMul ==
    ASSUME NEW q \in Nat, NEW i \in Nat \ {0}
    PROVE  (q * i) \div i = q
OBVIOUS

(* A signed value that fits in a signed int survives the round trip       *)
(* through uint64: int(uint64(d)) = d.                                    *)
LEMMA ToIntOfSmall ==
    ASSUME NEW d \in Int, -(Word \div 2) <= d, d < Word \div 2
    PROVE  ToInt(d % Word) = d
BY DEF ToInt
(* A value below the word is its own residue.                             *)
LEMMA ModSmall ==
    ASSUME NEW d \in 0 .. Word - 1
    PROVE  d % Word = d
OBVIOUS

-----------------------------------------------------------------------------
(* The segmenter NewSegmenter builds, with the count as the plain         *)
(* difference of segment numbers.                                         *)
SegOf(i, b0, bN) ==
    [interval |-> i, initialBlock |-> b0, exclusiveEndBlock |-> bN,
     count |-> bN \div i - b0 \div i + 1]

(* computeCount neither wraps nor turns negative for a non-empty range:   *)
(* NewSegmenter returns SegOf.                                            *)
LEMMA NewSegmenterIsSegOf ==
    ASSUME NEW i \in Nat \ {0}, NEW b0 \in 0 .. MaxBlock,
           NEW bN \in 0 .. MaxBlock, b0 < bN
    PROVE  /\ NewSegmenterValue(i, b0, bN) = SegOf(i, b0, bN)
           /\ bN \div i - b0 \div i + 1 \in 1 .. MaxBlock + 1
<1> DEFINE q0 == b0 \div i
           q1 == bN \div i
<1>2. q0 \in 0 .. b0 /\ q1 \in 0 .. bN /\ q0 <= q1
  <2>1. q0 \in 0 .. b0
    BY DivBounds
  <2>2. q1 \in 0 .. bN
    BY DivBounds
  <2>3. q0 <= q1
    BY DivMonotone
  <2>4. QED
    BY <2>1, <2>2, <2>3
<1>3. USub(q1, q0) = q1 - q0
  BY <1>2, ModSmall DEF USub
<1>4. UAdd(USub(q1, q0), 1) = q1 - q0 + 1
  BY <1>2, <1>3, ModSmall DEF UAdd
<1>5. ToInt(q1 - q0 + 1) = q1 - q0 + 1
  BY <1>2, ModSmall, ToIntOfSmall
<1>6. computeCount([interval |-> i, initialBlock |-> b0,
                    exclusiveEndBlock |-> bN, count |-> 0]) = q1 - q0 + 1
  BY <1>4, <1>5 DEF computeCount
<1>7. QED
  BY <1>2, <1>6 DEF NewSegmenterValue, SegOf
(* IndexForBlock's uint64 subtraction, read back as an int, is the signed *)
(* difference of the two segment numbers for every block in range.       *)
LEMMA IndexIsDifference ==
    ASSUME NEW i \in Nat \ {0}, NEW b0 \in 0 .. MaxBlock,
           NEW n \in 0 .. MaxBlock
    PROVE  ToInt(USub(n \div i, b0 \div i)) = n \div i - b0 \div i
<1> DEFINE d == n \div i - b0 \div i
<1>1. n \div i \in 0 .. n /\ b0 \div i \in 0 .. b0
  BY DivBounds
<1>2. d \in Int /\ -(Word \div 2) <= d /\ d < Word \div 2
  BY <1>1
<1>3. QED
  BY <1>2, ToIntOfSmall DEF USub

(* Segment k of a built segmenter, as Range computes it through firstRange *)
(* and rangeFromBegin, is the reference window, and it starts inside the   *)
(* block range: at the initial block for k = 0 and at the aligned window   *)
(* start (b0 \div i + k) * i after it.                                     *)
LEMMA RangeIsReference ==
    ASSUME NEW i \in Nat \ {0}, NEW b0 \in 0 .. MaxBlock,
           NEW bN \in 0 .. MaxBlock, b0 < bN,
           NEW k \in 0 .. bN \div i - b0 \div i
    PROVE  LET s == SegOf(i, b0, bN)
           IN  /\ Range(s, k) = RefRange(s, k)
               /\ Range(s, k).StartBlock =
                     IF k = 0 THEN b0 ELSE (b0 \div i + k) * i
               /\ Range(s, k).StartBlock \in 0 .. MaxBlock
<1> DEFINE s == SegOf(i, b0, bN)
           q0 == b0 \div i
           q1 == bN \div i
           w == (q0 + k) * i
<1>1. /\ q0 \in 0 .. b0 /\ q1 \in 0 .. bN
      /\ b0 = q0 * i + (b0 % i) /\ b0 % i \in 0 .. i - 1
      /\ bN = q1 * i + (bN % i) /\ bN % i \in 0 .. i - 1
  <2>1. q0 \in 0 .. b0
    BY DivBounds
  <2>2. q1 \in 0 .. bN
    BY DivBounds
  <2>3. b0 = q0 * i + (b0 % i)
    BY DivMod
  <2>4. bN = q1 * i + (bN % i)
    BY DivMod
  <2>5. b0 % i \in 0 .. i - 1 /\ bN % i \in 0 .. i - 1
    OBVIOUS
  <2>6. QED
    BY <2>1, <2>2, <2>3, <2>4, <2>5
<1>2. s.interval = i /\ s.initialBlock = b0 /\ s.exclusiveEndBlock = bN
      /\ s.count = q1 - q0 + 1
  BY DEF SegOf
<1>3. RefRange(s, k) =
        NewRange(IF w < b0 THEN b0 ELSE w, MinOf(w + i, bN))
  BY <1>2 DEF RefRange
<1>4. CASE k = 0
  <2>1. w = q0 * i /\ w <= b0
    BY <1>1, <1>4
  <2>2. Range(s, k) = NewRange(b0, MinOf(w + i, bN))
    BY <1>1, <1>2, <1>4, <2>1 DEF Range, firstRange
  <2>3. Range(s, k) = RefRange(s, k)
    BY <1>3, <2>1, <2>2
  <2>4. QED
    BY <1>4, <2>2, <2>3 DEF NewRange
<1>5. CASE k # 0
  <2>1. w = q0 * i + k * i
    OBVIOUS
  <2>2. b0 < w
    <3>1. (q0 + 1) * i <= w
      BY <1>5
    <3>2. QED
      BY <1>1, <3>1
  <2>3. w <= q1 * i /\ q1 * i <= bN
    <3>1. q0 + k <= q1
      OBVIOUS
    <3>2. QED
      BY <1>1, <3>1
  <2>4. Range(s, k) = NewRange(w, MinOf(w + i, bN))
    BY <1>1, <1>2, <1>5, <2>1 DEF Range, rangeFromBegin
  <2>5. QED
    BY <1>3, <1>5, <2>2, <2>3, <2>4 DEF NewRange
<1>6. QED
  BY <1>4, <1>5
-----------------------------------------------------------------------------
(* Every step builds the segmenter of a non-empty block range.            *)
LEMMA NextBuilds ==
    ASSUME Next
    PROVE  \E i \in Intervals, b0 \in 0 .. MaxBlock, bN \in 0 .. MaxBlock :
              /\ b0 < bN
              /\ seg' = SegOf(i, b0, bN)
<1>1. PICK in \in Inputs : NewSegmenter(in[1], in[2], in[3])
  BY DEF Next
<1>2. /\ in[1] \in Intervals /\ in[2] \in 0 .. MaxBlock
      /\ in[3] \in 0 .. MaxBlock /\ in[2] < in[3]
  BY DEF Inputs
<1>3. in[1] \in Nat \ {0}
  BY <1>2
<1>4. seg' = SegOf(in[1], in[2], in[3])
  BY <1>1, <1>2, <1>3, NewSegmenterIsSegOf DEF NewSegmenter
<1>5. QED
  BY <1>2, <1>4

(* The invariants below depend on the segmenter alone, so each holds      *)
(* initially (no segmenter) and after every NewSegmenter, whatever held   *)
(* before: they need no strengthening.                                    *)

(* Type correctness: the fields of a segmenter stay in their ranges, in   *)
(* particular the count is neither negative nor wrapped.                  *)
THEOREM TypeCorrect == Spec => []TypeOK
<1>1. Init => TypeOK
  BY DEF Init, TypeOK
<1>2. ASSUME Next PROVE TypeOK'
  <2>1. PICK i \in Intervals, b0 \in 0 .. MaxBlock, bN \in 0 .. MaxBlock :
            b0 < bN /\ seg' = SegOf(i, b0, bN)
    BY <1>2, NextBuilds
  <2>2. bN \div i - b0 \div i + 1 \in 0 .. MaxBlock + 1
    BY <2>1, NewSegmenterIsSegOf
  <2>3. QED
    BY <2>1, <2>2 DEF TypeOK, SegOf
<1>3. TypeOK /\ UNCHANGED seg => TypeOK'
  BY DEF TypeOK
<1>4. QED
  BY <1>1, <1>2, <1>3, PTL DEF Spec

(* Range(k) of every segmenter the code builds, for every valid index, is *)
(* the k-th aligned window cut to [initialBlock, exclusiveEndBlock), and  *)
(* Count() is the number of windows, for every interval and word width.  *)
THEOREM RangeMatchesReferenceInv == Spec => []RangeMatchesReference
<1>1. Init => RangeMatchesReference
  BY DEF Init, RangeMatchesReference
<1>2. ASSUME Next PROVE RangeMatchesReference'
  <2>1. PICK i \in Intervals, b0 \in 0 .. MaxBlock, bN \in 0 .. MaxBlock :
            b0 < bN /\ seg' = SegOf(i, b0, bN)
    BY <1>2, NextBuilds
  <2>2. seg'.count = bN \div i - b0 \div i + 1
    BY <2>1 DEF SegOf
  <2>3. ASSUME NEW k \in Indices' PROVE Range(seg', k) = RefRange(seg', k)
    <3>1. k \in 0 .. bN \div i - b0 \div i
      BY <2>2, <2>3 DEF Indices
    <3>2. QED
      BY <2>1, <3>1, RangeIsReference
  <2>4. QED
    BY <2>1, <2>2, <2>3 DEF RangeMatchesReference, SegOf
<1>3. RangeMatchesReference /\ UNCHANGED seg => RangeMatchesReference'
  BY DEF RangeMatchesReference, Indices
<1>4. QED
  BY <1>1, <1>2, <1>3, PTL DEF Spec

(* IndexForBlock undoes the wrap of its uint64 subtraction: it is the     *)
(* signed difference of segment numbers for every block, including the   *)
(* blocks before the initial block's segment.                             *)
THEOREM IndexForBlockSignedInv == Spec => []IndexForBlockSigned
<1>1. Init => IndexForBlockSigned
  BY DEF Init, IndexForBlockSigned
<1>2. ASSUME Next PROVE IndexForBlockSigned'
  <2>1. PICK i \in Intervals, b0 \in 0 .. MaxBlock, bN \in 0 .. MaxBlock :
            b0 < bN /\ seg' = SegOf(i, b0, bN)
    BY <1>2, NextBuilds
  <2>2. ASSUME NEW n \in 0 .. bN - 1
        PROVE  IndexForBlock(seg', n) = n \div i - b0 \div i
    <3>1. i \in Nat \ {0} /\ n \in 0 .. MaxBlock
      OBVIOUS
    <3>2. QED
      BY <2>1, <3>1, IndexIsDifference DEF IndexForBlock, SegOf
  <2>3. QED
    BY <2>1, <2>2 DEF IndexForBlockSigned, SegOf
<1>3. IndexForBlockSigned /\ UNCHANGED seg => IndexForBlockSigned'
  BY DEF IndexForBlockSigned
<1>4. QED
  BY <1>1, <1>2, <1>3, PTL DEF Spec

(* The spec's law indexForBlock(range(k).start) = k, for every valid      *)
(* index of every segmenter the code builds.                              *)
THEOREM IndexRoundTripInv == Spec => []IndexRoundTrip
<1>1. Init => IndexRoundTrip
  BY DEF Init, IndexRoundTrip, Indices
<1>2. ASSUME Next PROVE IndexRoundTrip'
  <2>1. PICK i \in Intervals, b0 \in 0 .. MaxBlock, bN \in 0 .. MaxBlock :
            b0 < bN /\ seg' = SegOf(i, b0, bN)
    BY <1>2, NextBuilds
  <2>2. i \in Nat \ {0} /\ b0 \div i \in Nat
    <3>1. i \in Nat \ {0}
      OBVIOUS
    <3>2. QED
      BY <3>1
  <2>3. ASSUME NEW k \in Indices'
        PROVE  IndexForBlock(seg', Range(seg', k).StartBlock) = k
    <3>1. k \in 0 .. bN \div i - b0 \div i
      BY <2>1, <2>3 DEF Indices, SegOf
    <3> DEFINE n == Range(seg', k).StartBlock
    <3>2. /\ n = IF k = 0 THEN b0 ELSE (b0 \div i + k) * i
          /\ n \in 0 .. MaxBlock
      BY <2>1, <3>1, RangeIsReference
    <3>3. IndexForBlock(seg', n) = n \div i - b0 \div i
      BY <2>1, <2>2, <3>2, IndexIsDifference DEF IndexForBlock, SegOf
    <3>4. n \div i = b0 \div i + k
      <4>1. CASE k = 0
        BY <3>2, <4>1
      <4>2. CASE k # 0
        BY <2>2, <3>1, <3>2, <4>2, DivMul
      <4>3. QED
        BY <4>1, <4>2
    <3>5. QED
      BY <2>2, <3>1, <3>3, <3>4
  <2>4. QED
    BY <2>3 DEF IndexRoundTrip
<1>3. IndexRoundTrip /\ UNCHANGED seg => IndexRoundTrip'
  BY DEF IndexRoundTrip, Indices
<1>4. QED
  BY <1>1, <1>2, <1>3, PTL DEF Spec
=============================================================================
