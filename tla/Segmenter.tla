----------------------------- MODULE Segmenter -----------------------------
(***************************************************************************)
(* block.Segmenter (src/unnamed/part_003, package block): the coordinate   *)
(* system that maps a segment index to its block range and a block to its  *)
(* segment index, for a given save interval, initial block and exclusive   *)
(* end block.                                                              *)
(*                                                                         *)
(* Block numbers are uint64 and indices are Go ints; both are modelled     *)
(* with Width bits, so that the unsigned subtractions of computeCount and  *)
(* IndexForBlock wrap as they do in the code and int() reinterprets the    *)
(* result as a signed number.                                              *)
(***************************************************************************)
EXTENDS Naturals, Integers

CONSTANTS
    Intervals,      \* save intervals a segmenter may be built with
    MaxBlock,       \* bound: largest block number used as an input
    Width,          \* bits of uint64 and int in the model
    Nil             \* model value: a nil *Range

Word == 2 ^ Width

(* Word is a positive even number (the provers do not know 2^Width), and   *)
(* every difference of two block numbers fits in a signed int.            *)
ASSUME SegmenterAssumption ==
    /\ Intervals \subseteq Nat \ {0} /\ Intervals # {}
    /\ MaxBlock \in Nat
    /\ Width \in Nat \ {0}
    /\ Word \in Nat \ {0} /\ Word % 2 = 0
    /\ 2 * MaxBlock < Word \div 2

VARIABLE seg    \* the Segmenter a caller holds, or Nil before NewSegmenter

(* uint64 subtraction and addition, modulo 2^Width.                       *)
USub(a, b) == (a - b) % Word
UAdd(a, b) == (a + b) % Word

(* int(u): a uint64 reinterpreted as a two's-complement int.              *)
ToInt(u) == IF u >= Word \div 2 THEN u - Word ELSE u

NewRange(s, e) == [StartBlock |-> s, ExclusiveEndBlock |-> e]

MinOf(a, b) == IF a < b THEN a ELSE b

-----------------------------------------------------------------------------
(* Mutants: plausible slips in the helper that follows each one.          *)
MutComputeCountNoPlusOne(s) ==
    ToInt(USub(s.exclusiveEndBlock \div s.interval,
               s.initialBlock \div s.interval))
MutComputeCountSwapped(s) ==
    ToInt(UAdd(USub(s.initialBlock \div s.interval,
                    s.exclusiveEndBlock \div s.interval), 1))
MutFirstRangeFromInit(s) ==
    IF s.exclusiveEndBlock < s.initialBlock THEN Nil
    ELSE NewRange(s.initialBlock,
                  MinOf(s.initialBlock + s.interval, s.exclusiveEndBlock))
MutRangeFromBeginOffByOne(s, idx) ==
    IF idx >= s.count THEN Nil
    ELSE LET base == s.initialBlock - (s.initialBlock % s.interval)
                     + (idx - 1) * s.interval
         IN  NewRange(base, MinOf(base + s.interval, s.exclusiveEndBlock))
MutIndexForBlockUnsigned(s, blockNum) ==
    USub(blockNum \div s.interval, s.initialBlock \div s.interval)
-----------------------------------------------------------------------------

(* computeCount: segments from the initial block's to the end block's.    *)
computeCount(s) ==
    ToInt(UAdd(USub(s.exclusiveEndBlock \div s.interval,
                    s.initialBlock \div s.interval), 1))

(* NewSegmenter(interval, initialBlock, exclusiveEndBlock).               *)
NewSegmenterValue(interval, initialBlock, exclusiveEndBlock) ==
    LET s == [interval |-> interval, initialBlock |-> initialBlock,
              exclusiveEndBlock |-> exclusiveEndBlock, count |-> 0]
    IN  [s EXCEPT !.count = computeCount(s)]

(* firstRange: from the initial block to the end of its segment.          *)
firstRange(s) ==
    IF s.exclusiveEndBlock < s.initialBlock THEN Nil
    ELSE LET floorLowerBound == s.initialBlock - (s.initialBlock % s.interval)
         IN  NewRange(s.initialBlock,
                      MinOf(floorLowerBound + s.interval, s.exclusiveEndBlock))

(* rangeFromBegin: the idx-th aligned segment, cut at the end block.      *)
rangeFromBegin(s, idx) ==
    IF idx >= s.count THEN Nil
    ELSE LET base == s.initialBlock - (s.initialBlock % s.interval)
                     + idx * s.interval
         IN  NewRange(base, MinOf(base + s.interval, s.exclusiveEndBlock))

(* Range(idx).                                                            *)
Range(s, idx) ==
    IF idx < 0 THEN Nil
    ELSE IF idx = 0 THEN firstRange(s)
    ELSE rangeFromBegin(s, idx)

(* IndexForBlock(blockNum): uint64 difference of segment numbers, as int. *)
IndexForBlock(s, blockNum) ==
    ToInt(USub(blockNum \div s.interval, s.initialBlock \div s.interval))

(* IsPartial(segmentIndex); the code panics when the index is out of      *)
(* range, which the properties never ask.                                 *)
IsPartial(s, segmentIndex) ==
    Range(s, segmentIndex).ExclusiveEndBlock % s.interval # 0

-----------------------------------------------------------------------------
(* The segmenters callers build: a non-empty block range.                 *)
Inputs ==
    {in \in Intervals \X (0 .. MaxBlock) \X (0 .. MaxBlock) : in[2] < in[3]}

Init == seg = Nil

(* A caller builds a segmenter (NewSegmenter; NewStages builds several).  *)
NewSegmenter(interval, initialBlock, exclusiveEndBlock) ==
    seg' = NewSegmenterValue(interval, initialBlock, exclusiveEndBlock)

Next == \E in \in Inputs : NewSegmenter(in[1], in[2], in[3])

Spec == Init /\ [][Next]_seg

-----------------------------------------------------------------------------
(* The indices a caller may pass: 0 .. Count() - 1.                       *)
Indices == IF seg = Nil THEN {} ELSE 0 .. seg.count - 1

TypeOK ==
    seg = Nil \/
    /\ seg.interval \in Intervals
    /\ seg.initialBlock \in 0 .. MaxBlock
    /\ seg.exclusiveEndBlock \in 0 .. MaxBlock
    /\ seg.count \in 0 .. MaxBlock + 1

(* Reference: segment k of the segmenter is the k-th aligned window after *)
(* the initial block's, intersected with [initialBlock, exclusiveEnd).    *)
RefRange(s, k) ==
    LET w == (s.initialBlock \div s.interval + k) * s.interval
    IN  NewRange(IF w < s.initialBlock THEN s.initialBlock ELSE w,
                 MinOf(w + s.interval, s.exclusiveEndBlock))

(* Range(k), through firstRange and rangeFromBegin, returns the reference *)
(* segment for every valid index, and the valid indices are exactly the   *)
(* windows from the initial block's segment to the end block's segment.   *)
RangeMatchesReference ==
    seg # Nil =>
        /\ seg.count = seg.exclusiveEndBlock \div seg.interval
                       - seg.initialBlock \div seg.interval + 1
        /\ \A k \in Indices : Range(seg, k) = RefRange(seg, k)

(* Spec law: indexForBlock(range(k).start) = k for every valid k.         *)
IndexRoundTrip ==
    \A k \in Indices : IndexForBlock(seg, Range(seg, k).StartBlock) = k

(* IndexForBlock is the signed difference of segment numbers for every    *)
(* block below the exclusive end, including blocks before the initial     *)
(* block's segment, where the uint64 subtraction wraps and int() has to   *)
(* bring it back.  (Past the end the code returns an index too; the       *)
(* repository's TestNewStages expects a panic there: see README.)         *)
IndexForBlockSigned ==
    seg # Nil =>
        \A n \in 0 .. seg.exclusiveEndBlock - 1 :
            IndexForBlock(seg, n) = n \div seg.interval
                                    - seg.initialBlock \div seg.interval

(* Range (spec 3): every range Range(k) returns for a valid index is a    *)
(* block range, start < end.                                              *)
SegmentsNonEmpty ==
    \A k \in Indices :
        Range(seg, k) # Nil
        /\ Range(seg, k).StartBlock < Range(seg, k).ExclusiveEndBlock
=============================================================================
