---------------------------- MODULE MCBytesMeter ----------------------------
(***************************************************************************)
(* TLC instances of BytesMeter: two goroutines adding bytes, each at most  *)
(* twice, with a 16-value word (the totals stay below 16 unless a negative    *)
(* count wraps them).                                                      *)
(***************************************************************************)
EXTENDS BytesMeter

CONSTANTS c1, c2

MCCallers == {c1, c2}

(* A negative count for each method: AddBytesWritten panics on it,        *)
(* AddBytesRead converts it with uint64().                                *)
MCWriteCounts == {2, -1}
MCReadCounts == {2, -1}

(* Well-behaved callers only.                                             *)
MCPositiveCounts == {2}
=============================================================================
