---------------------------- MODULE MCSegmenter ----------------------------
(***************************************************************************)
(* Model-checking instance of Segmenter: intervals 1 to 4 (1 makes every   *)
(* block a segment, 4 leaves partial segments at both ends), every block   *)
(* range inside 0 .. 12, and 6-bit words, wide enough for every value the  *)
(* inputs produce and narrow enough that a wrap shows.                     *)
(***************************************************************************)
EXTENDS Segmenter

MCIntervals == 1 .. 4
=============================================================================
