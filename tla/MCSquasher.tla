----------------------------- MODULE MCSquasher -----------------------------
(***************************************************************************)
(* Model-checking instance of Squasher: two store modules, one starting at *)
(* block 0 and one in the middle of a segment, a save interval of 2, jobs  *)
(* of 4 blocks and a target of 7 that is not a segment boundary, so that   *)
(* a store has several segments, several jobs that can finish out of      *)
(* order, and a last, partial segment.                                    *)
(***************************************************************************)
EXTENDS SquasherDeliveryProofs, TLC

CONSTANTS a, b

MCModules == {a, b}
MCModuleInitialBlock == (a :> 0) @@ (b :> 3)
=============================================================================
