-------------------------- MODULE MCSquasherFaults --------------------------
(***************************************************************************)
(* Model-checking instance of SquasherFaults on the stores of MCSquasher:  *)
(* module a from block 0 and module b from block 3, interval 2, jobs of 4  *)
(* blocks, target 7.                                                       *)
(***************************************************************************)
EXTENDS SquasherFaultsDeliveryProofs, TLC

CONSTANTS a, b

MCModules == {a, b}
MCModuleInitialBlock == (a :> 0) @@ (b :> 3)
=============================================================================
