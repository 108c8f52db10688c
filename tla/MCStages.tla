----------------------------- MODULE MCStages -----------------------------
(***************************************************************************)
(* Model-checking instances of Stages.  Interval 2 and end block 7 give    *)
(* four segments, the last one partial.                                    *)
(***************************************************************************)
EXTENDS StagesProofs

(* Three stages whose modules all start at block 1, inside segment 0.     *)
MCSameInitBlocks == <<1, 1, 1>>

(* Two stages: stores from block 0, their consumers from block 4.         *)
MCLaterStage == <<0, 4>>
=============================================================================
