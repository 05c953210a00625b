---------------------------- MODULE MCStageReplay ----------------------------
(* A small instance of StageReplay for TLC: every stage may be replayed, and *)
(* the traced run may stop after planning, after the Challenger, after the   *)
(* review (with or without a test comparison before it), or nowhere.         *)
EXTENDS StageReplay

AllStages == Stages
Lengths   == {1, 5, 7, 9, 11}
=============================================================================
