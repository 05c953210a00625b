----------------------------- MODULE MCCveBatch -----------------------------
(* Small instances of CveBatch for TLC.                                    *)
EXTENDS CveBatch, TLC

CONSTANTS r1, r2, c1, c2

FirstThenSecond == c1 :> 1 @@ c2 :> 2
=============================================================================
