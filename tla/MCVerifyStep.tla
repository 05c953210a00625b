---------------------------- MODULE MCVerifyStep ----------------------------
(* A model-checking instance of the analyze and verify steps' ledgers.       *)
EXTENDS VerifyStep, TLC

CONSTANTS u1, u2

Shrinking == {{u1, u2}, {u1}}   \* --limit on a resume
=============================================================================
