--------------------------- MODULE MCEnhanceAgents ---------------------------
(* A model-checking instance of EnhanceAgents.                              *)
EXTENDS EnhanceAgents, TLC

CONSTANTS u1, u2

Shrinking == {{u1, u2}, {u1}}   \* --limit, or a diff scope, on a resume
=============================================================================
