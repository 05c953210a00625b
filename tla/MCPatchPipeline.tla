--------------------------- MODULE MCPatchPipeline ---------------------------
(* A model-checking instance of PatchPipeline: a code file, which every     *)
(* planner's plan names, and a test, which the strategy may name as well or *)
(* instead, and which a diff may change without a hunk; two planning        *)
(* attempts.                                                                *)
EXTENDS PatchPipeline

CONSTANTS code, test, t1, t2

Named == {{code}}
=============================================================================
