------------------------- MODULE MCCheckpointPaths -------------------------
(* A model-checking instance of CheckpointPaths: three units share a bare   *)
(* name, a fourth has a truncated name of its own.                          *)
EXTENDS CheckpointPaths, TLC

CONSTANTS foo, Foo, FOO, long   \* pkg/foo.py:run, pkg/Foo.py:run, ...
CONSTANTS shared, own      \* their file names
CONSTANTS w1, w2

Naming == foo :> shared @@ Foo :> shared @@ FOO :> shared @@ long :> own
PathSymmetry == Permutations({w1, w2}) \cup Permutations({foo, Foo, FOO})
=============================================================================
