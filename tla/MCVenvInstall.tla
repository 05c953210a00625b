--------------------------- MODULE MCVenvInstall ---------------------------
(* A model-checking instance of VenvInstall: three commands of two          *)
(* checkouts.                                                               *)
EXTENDS VenvInstall, TLC

CONSTANTS here, there   \* two checkouts of the engine
CONSTANTS c1, c2, c3    \* three terminals

SharedTree == c1 :> here @@ c2 :> here @@ c3 :> there
=============================================================================
