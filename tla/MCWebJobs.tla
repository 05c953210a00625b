----------------------------- MODULE MCWebJobs -----------------------------
(* Model-checking instances of WebJobs: two jobs contend for one slot.      *)
EXTENDS WebJobs

CONSTANTS watched, other
=============================================================================
