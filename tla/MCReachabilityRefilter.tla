----------------------- MODULE MCReachabilityRefilter -----------------------
(* A model-checking instance of ReachabilityRefilter: four units in batches *)
(* of two, and replies that signal the first and the last of them, so that  *)
(* a record is signalled before it is written, after, and by two batches;   *)
(* two languages, of which one has a harness and no entry point detected.   *)
EXTENDS ReachabilityRefilter

CONSTANTS k1, k2, python, rust

OneEach  == {{}, {<<1, k1>>}, {<<1, k2>>, <<4, k1>>}}
Stamps   == <<python, python, rust, rust>>
CallPairs == {<<1, 2>>, <<4, 3>>}
Both     == {python, rust}
Found    == {[graphs |-> Both,     detected |-> {2, 3}, library |-> FALSE],
             [graphs |-> {python}, detected |-> {},       library |-> TRUE]}
=============================================================================
