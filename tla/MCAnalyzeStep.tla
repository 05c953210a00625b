--------------------------- MODULE MCAnalyzeStep ---------------------------
(***************************************************************************)
(* Small instances of AnalyzeStep for TLC.                                 *)
(***************************************************************************)
EXTENDS AnalyzeRefinement, TLC

CONSTANTS u1, u2

\* The same two units before enhancement has classified them and after; and
\* after, cut to the first one (--limit, --exploitable, the diff filter).
Unclassified(S) == [scope |-> S, cls |-> [u \in Units |-> "sentinel"]]
Classified(S)   == [scope |-> S, cls |-> [u \in Units |-> "final"]]

CutAfterwards == {Unclassified({u1, u2}), Classified({u1})}

SomeLegacy == {{}, {u1}}
=============================================================================
