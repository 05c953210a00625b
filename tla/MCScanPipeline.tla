-------------------------- MODULE MCScanPipeline ---------------------------
(* Instances of ScanPipeline: two units of one pattern, the first the only *)
(* caller of the second.                                                   *)
EXTENDS ScanPipeline, TLC

CONSTANTS caller, callee

CallGraph  == caller :> {} @@ callee :> {caller}
SameClass  == caller :> 1 @@ callee :> 1

Everything == [wants |-> Optional, docker |-> TRUE]
VerifyOnly == [wants |-> {"verify", "report"}, docker |-> FALSE]
Bare       == [wants |-> {"dynamic-test"}, docker |-> FALSE]
AllThree   == {Everything, VerifyOnly, Bare}
OnlyVerify == {VerifyOnly}

Reply(f, c) == [finding |-> f, claim |-> c]
Answer(a, s, p) == [asserts |-> a, says |-> s, path |-> p]

\* A candidate by its verdict, two by their claims, and a failed call.
Judged == {Reply("vulnerable", FALSE), Reply("safe", TRUE),
           Reply("inconclusive", TRUE), Reply("error", FALSE)}

\* Both finished outcomes, both unfinished ones, a verdict outside the
\* vocabulary, and a failed call.
Replied == {Answer("agree", "vulnerable", "reached"), Answer("disagree", "safe", "broken"),
            Answer("agree", "safe", "none"), Answer("nothing", "vulnerable", "none"),
            Answer("disagree", "offEnum", "none"), Answer("raise", "safe", "none")}

Proposed == {"vulnerable", "safe", Keep}
=============================================================================
