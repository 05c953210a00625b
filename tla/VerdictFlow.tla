---------------------------- MODULE VerdictFlow ----------------------------
(***************************************************************************)
(* What may change a unit's verdict between the model's first answer and   *)
(* the report: the Stage-1 consistency pass (utilities/                    *)
(* stage1_consistency.py), the admission to Stage 2 and its counting       *)
(* (core/verifier.py), the reading of a Stage-2 answer and the Stage-2     *)
(* consistency pass (utilities/finding_verifier.py), the envelope of the   *)
(* scan (core/scanner.py) and the findings of the report                   *)
(* (core/reporter.py).                                                     *)
(*                                                                         *)
(* Abstracted: a row is its finding; the `verdict` field is only read      *)
(* where `finding` is missing, and by two counters that are not modelled.  *)
(* A claim is a CWE or an attack vector of an inconclusive row, or the     *)
(* enhancer's classification of a safe one as exploitable.  Every string   *)
(* outside the vocabulary is "offEnum".                                    *)
(***************************************************************************)
EXTENDS Naturals, FiniteSets

\* FINDING_VERDICT_ORDER, and SEVERITY_FINDING_VERDICTS.
Verdicts == {"vulnerable", "bypassable", "inconclusive", "protected", "safe"}
Positive == {"vulnerable", "bypassable"}

\* What a row's finding may be: Stage 1 leaves no offEnum, Stage 2 no error.
Findings == Verdicts \cup {"error", "offEnum"}

Severity == [f \in Findings |->
    CASE f = "vulnerable"   -> 5
      [] f = "bypassable"   -> 4
      [] f = "inconclusive" -> 3
      [] f = "protected"    -> 2
      [] f = "safe"         -> 1
      [] OTHER              -> 0]

MoreSevere(a, b) == IF Severity[a] >= Severity[b] THEN a ELSE b

DisclosureDropped  == {"rejected", "safe", "protected", "inconclusive"}
DisclosureEligible == {"confirmed", "agreed", "unverified", "vulnerable",
                       "bypassable", "error"}

\* A row of results.json, and what Stage 2 makes of it.  `stage` is the
\* outcome (agree, incomplete and error of the code), `origin` the Stage-1
\* finding stamped on an escalated row, `path` what the exploit path shows,
\* `rewritten` the consistency pass's mark; `about` is the finding the answer
\* was given about (history).
Stages == {"stage1", "agreed", "disagreed", "incomplete", "error"}
Paths  == {"none", "broken", "reached"}
Row == [finding : Findings, claim : BOOLEAN, origin : {"none", "inconclusive", "safe"},
        stage : Stages, path : Paths, rewritten : BOOLEAN, about : Findings]

Stage1Row(f, c) == [finding |-> f, claim |-> c, origin |-> "none", stage |-> "stage1",
                    path |-> "none", rewritten |-> FALSE, about |-> f]

-----------------------------------------------------------------------------
(* Stage 1 and the admission to Stage 2.                                   *)

\* The consistency pass writes severity findings only; with them it clears an
\* error.  A downgrade is blocked, or lands in `verdict` alone.
Stage1Corrected(f, new) == IF new \in Positive THEN new ELSE f

\* stage2_candidates.
IsCandidate(row) ==
    \/ row.finding \in Positive
    \/ row.claim /\ row.finding \in {"inconclusive", "safe"}

\* The origin run_verification stamps on the rows it escalates.
Escalated(row) == IF row.finding \in {"inconclusive", "safe"}
                  THEN [row EXCEPT !.origin = row.finding] ELSE row

-----------------------------------------------------------------------------
(* Stage 2.  An answer asserts `agree` or `disagree`, or finishes without  *)
(* asserting either, or the adapter raises; it may supply any verdict.     *)

Answers == [asserts : {"agree", "disagree", "nothing", "raise"},
            says : Findings \ {"error"}, path : Paths]

\* Mutant of Answered: an unfinished answer's verdict is taken as it is.
AnsweredVerbatim(row, a) ==
    LET unfinished == a.asserts = "nothing" \/ (a.asserts = "agree" /\ a.says # row.finding)
    IN  IF a.asserts = "raise"
        THEN [row EXCEPT !.stage = "error", !.about = row.finding]
        ELSE [row EXCEPT !.about = row.finding, !.path = a.path, !.finding = a.says,
                         !.stage = IF unfinished THEN "incomplete"
                                   ELSE IF a.asserts = "agree" THEN "agreed" ELSE "disagreed"]

\* _parse_finish_result and _verify_one.  An unfinished answer, a contradictory
\* one included, never authors a downgrade.
Answered(row, a) ==
    LET unfinished == a.asserts = "nothing" \/ (a.asserts = "agree" /\ a.says # row.finding)
    IN  IF a.asserts = "raise"
        THEN [row EXCEPT !.stage = "error", !.about = row.finding]
        ELSE [row EXCEPT !.about = row.finding, !.path = a.path,
                         !.finding = IF unfinished THEN MoreSevere(row.finding, a.says) ELSE a.says,
                         !.stage = IF unfinished THEN "incomplete"
                                   ELSE IF a.asserts = "agree" THEN "agreed" ELSE "disagreed"]

\* verify_batch restores the answer of a checkpoint, finding included.
Restored(row, cp) == [row EXCEPT !.finding = cp.finding, !.stage = cp.stage,
                                 !.path = cp.path, !.about = cp.about]

\* _check_consistency: the pattern groups leave the escalated rows out, and a
\* group is looked at when its verdicts differ.
Inconsistent(rows, group) ==
    LET members == {u \in group : rows[u].origin = "none"}
    IN  Cardinality({rows[u].finding : u \in members}) > 1

Incomplete(row) == row.stage \in {"incomplete", "error"}

\* Neither a conclusively broken path nor a conclusively reached one gives way
\* to a pattern, and an unfinished verification is not dropped.
MayRewrite(row, new) ==
    /\ new \in Verdicts /\ row.origin = "none"
    /\ ~(row.path = "broken" /\ ~Incomplete(row))
    /\ ~(Incomplete(row) /\ new \in DisclosureDropped)
    /\ ~(row.path = "reached" /\ new \in DisclosureDropped)

Rewritten(row, new) ==
    IF MayRewrite(row, new) /\ new # row.finding
    THEN [row EXCEPT !.finding = new, !.rewritten = TRUE] ELSE row

-----------------------------------------------------------------------------
(* Counting.  Metrics are records of cardinalities over the rows.          *)

Count(rows, P(_)) == Cardinality({u \in DOMAIN rows : P(rows[u])})

\* AnalysisMetrics of Stage 1 (_count_verdicts).
Stage1Metrics(rows) ==
    [f \in Verdicts \cup {"errors", "needs_review"} |->
        CASE f \in Verdicts -> Count(rows, LAMBDA r : r.finding = f)
          [] f = "errors"   -> Count(rows, LAMBDA r : r.finding = "error")
          [] OTHER          -> 0]

\* _count_verification_outcomes: what each verified row adds to a bucket.
CountedError(r) == r.stage = "error" \/ (r.stage \in {"agreed", "disagreed"}
                                         /\ r.finding \notin Verdicts)
Confirmed(r)    == r.stage \in {"agreed", "disagreed"} /\ r.finding \in Positive

\* A non-positive row that Stage 2, or the consistency pass, brought there.
Landed(r, f) == /\ r.finding = f
                /\ \/ r.stage = "disagreed" /\ r.origin # f
                   \/ r.stage = "agreed" /\ r.rewritten

\* Mutant of MovedFrom: an unfinished upgrade retires the Stage-1 count too.
MovedFromUnfinished(r, f) ==
    r.origin = f /\ (r.stage = "error" \/ r.finding # f)

\* The escalated rows that have left the column Stage 1 counted them in.
MovedFrom(r, f) ==
    r.origin = f /\ (r.stage = "error" \/ (r.stage # "incomplete" /\ r.finding # f))

\* _post_verify_metrics: the envelope of the scan, from Stage 1's and the
\* buckets of the verified rows.
Envelope(m, rows) ==
    [f \in Verdicts \cup {"errors", "needs_review"} |->
        CASE f = "vulnerable" -> Count(rows, Confirmed)
          [] f = "bypassable" -> 0
          [] f \in {"inconclusive", "protected", "safe"} ->
                m[f] + Count(rows, LAMBDA r : Landed(r, f))
                     - Count(rows, LAMBDA r : MovedFrom(r, f))
          [] f = "errors" -> m[f] + Count(rows, CountedError)
          [] f = "needs_review" -> Count(rows, LAMBDA r : r.stage = "incomplete")]

\* _write_verified_results: the recount of the merged rows, error first.
Column(r) ==
    IF r.stage = "error" THEN "errors"
    ELSE IF r.stage = "incomplete" THEN "needs_review"
    ELSE IF r.finding \in Verdicts THEN r.finding ELSE "errors"

Recount(rows) == [f \in Verdicts \cup {"errors", "needs_review"} |->
                    Count(rows, LAMBDA r : Column(r) = f)]

-----------------------------------------------------------------------------
(* The report.                                                             *)

\* The population of the findings: by the final finding, errored and
\* incomplete rows included.
ConfirmedFindings(rows) == {u \in DOMAIN rows : rows[u].finding \in Positive}

\* _dedup_caller_callee: a callee goes when its sole caller is a finding of the
\* same class; class 0 is unknown.
Deduplicated(found, Callers, Cwe) ==
    {u \in found : ~\E c \in found : /\ Callers[u] = {c}
                                     /\ Cwe[c] # 0 /\ Cwe[c] = Cwe[u]}

\* build_pipeline_output: the stage2_verdict of a finding.
Stage2Verdict(row) ==
    CASE row.stage = "agreed"    -> "agreed"
      [] Incomplete(row)         -> "unverified"
      [] row.stage = "disagreed" -> IF row.finding \in Positive THEN row.finding ELSE "rejected"
      [] OTHER                   -> row.finding
=============================================================================
