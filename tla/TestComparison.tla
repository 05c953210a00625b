--------------------------- MODULE TestComparison ---------------------------
(***************************************************************************)
(* The existing tests, run without and with a patch, and what their        *)
(* comparison says (utilities/autopatcher/existing_test_regression.py).    *)
(* What a run did is one thing (Runs); what is known of it is another      *)
(* (Results): a full report, one of totals only, the runner's last line,   *)
(* a bare exit code, or nothing.  compare_runs sees two results and never  *)
(* the runs; Comparisons pairs its answer with what it could not see.      *)
(*                                                                         *)
(* Abstracted: report formats (what identities and totals they carry);     *)
(* failures and errors, as failures; the container, as how the run ends.   *)
(* A report, where there is one, is true of the tests that ran.            *)
(***************************************************************************)
EXTENDS Naturals, FiniteSets

CONSTANT Tests

ASSUME TestsAssumption == IsFiniteSet(Tests)

-----------------------------------------------------------------------------
(* A run: the tests it reached, those that failed, and whether it went     *)
(* wrong otherwise (a crash after the results were written).               *)

Runs == {r \in [ran : SUBSET Tests, fails : SUBSET Tests, crashed : BOOLEAN] :
            r.fails \subseteq r.ran}

ExitsZero(r) == r.fails = {} /\ ~ r.crashed
Breaks(b, p) == {t \in b.ran \cap p.ran : t \in p.fails /\ t \notin b.fails}

(* _to_test_run_result.  ids: the failures it names; named: it has such a  *)
(* list; bad, total: its counts; shape: which counts the line carries.     *)
Result(level, r, ids, named, counted, shape) ==
    [level |-> level, exitsZero |-> ExitsZero(r), ids |-> ids, named |-> named,
     bad   |-> IF counted THEN Cardinality(r.fails) ELSE 0,
     total |-> IF counted THEN Cardinality(r.ran) ELSE 0, shape |-> shape]

Unusable(r) == Result(0, r, {}, FALSE, FALSE, "none")
ExitOnly(r) == Result(1, r, {}, FALSE, FALSE, "none")
Summary(r, named, shape) ==
    Result(2, r, IF named THEN r.fails ELSE {}, named, TRUE, shape)
CountsOnly(r) == Result(3, r, {}, TRUE, TRUE, "all")
FullReport(r) == Result(4, r, r.fails, TRUE, TRUE, "all")

(* A structured report of no test at all is no evidence; where nothing     *)
(* failed, all failures are named.                                         *)
Results(r) ==
    {Unusable(r), ExitOnly(r)}
    \cup {Summary(r, TRUE, shape) : shape \in {"all", "failures"}}
    \cup (IF r.fails = {} THEN {} ELSE {Summary(r, FALSE, shape) : shape \in {"all", "failures"}})
    \cup (IF r.ran = {} THEN {} ELSE {CountsOnly(r), FullReport(r)})

-----------------------------------------------------------------------------
(* compare_runs, by the weaker of the two kinds of evidence. *)

Verdict(status, newly) == [status |-> status, newly |-> newly]
Weaker(b, p) == IF b.level < p.level THEN b.level ELSE p.level

(* The names account for every failure that was counted. *)
Accounts(s) == s.named /\ Cardinality(s.ids) >= s.bad
ZeroTests(s) == s.level >= 2 /\ s.total = 0

ByIds(b, p) ==
    IF p.ids \ b.ids # {} THEN Verdict("NEW_FAILURES_DETECTED", p.ids \ b.ids)
    ELSE IF p.ids # {} THEN Verdict("PRE_EXISTING_FAILURES_ONLY", {})
    ELSE Verdict("PASS", {})

ByExit(b, p) ==
    IF p.exitsZero THEN Verdict("PASS", {})
    ELSE IF b.exitsZero THEN Verdict("NEW_FAILURES_DETECTED", {})
    ELSE Verdict("NOT_VERIFIED", {})

ByCounts(b, p) ==
    IF p.bad > b.bad THEN Verdict("NEW_FAILURES_DETECTED", {})
    ELSE IF p.bad > 0 THEN Verdict("NOT_VERIFIED", {})
    ELSE Verdict("PASS", {})

ByEvidence(b, p) ==
    IF Accounts(b) /\ Accounts(p) THEN ByIds(b, p)
    ELSE IF Weaker(b, p) = 1 \/ (Weaker(b, p) = 2 /\ b.shape # p.shape) THEN ByExit(b, p)
    ELSE ByCounts(b, p)

(* The results and the exit status disagree: neither is believed. *)
ExitDisagrees(b, p, v) ==
    b.exitsZero /\ ~ p.exitsZero /\ v.status \in {"PASS", "PRE_EXISTING_FAILURES_ONLY"}

CompareRuns(b, p) ==
    IF Weaker(b, p) = 0 \/ ZeroTests(b) \/ ZeroTests(p) THEN Verdict("NOT_VERIFIED", {})
    ELSE IF ExitDisagrees(b, p, ByEvidence(b, p)) THEN Verdict("NOT_VERIFIED", {})
    ELSE ByEvidence(b, p)

-----------------------------------------------------------------------------
(* evaluate_existing_test_comparison_with_plan: both sides, and the ways   *)
(* in which either does not complete, or the patched copy is not made.     *)

Compared == UNION {UNION {
    {[status |-> CompareRuns(x, y).status, newly |-> CompareRuns(x, y).newly,
      broken |-> Breaks(b, p), fresh |-> p.fails \ b.fails] : x \in Results(b), y \in Results(p)} :
    p \in Runs} : b \in Runs}

NotCompared == {[status |-> s, newly |-> {}, broken |-> {}, fresh |-> {}] :
                   s \in {"NOT_VERIFIED", "TEST_EXECUTION_ERROR"}}

Comparisons == Compared \cup NotCompared

GoodStatus == {"PASS", "PRE_EXISTING_FAILURES_ONLY"}

(* What is told of a comparison can be relied on: no test that passed      *)
(* before and fails now hides behind a good status, and a test is named as *)
(* newly failing only where it fails now and did not fail before.          *)
Honest(c) == (c.status \in GoodStatus => c.broken = {}) /\ c.newly \subseteq c.fresh

=============================================================================
