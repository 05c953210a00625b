---------------------------- MODULE ScanPipeline ----------------------------
(***************************************************************************)
(* The scan orchestrator (core/scanner.py, scan_repository): parse, app    *)
(* context, LLM reachability, enhance, analyze, verify, build-output,      *)
(* dynamic test, report, one after the other, each under a step report     *)
(* (core/step_report.py).  Parse, analyze and build-output abort the scan  *)
(* when they fail; the others are optional, and a failed one is recorded   *)
(* as skipped.  Scans follow one another on one output directory, where    *)
(* the checkpoints of analyze and of verify stay; a scan may be killed.    *)
(*                                                                         *)
(* Abstracted: what a row says is module VerdictFlow's; the pools behind   *)
(* analyze and verify are one unit at a time here (AnalyzeStep has     *)
(* the threads).  All scans use one backend, so that sync_identity  *)
(* adopts the checkpoints.  Costs, languages and the diff filter are left  *)
(* out, and so is a dataset the reachability step cannot read.             *)
(***************************************************************************)
EXTENDS VerdictFlow

CONSTANTS
    Units,           \* ids of the code units
    Group,           \* units whose code follows one pattern
    Callers, Cwe,    \* the reverse call graph, and the class of a unit's finding
    Requests,        \* what a scan may be asked for
    Stage1Replies,   \* [finding, claim] a Stage-1 call may leave
    Stage2Answers,   \* answers of a Stage-2 call
    Proposals,       \* verdicts a consistency call may propose, or Keep
    MaxScans,        \* bound: scans started
    NoRow, NoOutput, Keep

Optional == {"app-context", "llm-reachability", "enhance", "verify",
             "dynamic-test", "report"}

ASSUME ScanAssumption ==
    /\ IsFiniteSet(Units) /\ Group \subseteq Units
    /\ Callers \in [Units -> SUBSET Units] /\ Cwe \in [Units -> Nat]
    /\ Requests \subseteq [wants : SUBSET Optional, docker : BOOLEAN]
    /\ Stage1Replies \subseteq [finding : Verdicts \cup {"error"}, claim : BOOLEAN]
    /\ Stage2Answers \subseteq Answers
    /\ Proposals \subseteq Findings \cup {Keep}
    /\ MaxScans \in Nat
    /\ NoRow \notin Row /\ Keep \notin Findings

VARIABLES
    \* On disk.
    asked,      \* analyze checkpoints: the row of a unit, before consistency
    answered,   \* verify checkpoints: the row of a unit, before consistency
    published,  \* results.json
    dataset,    \* the units of the dataset downstream steps read
    \* In the process.
    pc, request,
    unitsCount, \* result.units_count
    rows,       \* the active results: Stage 1's, or the verified ones
    work,       \* the rows verify is working on
    metrics, hasFindings,
    skipped,    \* result.skipped_steps
    reports,    \* what each optional step's report says: "none" was written, it is
                \* "skipped", or "done"; "partial" is told apart for the reports only
    output,     \* pipeline_output.json of this scan
    outdated,   \* the rebuild of pipeline_output.json failed
    docs,       \* units this scan wrote a disclosure for
    ended,      \* how the last scan ended
    scans       \* scans started (history, bounded)

disk == <<asked, answered, published, dataset>>
vars == <<disk, pc, request, unitsCount, rows, work, metrics, hasFindings, skipped,
          reports, output, outdated, docs, ended, scans>>

NoRows == [u \in {} |-> NoRow]

\* The new rows, over the old ones.
Merged(new, old) == [u \in DOMAIN new \cup DOMAIN old |->
                        IF u \in DOMAIN new THEN new[u] ELSE old[u]]

NoMetrics == Stage1Metrics(NoRows)
NoRequest == [wants |-> {}, docker |-> FALSE]

Goto(l) == pc' = l
Requested(s) == s \in request.wants

\* _record_skip, and the step report written when a step ends.
Skip(s)   == skipped' = skipped \cup {s}
Ran(s, status) == reports' = [reports EXCEPT ![s] = status]

Init ==
    /\ asked = [u \in Units |-> NoRow] /\ answered = [u \in Units |-> NoRow]
    /\ published = NoRows /\ dataset = {}
    /\ pc = "idle" /\ request = NoRequest /\ unitsCount = 0
    /\ rows = NoRows /\ work = NoRows /\ metrics = NoMetrics /\ hasFindings = FALSE
    /\ skipped = {} /\ reports = [s \in Optional |-> "none"]
    /\ output = NoOutput /\ outdated = FALSE /\ docs = {}
    /\ ended = "not started" /\ scans = 0

-----------------------------------------------------------------------------
(* Up to the dataset that is analyzed.                                     *)

\* A process that starts knows nothing, and one that ended knows nothing either.
Forget ==
    /\ unitsCount' = 0 /\ rows' = NoRows /\ work' = NoRows
    /\ metrics' = NoMetrics /\ hasFindings' = FALSE
    /\ skipped' = {} /\ reports' = [s \in Optional |-> "none"]
    /\ output' = NoOutput /\ outdated' = FALSE /\ docs' = {}

Start(r) ==
    /\ pc = "idle" /\ scans < MaxScans
    /\ scans' = scans + 1 /\ request' = r /\ ended' = "running"
    /\ Forget /\ Goto("parse")
    /\ UNCHANGED disk

Parse ==
    /\ pc = "parse"
    /\ dataset' = Units /\ unitsCount' = Cardinality(Units)
    /\ Goto("app-context")
    /\ UNCHANGED <<asked, answered, published, request, rows, work, metrics, hasFindings,
                   skipped, reports, output, outdated, docs, ended, scans>>

\* What the optional steps before analyze leave alone.
Upstream == UNCHANGED <<asked, answered, published, request, rows, work, metrics, hasFindings,
                        output, outdated, docs, ended, scans>>

AppContext ==
    /\ pc = "app-context" /\ Goto("llm-reachability")
    /\ \/ /\ ~Requested("app-context") /\ Skip("app-context") /\ UNCHANGED reports
       \/ /\ Requested("app-context") /\ Ran("app-context", "done") /\ UNCHANGED skipped
       \/ /\ Requested("app-context") /\ Ran("app-context", "skipped") /\ Skip("app-context")
    /\ UNCHANGED <<dataset, unitsCount>> /\ Upstream

\* What a failed re-filter leaves in the count: dataset_persisted decides.
RestoreCount(persisted, before, kept) == IF persisted THEN Cardinality(kept) ELSE before

\* The re-filter counts, then writes the dataset, then fills in the report; it
\* may fail at each point.
Reachability ==
    /\ pc = "llm-reachability" /\ Goto("enhance")
    /\ \/ /\ ~Requested("llm-reachability")
          /\ Skip("llm-reachability") /\ UNCHANGED <<reports, dataset, unitsCount>>
       \/ /\ Requested("llm-reachability")
          /\ \E kept \in SUBSET dataset : dataset' = kept /\ unitsCount' = Cardinality(kept)
          /\ Ran("llm-reachability", "done") /\ UNCHANGED skipped
       \/ /\ Requested("llm-reachability")
          /\ \E kept \in SUBSET dataset, persisted \in BOOLEAN :
                /\ dataset' = IF persisted THEN kept ELSE dataset
                /\ unitsCount' = RestoreCount(persisted, unitsCount, kept)
          /\ Ran("llm-reachability", "skipped") /\ Skip("llm-reachability")
    /\ Upstream

\* A failed enhancement leaves the dataset as it was.
Enhance ==
    /\ pc = "enhance" /\ Goto("analyze")
    /\ \/ /\ ~Requested("enhance") /\ Skip("enhance") /\ UNCHANGED reports
       \/ /\ Requested("enhance") /\ Ran("enhance", "done") /\ UNCHANGED skipped
       \/ /\ Requested("enhance") /\ Ran("enhance", "skipped") /\ Skip("enhance")
    /\ UNCHANGED <<dataset, unitsCount>> /\ Upstream

-----------------------------------------------------------------------------
(* Analyze.                                                                *)

\* load_checkpoint_results drops the errors.
Checkpointed(u) == asked[u] # NoRow /\ asked[u].finding # "error"

\* A checkpointed verdict is adopted; anything else is asked and saved.
Analyze(u) ==
    /\ pc = "analyze" /\ u \in dataset \ DOMAIN rows
    /\ \/ /\ Checkpointed(u)
          /\ rows' = Merged([v \in {u} |-> asked[v]], rows) /\ UNCHANGED asked
       \/ /\ ~Checkpointed(u)
          /\ \E reply \in Stage1Replies :
                LET row == Stage1Row(reply.finding, reply.claim)
                IN  /\ rows' = Merged([v \in {u} |-> row], rows)
                    /\ asked' = [asked EXCEPT ![u] = row]
    /\ UNCHANGED <<answered, published, dataset, pc, request, unitsCount, work, metrics,
                   hasFindings, skipped, reports, output, outdated, docs, ended, scans>>

\* What the consistency pass may make of the rows: it is asked about a group
\* whose verdicts differ, on every run, and may answer differently.
Corrections ==
    IF Inconsistent(rows, Group \cap DOMAIN rows)
    THEN {[u \in DOMAIN rows |->
             IF u \in Group /\ fix[u] # Keep
             THEN Stage1Row(Stage1Corrected(rows[u].finding, fix[u]), rows[u].claim)
             ELSE rows[u]] : fix \in [DOMAIN rows -> Proposals]}
    ELSE {rows}

Publish ==
    /\ pc = "analyze" /\ DOMAIN rows = dataset
    /\ \E new \in Corrections :
          /\ published' = new /\ rows' = new /\ metrics' = Stage1Metrics(new)
          /\ hasFindings' = (ConfirmedFindings(new) # {})
    /\ Goto("gate")
    /\ UNCHANGED <<asked, answered, dataset, request, unitsCount, work, skipped, reports,
                   output, outdated, docs, ended, scans>>

-----------------------------------------------------------------------------
(* Verify.                                                                 *)

Downstream == UNCHANGED <<asked, published, dataset, request, unitsCount, output,
                          outdated, docs, ended, scans>>

\* Mutant of Usable: an answer that is incomplete is asked for again.
UsableFinished(u) == answered[u] # NoRow /\ ~Incomplete(answered[u])

\* _cp_is_error: an errored row is asked again, an incomplete one is not.
Usable(u) == answered[u] # NoRow /\ answered[u].stage # "error"

Candidates == {u \in DOMAIN rows : IsCandidate(rows[u])}

\* The gate: stage2_gate_open is stage2_candidates being non-empty.
SkipVerify ==
    /\ pc = "gate" /\ (~Requested("verify") \/ Candidates = {})
    /\ Skip("verify") /\ Goto("build")
    /\ UNCHANGED <<answered, rows, work, metrics, hasFindings, reports>> /\ Downstream

\* run_verification: origins are stamped, answers restored from checkpoints.
BeginVerify ==
    /\ pc = "gate" /\ Requested("verify") /\ Candidates # {}
    /\ work' = [u \in Candidates |-> IF Usable(u) THEN Restored(Escalated(rows[u]), answered[u])
                                                  ELSE Escalated(rows[u])]
    /\ Goto("verify")
    /\ UNCHANGED <<answered, rows, metrics, hasFindings, skipped, reports>> /\ Downstream

Unverified == {u \in DOMAIN work : work[u].stage = "stage1"}

VerifyUnit(u) ==
    /\ pc = "verify" /\ u \in Unverified
    /\ \E a \in Stage2Answers :
          LET row == Answered(work[u], a)
          IN  work' = [work EXCEPT ![u] = row] /\ answered' = [answered EXCEPT ![u] = row]
    /\ UNCHANGED <<pc, rows, metrics, hasFindings, skipped, reports>> /\ Downstream

\* _check_consistency, after the checkpoints have been written.
Rewrites ==
    IF Inconsistent(work, Group \cap DOMAIN work)
    THEN {[u \in DOMAIN work |-> IF u \in Group /\ fix[u] # Keep
                                 THEN Rewritten(work[u], fix[u]) ELSE work[u]] :
             fix \in [DOMAIN work -> Proposals]}
    ELSE {work}

\* hasFindings never goes back.
HasFindings(m) == hasFindings \/ m["vulnerable"] + m["bypassable"] > 0

\* The verified rows replace the Stage-1 ones.
EndVerify ==
    /\ pc = "verify" /\ Unverified = {}
    /\ \E new \in Rewrites :
          /\ rows' = Merged(new, rows)
          /\ metrics' = Envelope(metrics, new)
          /\ hasFindings' = HasFindings(metrics')
          /\ Ran("verify", "done")
    /\ work' = NoRows /\ Goto("build")
    /\ UNCHANGED <<answered, skipped>> /\ Downstream

\* An exception keeps the Stage-1 results.
VerifyFails ==
    /\ pc = "verify"
    /\ Ran("verify", "skipped") /\ Skip("verify")
    /\ work' = NoRows /\ Goto("build")
    /\ UNCHANGED <<answered, rows, metrics, hasFindings>> /\ Downstream

-----------------------------------------------------------------------------
(* From the results to the reports.                                        *)

Found == Deduplicated(ConfirmedFindings(rows), Callers, Cwe)

\* build_pipeline_output, with the steps known to be skipped.
Built(skips) == [findings |-> [u \in Found |-> Stage2Verdict(rows[u])], skipped |-> skips]

RunsDynamicTest == Requested("dynamic-test") /\ hasFindings /\ request.docker

Reporting == UNCHANGED <<disk, request, unitsCount, rows, work, metrics, hasFindings, scans>>

\* The decision on the dynamic test is made before the build.
SkipsAtBuild == IF RunsDynamicTest THEN skipped ELSE skipped \cup {"dynamic-test"}

BuildOutput ==
    /\ pc = "build"
    /\ output' = Built(SkipsAtBuild)
    /\ skipped' = IF RunsDynamicTest THEN skipped ELSE skipped \cup {"dynamic-test"}
    /\ Goto(IF RunsDynamicTest THEN "dynamic-test" ELSE "report")
    /\ UNCHANGED <<reports, outdated, docs, ended>> /\ Reporting

\* A failed test is recorded, and pipeline_output.json rebuilt, at best effort.
DynamicTest ==
    /\ pc = "dynamic-test" /\ Goto("report")
    /\ \/ /\ Ran("dynamic-test", "done") /\ UNCHANGED <<skipped, output, outdated>>
       \/ /\ Ran("dynamic-test", "skipped") /\ Skip("dynamic-test")
          /\ \/ output' = Built(skipped') /\ UNCHANGED outdated
             \/ outdated' = TRUE /\ UNCHANGED output
    /\ UNCHANGED <<docs, ended>> /\ Reporting

Eligible == {u \in DOMAIN output.findings : output.findings[u] \in DisclosureEligible}

\* The summary and the disclosures fail by themselves; each failure is an error
\* of the step.  Then the scan report is written and the process ends.
Report ==
    /\ pc = "report" /\ Goto("idle") /\ ended' = "done"
    /\ \/ /\ ~Requested("report") /\ Skip("report") /\ UNCHANGED <<reports, docs>>
       \/ /\ Requested("report") /\ UNCHANGED skipped
          /\ \/ /\ Ran("report", "done")
                /\ docs' = IF hasFindings THEN Eligible ELSE {}
             \/ /\ Ran("report", "partial")
                /\ \E written \in SUBSET Eligible : docs' = IF hasFindings THEN written ELSE {}
    /\ UNCHANGED <<output, outdated>> /\ Reporting

\* What ends a scan early: a failing mandatory step, a malformed threat model,
\* a rejected key, Ctrl-C, a kill.  Checkpoints stay.
StopsEarly(how) ==
    /\ pc # "idle" /\ Goto("idle") /\ ended' = how
    /\ Forget /\ request' = NoRequest
    /\ UNCHANGED <<disk, scans>>

Abort == /\ pc \in {"parse", "app-context", "llm-reachability", "analyze", "build"}
         /\ StopsEarly("aborted")
Kill  == StopsEarly("killed")

Next ==
    \/ \E r \in Requests : Start(r)
    \/ Parse \/ AppContext \/ Reachability \/ Enhance
    \/ \E u \in Units : Analyze(u) \/ VerifyUnit(u)
    \/ Publish \/ SkipVerify \/ BeginVerify \/ EndVerify \/ VerifyFails
    \/ BuildOutput \/ DynamicTest \/ Report \/ Abort \/ Kill

Spec == Init /\ [][Next]_vars

-----------------------------------------------------------------------------
(* Properties.                                                             *)

\* Every variable keeps its type.
TypeOK ==
    /\ \A u \in Units : asked[u] \in Row \cup {NoRow} /\ answered[u] \in Row \cup {NoRow}
    /\ \A f \in {published, rows, work} : DOMAIN f \subseteq Units /\ \A u \in DOMAIN f : f[u] \in Row
    /\ dataset \subseteq Units /\ unitsCount \in 0..Cardinality(Units)
    /\ skipped \subseteq Optional /\ hasFindings \in BOOLEAN /\ outdated \in BOOLEAN
    /\ reports \in [Optional -> {"none", "done", "partial", "skipped"}]
    /\ \A c \in DOMAIN metrics : metrics[c] \in Nat
    /\ docs \subseteq Units /\ scans \in 0..MaxScans

\* A finding of its class stands in the report for a unit that was collapsed.
Represented(u) == \E c \in DOMAIN output.findings : Cwe[c] = Cwe[u] /\ c # u

\* Findings of one class that are one another's only callers, as two functions
\* that call each other and are not called from elsewhere: all are collapsed.
Ring(u) ==
    \E R \in SUBSET ConfirmedFindings(rows) :
        /\ u \in R
        /\ \A v \in R : Cwe[v] = Cwe[u] /\ \E c \in R : Callers[v] = {c}

\* Stage 2's answer is about the finding this scan's Stage 1 left.
Fresh(u) == rows[u].stage = "stage1" \/ rows[u].about = published[u].finding

\* A finished answer rejected it, or the consistency pass did, against no
\* conclusive path.
Dismissed(u) ==
    /\ ~Incomplete(rows[u])
    /\ rows[u].stage = "disagreed" \/ (rows[u].rewritten /\ rows[u].path # "reached")

\* It is in the report, or was dismissed by a finished answer about it.
PositivesReported ==
    output # NoOutput =>
        \A u \in DOMAIN published : published[u].finding \in Positive /\ Fresh(u) =>
            \/ u \in Eligible
            \/ u \in ConfirmedFindings(rows) /\ (Represented(u) \/ Ring(u))
            \/ Dismissed(u)

\* verifier.py:339-341: folding analyze's fingerprint into verify's key "closes
\* the finding where verify adopts a stale checkpoint" that "overwrites the
\* fresh Stage-1 verdict".
FreshVerdictsStand == \A u \in DOMAIN rows : Fresh(u)

\* The scan's envelope and the recount of results_verified.json agree, column
\* by column; an escalated row left unfinished is the one that both its Stage-1
\* column and needs_review hold.
MetricsAgree ==
    pc = "build" /\ FreshVerdictsStand =>
        LET recount == Recount(rows)
            Both(f) == Count(rows, LAMBDA r : r.origin = f /\ r.stage = "incomplete")
        IN  /\ metrics["vulnerable"] + metrics["bypassable"]
                 = recount["vulnerable"] + recount["bypassable"]
            /\ \A f \in {"protected", "errors", "needs_review"} : metrics[f] = recount[f]
            /\ \A f \in {"inconclusive", "safe"} : metrics[f] = recount[f] + Both(f)

\* units_count is the number of units the steps downstream read from disk,
\* wherever the reachability step failed.
CountDescribesDataset ==
    pc \notin {"idle", "parse"} => unitsCount = Cardinality(dataset)

\* A scan that ends by itself tells of every step it did not do, and the file
\* the summary is written from tells the same, its own step apart.
SkipsTold ==
    ended = "done" =>
        /\ \A s \in Optional : s \in skipped <=> reports[s] \in {"none", "skipped"}
        /\ output.skipped = skipped \ ({"report"} \cup IF outdated THEN {"dynamic-test"} ELSE {})

\* The scan's envelope says what the files it points to say: the verdict columns
\* those of the rows, the unit count that of the dataset, the skip list that of
\* the step reports and of the report's input.
EnvelopeAgrees == MetricsAgree /\ CountDescribesDataset /\ SkipsTold

\* Whatever the later steps did to the counts, a finding of Stage 1 or one a
\* finished Stage-2 answer stands by gets its disclosure.
DisclosuresFollow ==
    /\ ended = "done" /\ reports["report"] = "done"
    /\ \E u \in DOMAIN rows : published[u].finding \in Positive \/ Confirmed(rows[u])
    => docs = Eligible

\* What this scan's Stage 1 found is reported and disclosed, or was dismissed by
\* a finished answer about it: no failed step, no unfinished or errored
\* verification, no resumed checkpoint and no collapsed duplicate loses it.
PositivesKept == PositivesReported /\ DisclosuresFollow

\* A unit is adjudicated once: only an error is asked again, whatever is killed,
\* fails or is resumed.
AdjudicatedOnce ==
    [][\A u \in Units : answered[u] # NoRow /\ answered[u].stage # "error"
                           => answered'[u] = answered[u]]_vars
=============================================================================
