----------------------------- MODULE DynamicTest -----------------------------
(***************************************************************************)
(* The dynamic test step (utilities/dynamic_tester, run_dynamic_tests): one*)
(* finding after the other gets a generated test, which is built and run   *)
(* in a container (docker_executor.py) or in several (compose), torn down, *)
(* and judged; an error is fed back into a new generation, up to           *)
(* max_retries times.  Rows are checkpoints: a later run adopts those that *)
(* are no error.  Containers and images live in the daemon, not in the     *)
(* process: whatever ends the process leaves what it has not torn down.    *)
(*                                                                         *)
(* External: Docker.  Abstracted: what a test says but for its status      *)
(* ("other" is any status but CONFIRMED and ERROR), the networks, the      *)
(* temporary directory, the order of the findings (any), the costs, and the*)
(* summary, which is counted from the rows whenever one has been saved.    *)
(***************************************************************************)
EXTENDS Naturals, FiniteSets

CONSTANTS
    Findings,      \* ids of findings
    Populations,   \* sets of testable findings a pipeline output may hold
    Untestable,    \* sets of findings whose language may have no template
    MaxRetries,    \* max_retries
    NoFinding, NoRow

ASSUME DynamicAssumption ==
    /\ IsFiniteSet(Findings) /\ MaxRetries \in Nat
    /\ Populations \subseteq SUBSET Findings /\ Untestable \subseteq SUBSET Findings
    /\ NoFinding \notin Findings

Statuses == {"confirmed", "other", "error"}
Resources == Findings \X {"container", "image"}

VARIABLES
    rows,       \* dynamic_test_checkpoints: a finding's status, or NoRow
    results,    \* dynamic_test_results.json as this run has written it:
                \* [finding -> status or "skipped"]
    daemon,     \* what the daemon holds of the tests' containers and images
    excused,    \* what of it nobody could tear down (history)
    step,       \* where the process is: see Steps
    population, untestable, reported,
    current,    \* the finding under test
    compose,    \* its test asks for several services
    status,     \* what its last attempt came to
    timedOut,   \* its last command ran into its timeout
    retries,
    unwinding   \* "none", or what is on its way out: "error", "interrupt"

onDisk    == <<rows, results>>
docker    == <<daemon, excused>>
attempt   == <<compose, status, timedOut, retries>>
scope     == <<population, untestable>>
testVars  == <<onDisk, docker, step, scope, reported, current, attempt, unwinding>>

\* Between two findings nothing is left of an attempt.
NoAttempt == compose' = FALSE /\ status' = "error" /\ timedOut' = FALSE /\ retries' = 0

Steps == {"away", "loop", "generate", "build", "up", "run", "remove", "cleanup",
          "judge", "save", "returned", "raised", "interrupted"}

Nothing == [f \in {} |-> "skipped"]

TestInit ==
    /\ rows = [f \in Findings |-> NoRow] /\ results = Nothing
    /\ daemon = {} /\ excused = {}
    /\ step = "away" /\ population = {} /\ untestable = {} /\ reported = Nothing
    /\ current = NoFinding /\ compose = FALSE /\ status = "error"
    /\ timedOut = FALSE /\ retries = 0 /\ unwinding = "none"

-----------------------------------------------------------------------------
(* The loop over the findings.                                             *)

\* With nothing to test an empty result is written.
BeginTests(S, U) ==
    /\ step = "away" /\ population' = S /\ untestable' = U
    /\ reported' = Nothing /\ current' = NoFinding
    /\ IF S = {} THEN step' = "returned" /\ results' = Nothing
                 ELSE step' = "loop" /\ UNCHANGED results
    /\ UNCHANGED <<rows, docker, attempt, unwinding>>

\* No Docker, or no pipeline output.
Refuse ==
    /\ step = "away" /\ step' = "raised"
    /\ UNCHANGED <<onDisk, docker, scope, reported, current, attempt, unwinding>>

\* The results so far, with one more finding.
Entered(f, s) == [g \in DOMAIN reported \cup {f} |-> IF g = f THEN s ELSE reported[g]]

\* A row of an earlier run is adopted unless it is an error.
Tested(f) == rows[f] \in {"confirmed", "other"}

Restore(f) ==
    /\ step = "loop" /\ f \in population \ DOMAIN reported /\ Tested(f)
    /\ reported' = Entered(f, rows[f])
    /\ UNCHANGED <<onDisk, docker, step, scope, current, attempt, unwinding>>

\* The language is looked at after the checkpoint.
Passed(f) == f \in untestable /\ ~Tested(f)

PassOver(f) ==
    /\ step = "loop" /\ f \in population \ DOMAIN reported /\ Passed(f)
    /\ reported' = Entered(f, "skipped")
    /\ UNCHANGED <<onDisk, docker, step, scope, current, attempt, unwinding>>

TakeUp(f) ==
    /\ step = "loop" /\ f \in (population \ untestable) \ DOMAIN reported /\ ~Tested(f)
    /\ current' = f /\ step' = "generate"
    /\ UNCHANGED <<onDisk, docker, scope, reported, attempt, unwinding>>

\* A test is generated, of one container or of several.
Generate(many) ==
    /\ step = "generate" /\ step' = "build" /\ compose' = many /\ timedOut' = FALSE
    /\ UNCHANGED <<onDisk, docker, scope, reported, current, status, retries, unwinding>>

\* The first time, an exception is taken as no answer: the finding is an error.
\* Without an answer to a retry the last attempt stands.
GenerateFails ==
    /\ step = "generate" /\ step' = "save"
    /\ status' = IF retries = 0 THEN "error" ELSE status
    /\ UNCHANGED <<onDisk, docker, scope, reported, current, compose, timedOut, retries, unwinding>>

\* An exception in a retry leaves the loop, the finding without its row.
RegenerateRaises ==
    /\ step = "generate" /\ retries > 0 /\ step' = "raised" /\ unwinding' = "error"
    /\ UNCHANGED <<onDisk, docker, scope, reported, current, attempt>>

-----------------------------------------------------------------------------
(* run_single_container.                                                   *)

Of(kind) == <<current, kind>>

\* A failed build may have left images; compose tears its own down.
Build ==
    /\ step = "build"
    /\ \/ /\ daemon' = daemon \cup {Of("image")} /\ UNCHANGED <<status, timedOut>>
          /\ step' = IF compose THEN "up" ELSE "run"
       \/ /\ daemon' \in {daemon, daemon \cup {Of("image")}}
          /\ status' = "error" /\ timedOut' \in BOOLEAN
          /\ step' = IF compose THEN "remove" ELSE "cleanup"
    /\ UNCHANGED <<onDisk, excused, scope, reported, current, compose, retries, unwinding>>

\* Its outcome is not looked at.
Up ==
    /\ step = "up" /\ step' = "run"
    /\ daemon' \in {daemon, daemon \cup {Of("container")}}
    /\ UNCHANGED <<onDisk, excused, scope, reported, current, attempt, unwinding>>

\* The client starts the container and waits for it.
Started(d) == IF compose THEN d ELSE d \cup {Of("container")}

\* It ends by itself (and is removed, being alone), with a status or without.
RunEnds ==
    /\ step = "run" /\ step' = "remove" /\ status' \in Statuses
    /\ UNCHANGED <<onDisk, docker, scope, reported, current, compose, timedOut, retries, unwinding>>

\* The timeout kills the client; the container runs on.
RunTimesOut ==
    /\ step = "run" /\ step' = "remove" /\ daemon' = Started(daemon)
    /\ timedOut' = TRUE /\ status' = "other"
    /\ UNCHANGED <<onDisk, excused, scope, reported, current, compose, retries, unwinding>>

\* What the finally clause takes down by name: rm -f, or down --rmi local.
Removed == IF compose THEN {Of("container"), Of("image")} ELSE {Of("container")}

\* What the outer finally clause does: rmi -f of the tag that is built alone.
Cleaned == IF compose THEN {} ELSE {Of("image")}

\* The daemon does it, or does not answer in time; either is ignored.
Teardown(these) ==
    \/ daemon' = daemon \ these /\ UNCHANGED excused
    \/ UNCHANGED daemon /\ excused' = excused \cup (daemon \cap these)

\* Mutant of Remove: a container that timed out is left to --rm.
RemoveUnlessTimedOut ==
    /\ step = "remove" /\ step' = "cleanup"
    /\ IF timedOut THEN UNCHANGED docker ELSE Teardown(Removed)
    /\ UNCHANGED <<onDisk, scope, reported, current, attempt, unwinding>>

Remove ==
    /\ step = "remove" /\ step' = "cleanup" /\ Teardown(Removed)
    /\ UNCHANGED <<onDisk, scope, reported, current, attempt, unwinding>>

\* An image cannot go while its container runs.
Cleanup ==
    /\ step = "cleanup"
    /\ IF Of("container") \in daemon
       THEN UNCHANGED daemon /\ excused' = excused \cup (daemon \cap Cleaned)
       ELSE Teardown(Cleaned)
    /\ step' = CASE unwinding = "none"      -> "judge"
                 [] unwinding = "interrupt" -> "interrupted"
                 [] OTHER                   -> "raised"
    /\ UNCHANGED <<onDisk, scope, reported, current, attempt, unwinding>>

-----------------------------------------------------------------------------
(* Verdicts, rows and the end.                                             *)

\* A build that timed out is an error that is not retried.
Judge ==
    /\ step = "judge"
    /\ IF status = "error" /\ retries < MaxRetries /\ ~timedOut
       THEN step' = "generate" /\ retries' = retries + 1
       ELSE step' = "save" /\ UNCHANGED retries
    /\ UNCHANGED <<onDisk, docker, scope, reported, current, compose, status, timedOut, unwinding>>

SaveRow ==
    /\ step = "save" /\ step' = "loop"
    /\ rows' = [rows EXCEPT ![current] = status]
    /\ reported' = Entered(current, status)
    /\ current' = NoFinding /\ NoAttempt
    /\ UNCHANGED <<results, docker, scope, unwinding>>

Publish ==
    /\ step = "loop" /\ DOMAIN reported = population
    /\ results' = reported /\ step' = "returned"
    /\ UNCHANGED <<rows, docker, scope, reported, current, attempt, unwinding>>

-----------------------------------------------------------------------------
(* What ends a step early.                                                 *)

\* An exception, or an interrupt, where it is: inside the executor the finally
\* clauses run.  Compose's cover neither its build nor its `up`, and none
\* covers itself.
Unwind(why) ==
    LET started == daemon \cup (IF step \in {"run", "up"} THEN {Of("container")} ELSE {})
                          \cup (IF step = "build" THEN {Of("image")} ELSE {})
    IN  /\ step \in {"loop", "generate", "build", "up", "run", "remove", "cleanup", "save"}
        /\ unwinding = "none" /\ unwinding' = why
        /\ step' = CASE step = "run" -> "remove"
                     [] step \in {"build", "up", "remove"} -> "cleanup"
                     [] OTHER -> IF why = "interrupt" THEN "interrupted" ELSE "raised"
        /\ daemon' \in {daemon, started}
        /\ excused' = excused \cup {r \in daemon' : r[1] = current /\
                         \/ compose /\ step \in {"build", "up", "remove"}
                         \/ step = "remove" /\ r[2] = "container"
                         \/ step = "cleanup"}
        /\ UNCHANGED <<onDisk, scope, reported, current, attempt>>

\* A full disk; an interrupt.  (Outside of the executor an error can only be
\* one of the disk's.)
DiskFails == step \in {"build", "save"} /\ Unwind("error")
Interrupted == Unwind("interrupt")

\* The process is no more, by its own end or a kill.  Names are of one run:
\* what it leaves behind is nobody's, and is not followed any further.
Gone ==
    /\ step' = "away" /\ current' = NoFinding /\ unwinding' = "none"
    /\ daemon' = {} /\ excused' = {} /\ reported' = Nothing
    /\ population' = {} /\ untestable' = {}
    /\ NoAttempt /\ UNCHANGED onDisk

Testing ==
    \/ \E f \in Findings : Restore(f) \/ PassOver(f) \/ TakeUp(f)
    \/ \E many \in BOOLEAN : Generate(many)
    \/ GenerateFails \/ RegenerateRaises
    \/ Build \/ Up \/ RunEnds \/ RunTimesOut \/ Remove \/ Cleanup
    \/ Judge \/ SaveRow \/ Publish \/ DiskFails

-----------------------------------------------------------------------------
(* Properties.                                                             *)

TestTypeOK ==
    /\ rows \in [Findings -> Statuses \cup {NoRow}]
    /\ \A f \in {results, reported} :
          DOMAIN f \subseteq Findings /\ \A x \in DOMAIN f : f[x] \in Statuses \cup {"skipped"}
    /\ daemon \subseteq Resources /\ excused \subseteq Resources
    /\ step \in Steps /\ current \in Findings \cup {NoFinding}
    /\ status \in Statuses /\ retries \in 0..MaxRetries

\* Nothing of a test outlives it: once it is judged, or the step has ended on
\* whichever path, the daemon holds no container and no image of it, but for
\* what it refused to tear down in time or what an interrupt or a kill took
\* out of the process's hands.
TornDown ==
    \A r \in daemon : \/ r \in excused
                      \/ r[1] = current /\ step \in {"up", "run", "remove", "cleanup"}

\* A step that returns has reported every finding of its population, each as
\* its row says, a verdict of an earlier run included, and errors as errors; it
\* passes over only what has no verdict.
ResultsTell ==
    step = "returned" =>
        /\ DOMAIN results = population
        /\ \A f \in population :
              IF results[f] = "skipped" THEN ~Tested(f) ELSE results[f] = rows[f]
=============================================================================
