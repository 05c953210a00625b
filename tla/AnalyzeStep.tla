---------------------------- MODULE AnalyzeStep ----------------------------
(***************************************************************************)
(* The analyze step (Stage 1 detection) of the Python engine, with its     *)
(* per-unit checkpoint directory: core/analyzer.py (run_analysis and       *)
(* _run_detection) over core/checkpoint.py (StepCheckpoint).               *)
(*                                                                         *)
(* A run asks one model call per unit from a pool of worker threads.  Each *)
(* worker saves the row it got before the main thread consumes it, so that *)
(* a killed run resumes where it stopped.  The directory carries the       *)
(* identity (model, provider, templates) of the backend that filled it:    *)
(* a run with another backend moves it aside instead of adopting its       *)
(* verdicts.  Runs follow one another on the same disk; any of them may be *)
(* killed, interrupted, or abort on a rejected key or a full disk.         *)
(*                                                                         *)
(* Abstracted: what a verdict says (a row is a verdict, a retryable error  *)
(* or a permanent one), what a backend is (its key digest is a value), the *)
(* usage counters (module SpendLedger), file names (module                 *)
(* CheckpointPaths), progress output.  write_json is atomic, so a write is *)
(* one step.                                                               *)
(***************************************************************************)
EXTENDS Naturals, FiniteSets

CONSTANTS
    Units,        \* ids of the code units of the repository under analysis
    Workers,      \* threads of the pool
    Backends,     \* key digests of the analyze fingerprint
    Datasets,     \* what a run may be started on: units kept, and their class
    LegacySets,   \* sets of units an older, unstamped directory may hold
    MaxRuns,      \* bound: runs started on one output directory
    RenameMayFail, \* whether os.replace of results.json may raise OSError
    Legacy,       \* the unknown identity behind an unstamped row or report
    NoUnit, NoRow, NoSidecar, Corrupt, NoSummary, NoReport, NoDataset,
    AuthFailure, DiskFailure   \* how a future may end without a row

\* "sentinel": enhancement did not complete; "final": it did; "none": no stamp.
Classes == {"sentinel", "final", "none"}

\* A checkpoint row: a usable verdict, or an error the run may retry, or not.
Rows == [kind : {"verdict", "transient", "permanent"},
         fp   : Backends \cup {Legacy},
         cls  : Classes]

\* results.json: its stamp, and the backend behind each verdict it shows.
Reports == UNION {[fp : Backends \cup {Legacy},
                   by : [S -> Backends \cup {Legacy}]] : S \in SUBSET Units}

ASSUME ConstantsAssumption ==
    /\ IsFiniteSet(Units) /\ Units # {}
    /\ IsFiniteSet(Workers) /\ Workers # {}
    /\ Datasets \subseteq [scope : SUBSET Units, cls : [Units -> Classes]]
    /\ LegacySets \subseteq SUBSET Units
    /\ MaxRuns \in Nat /\ RenameMayFail \in BOOLEAN
    /\ NoUnit \notin Units
    /\ NoRow \notin Rows /\ AuthFailure \notin Rows /\ DiskFailure \notin Rows
    /\ AuthFailure # DiskFailure
    /\ Legacy \notin Backends
    /\ NoSidecar \notin Backends /\ Corrupt \notin Backends
    /\ NoSidecar # Corrupt /\ NoReport \notin Reports
    /\ NoDataset \notin Datasets

VARIABLES
    \* On disk, surviving the process.
    sidecar,     \* _fingerprint.json of the checkpoint directory
    ckpt,        \* the unit rows of the directory
    archive,     \* rows in the directories moved aside
    summary,     \* _summary.json of the directory
    report,      \* results.json
    oldReports,  \* results__<fp>.json files
    \* In the process of the current run.
    pc, fp, dataset,
    pending,     \* submitted futures no thread has taken
    worker,      \* what each thread holds: a unit, then the row to save
    finished,    \* futures done and not yet consumed by the main thread
    results, completed, errors,
    retryQ, retrying,
    calls,       \* model calls this run has made per unit (history)
    runs         \* runs started so far (history, bounded)

disk    == <<sidecar, ckpt, archive, summary, report, oldReports>>
process == <<fp, dataset, pending, worker, finished, results, completed,
             errors, retryQ, retrying, calls>>
vars    == <<disk, pc, process, runs>>

-----------------------------------------------------------------------------
(* Predicates on rows, and the initial state.                              *)

\* analyze_result_is_error: such a row is asked again, never adopted.
IsError(row) == row.kind # "verdict"

\* Mutant of IsStale: re-analyze a row whose unit is still unclassified.
IsStaleOneSided(row, u) == row.cls = "sentinel"

\* _cp_is_stale: analyzed before enhancement completed, and it now has.
IsStale(row, u) == row.cls = "sentinel" /\ dataset.cls[u] = "final"

\* The rows a run keeps instead of paying for again.
Adoptable(u) == ckpt[u] # NoRow /\ ~IsError(ckpt[u]) /\ ~IsStale(ckpt[u], u)

Scope    == dataset.scope
NoRows   == [u \in Units |-> NoRow]
IdleWorker == [unit |-> NoUnit, row |-> NoRow]

\* What a model call on u may leave: a verdict stamped with the unit's class
\* (analyze_unit), or an error row of either sort (_process_unit).
Replies(u) ==
    {[kind |-> "verdict", fp |-> fp, cls |-> dataset.cls[u]]} \cup
    {[kind |-> k, fp |-> fp, cls |-> "none"] : k \in {"transient", "permanent"}}

LegacyRow == [kind |-> "verdict", fp |-> Legacy, cls |-> "none"]

\* The process's memory before it starts and after it ends.
ProcessGone ==
    /\ pc' = "idle" /\ fp' = Legacy /\ dataset' = NoDataset
    /\ pending' = {} /\ worker' = [w \in Workers |-> IdleWorker]
    /\ finished' = {} /\ results' = NoRows /\ completed' = 0 /\ errors' = 0
    /\ retryQ' = {} /\ retrying' = NoUnit /\ calls' = [u \in Units |-> 0]

Init ==
    /\ \E L \in LegacySets :
          /\ ckpt = [u \in Units |-> IF u \in L THEN LegacyRow ELSE NoRow]
          /\ report \in {NoReport, [fp |-> Legacy, by |-> [u \in L |-> Legacy]]}
    /\ sidecar = NoSidecar /\ archive = {} /\ summary = NoSummary
    /\ oldReports = {}
    /\ pc = "idle" /\ fp = Legacy /\ dataset = NoDataset
    /\ pending = {} /\ worker = [w \in Workers |-> IdleWorker]
    /\ finished = {} /\ results = NoRows /\ completed = 0 /\ errors = 0
    /\ retryQ = {} /\ retrying = NoUnit /\ calls = [u \in Units |-> 0]
    /\ runs = 0

-----------------------------------------------------------------------------
(* Starting: the identity gate, the prior report, the summary, the queue.  *)

StartRun(d, b) ==
    /\ pc = "idle" /\ runs < MaxRuns
    /\ pc' = "identity" /\ runs' = runs + 1
    /\ fp' = b /\ dataset' = d
    /\ UNCHANGED <<disk, pending, worker, finished, results, completed,
                   errors, retryQ, retrying, calls>>

\* Mutant of AdoptDirectory: an unreadable sidecar counts as a missing one.
AdoptUnreadable ==
    /\ pc = "identity" /\ sidecar \in {NoSidecar, Corrupt, fp}
    /\ sidecar' = fp /\ pc' = "preserve"
    /\ UNCHANGED <<ckpt, archive, summary, report, oldReports, process, runs>>

\* sync_identity, statuses new, legacy and match: adopt and (re)stamp.
AdoptDirectory ==
    /\ pc = "identity" /\ sidecar \in {NoSidecar, fp}
    /\ sidecar' = fp /\ pc' = "preserve"
    /\ UNCHANGED <<ckpt, archive, summary, report, oldReports, process, runs>>

\* Mutants of ArchiveDirectory: the rows are copied instead of moved; the
\* directory is deleted; only the sidecar is.
ArchiveByCopy ==
    /\ pc = "identity" /\ sidecar \notin {NoSidecar, fp}
    /\ archive' = archive \cup
                    {<<u, ckpt[u]>> : u \in {v \in Units : ckpt[v] # NoRow}}
    /\ sidecar' = NoSidecar /\ summary' = NoSummary
    /\ pc' = "stamp"
    /\ UNCHANGED <<ckpt, report, oldReports, process, runs>>

ArchiveByDeleting ==
    /\ pc = "identity" /\ sidecar \notin {NoSidecar, fp}
    /\ ckpt' = NoRows /\ sidecar' = NoSidecar /\ summary' = NoSummary
    /\ pc' = "stamp"
    /\ UNCHANGED <<archive, report, oldReports, process, runs>>

ArchiveSidecarOnly ==
    /\ pc = "identity" /\ sidecar \notin {NoSidecar, fp}
    /\ sidecar' = NoSidecar /\ summary' = NoSummary
    /\ pc' = "stamp"
    /\ UNCHANGED <<ckpt, archive, report, oldReports, process, runs>>

\* sync_identity, status reset: a mismatched or unreadable sidecar moves the
\* whole directory aside ...
ArchiveDirectory ==
    /\ pc = "identity" /\ sidecar \notin {NoSidecar, fp}
    /\ archive' = archive \cup
                    {<<u, ckpt[u]>> : u \in {v \in Units : ckpt[v] # NoRow}}
    /\ ckpt' = NoRows /\ sidecar' = NoSidecar /\ summary' = NoSummary
    /\ pc' = "stamp"
    /\ UNCHANGED <<report, oldReports, process, runs>>

\* ... and only then is the fresh directory stamped.
StampFresh ==
    /\ pc = "stamp"
    /\ sidecar' = fp /\ pc' = "preserve"
    /\ UNCHANGED <<ckpt, archive, summary, report, oldReports, process, runs>>

\* Mutant of OtherReport: only an unstamped report is set aside.
OtherReportUnstamped == report # NoReport /\ report.fp = Legacy

\* _archive_stale_results: another backend's results.json is renamed; the
\* OSError of a failed rename is swallowed and the file stays.
OtherReport == report # NoReport /\ report.fp # fp

PreserveReport ==
    /\ pc = "preserve" /\ pc' = "seed"
    /\ \/ /\ OtherReport
          /\ oldReports' = oldReports \cup {report} /\ report' = NoReport
       \/ /\ ~OtherReport \/ RenameMayFail
          /\ UNCHANGED <<report, oldReports>>
    /\ UNCHANGED <<sidecar, ckpt, archive, summary, process, runs>>

SummaryOf(phase, c, e) ==
    [phase |-> phase, total |-> Cardinality(Scope),
     completed |-> c, errors |-> e]

\* Mutant of Seed: every row of the directory counts as completed.
SeedEveryRow ==
    /\ pc = "seed" /\ pc' = "queue"
    /\ completed' = Cardinality({u \in Scope : ckpt[u] # NoRow}) /\ errors' = 0
    /\ summary' = SummaryOf("in_progress", completed', 0)
    /\ UNCHANGED <<sidecar, ckpt, archive, report, oldReports, fp, dataset,
                   pending, worker, finished, results, retryQ, retrying,
                   calls, runs>>

\* _seed_summary and the first write_summary.
Seed ==
    /\ pc = "seed" /\ pc' = "queue"
    /\ completed' = Cardinality({u \in Scope : Adoptable(u)}) /\ errors' = 0
    /\ summary' = SummaryOf("in_progress", completed', 0)
    /\ UNCHANGED <<sidecar, ckpt, archive, report, oldReports, fp, dataset,
                   pending, worker, finished, results, retryQ, retrying,
                   calls, runs>>

\* _run_detection: adopt what can be adopted, submit the rest.
BuildQueue ==
    /\ pc = "queue" /\ pc' = "detect"
    /\ results' = [u \in Units |->
                     IF u \in Scope /\ Adoptable(u) THEN ckpt[u] ELSE NoRow]
    /\ pending' = {u \in Scope : ~Adoptable(u)}
    /\ UNCHANGED <<disk, fp, dataset, worker, finished, completed, errors,
                   retryQ, retrying, calls, runs>>

-----------------------------------------------------------------------------
(* Detection: worker threads and the main thread's as_completed loop.      *)

\* A thread takes a submitted unit and calls the model.
WorkerTake(w) ==
    /\ pc \in {"detect", "abort"} /\ worker[w] = IdleWorker
    /\ \E u \in pending :
          /\ pending' = pending \ {u}
          /\ worker' = [worker EXCEPT ![w] = [unit |-> u, row |-> NoRow]]
          /\ calls' = [calls EXCEPT ![u] = @ + 1]
    /\ UNCHANGED <<disk, pc, fp, dataset, finished, results, completed,
                   errors, retryQ, retrying, runs>>

Calling(w) == worker[w].unit # NoUnit /\ worker[w].row = NoRow
Saving(w)  == worker[w].unit # NoUnit /\ worker[w].row # NoRow

\* _process_unit returns: a verdict or an error row.
WorkerReply(w) ==
    /\ Calling(w)
    /\ \E row \in Replies(worker[w].unit) : worker' = [worker EXCEPT ![w].row = row]
    /\ UNCHANGED <<disk, pc, fp, dataset, pending, finished, results,
                   completed, errors, retryQ, retrying, calls, runs>>

\* _process_unit re-raises a rejected key or policy: the future fails.
WorkerRejected(w) ==
    /\ Calling(w)
    /\ finished' = finished \cup {[unit |-> worker[w].unit, out |-> AuthFailure]}
    /\ worker' = [worker EXCEPT ![w] = IdleWorker]
    /\ UNCHANGED <<disk, pc, fp, dataset, pending, results, completed,
                   errors, retryQ, retrying, calls, runs>>

\* _process_and_save: the row reaches the disk before the future completes.
WorkerSave(w) ==
    /\ Saving(w)
    /\ ckpt' = [ckpt EXCEPT ![worker[w].unit] = worker[w].row]
    /\ finished' = finished \cup {[unit |-> worker[w].unit, out |-> worker[w].row]}
    /\ worker' = [worker EXCEPT ![w] = IdleWorker]
    /\ UNCHANGED <<sidecar, archive, summary, report, oldReports, pc, fp,
                   dataset, pending, results, completed, errors, retryQ,
                   retrying, calls, runs>>

\* Mutant of WorkerSaveFails: the error is swallowed.
WorkerSaveIgnored(w) ==
    /\ Saving(w)
    /\ finished' = finished \cup {[unit |-> worker[w].unit, out |-> worker[w].row]}
    /\ worker' = [worker EXCEPT ![w] = IdleWorker]
    /\ UNCHANGED <<disk, pc, fp, dataset, pending, results, completed,
                   errors, retryQ, retrying, calls, runs>>

\* checkpoint.save raises (disk full, permissions): the future fails.
WorkerSaveFails(w) ==
    /\ Saving(w)
    /\ finished' = finished \cup {[unit |-> worker[w].unit, out |-> DiskFailure]}
    /\ worker' = [worker EXCEPT ![w] = IdleWorker]
    /\ UNCHANGED <<disk, pc, fp, dataset, pending, results, completed,
                   errors, retryQ, retrying, calls, runs>>

\* _summary_callback.
CountOutcome(row) ==
    IF IsError(row) THEN errors' = errors + 1 /\ UNCHANGED completed
                    ELSE completed' = completed + 1 /\ UNCHANGED errors

\* future.result(), then the callback.
Consume(f) ==
    /\ pc = "detect" /\ f \in finished /\ f.out \in Rows
    /\ finished' = finished \ {f}
    /\ results' = [results EXCEPT ![f.unit] = f.out]
    /\ CountOutcome(f.out)
    /\ summary' = SummaryOf("in_progress", completed', errors')
    /\ UNCHANGED <<sidecar, ckpt, archive, report, oldReports, pc, fp,
                   dataset, pending, worker, retryQ, retrying, calls, runs>>

\* A rejected key, or Ctrl-C: what no thread has taken is cancelled.
CancelPending ==
    /\ pc' = "abort" /\ pending' = {}
    /\ UNCHANGED <<disk, fp, dataset, worker, finished, results, completed,
                   errors, retryQ, retrying, calls, runs>>

ConsumeRejected(f) ==
    /\ pc = "detect" /\ f \in finished /\ f.out = AuthFailure
    /\ CancelPending

Interrupt == pc = "detect" /\ CancelPending

\* Any other exception: the loop stops, the queue is left to drain.
ConsumeFailed(f) ==
    /\ pc = "detect" /\ f \in finished /\ f.out = DiskFailure
    /\ pc' = "abort"
    /\ UNCHANGED <<disk, process, runs>>

PoolIdle == pending = {} /\ \A w \in Workers : worker[w] = IdleWorker

\* Mutant of AbortExit: also waits for someone to consume the futures.
AbortExitConsumed ==
    /\ pc = "abort" /\ PoolIdle /\ finished = {}
    /\ ProcessGone /\ UNCHANGED <<disk, runs>>

\* The aborting interpreter joins the pool's threads before it exits.
AbortExit ==
    /\ pc = "abort" /\ PoolIdle
    /\ ProcessGone /\ UNCHANGED <<disk, runs>>

-----------------------------------------------------------------------------
(* The sequential retry of retryable errors, the final summary, the report.*)

DetectDone ==
    /\ pc = "detect" /\ PoolIdle /\ finished = {}
    /\ retryQ' = {u \in Scope : results[u] # NoRow /\ results[u].kind = "transient"}
    /\ pc' = "retry"
    /\ UNCHANGED <<disk, fp, dataset, pending, worker, finished, results,
                   completed, errors, retrying, calls, runs>>

\* A retry that gives a verdict moves the unit from errors to completed.
CountRetry(row) ==
    IF IsError(row)
    THEN UNCHANGED <<completed, errors>>
    ELSE /\ errors' = IF errors > 0 THEN errors - 1 ELSE 0
         /\ completed' = completed + 1

\* One retry: the counters and the summary flip before the row is saved.
RetryUnit(u) ==
    /\ pc = "retry" /\ u \in retryQ
    /\ \E row \in Replies(u) :
          /\ results' = [results EXCEPT ![u] = row]
          /\ CountRetry(row)
    /\ summary' = SummaryOf("in_progress", completed', errors')
    /\ calls' = [calls EXCEPT ![u] = @ + 1]
    /\ retryQ' = retryQ \ {u} /\ retrying' = u /\ pc' = "retrySave"
    /\ UNCHANGED <<sidecar, ckpt, archive, report, oldReports, fp, dataset,
                   pending, worker, finished, runs>>

RetrySave ==
    /\ pc = "retrySave"
    /\ ckpt' = [ckpt EXCEPT ![retrying] = results[retrying]]
    /\ retrying' = NoUnit /\ pc' = "retry"
    /\ UNCHANGED <<sidecar, archive, summary, report, oldReports, fp, dataset,
                   pending, worker, finished, results, completed, errors,
                   retryQ, calls, runs>>

FinishSummary ==
    /\ pc = "retry" /\ retryQ = {}
    /\ summary' = SummaryOf("done", completed, errors)
    /\ pc' = "publish"
    /\ UNCHANGED <<sidecar, ckpt, archive, report, oldReports, process, runs>>

\* The consistency pass may promote error rows to findings (it never takes a
\* verdict away); results.json is written and the process ends.
Publish ==
    /\ pc = "publish"
    /\ \E promoted \in SUBSET {u \in Scope : IsError(results[u])} :
          LET answered == promoted \cup {u \in Scope : ~IsError(results[u])}
          IN report' = [fp |-> fp, by |-> [u \in answered |-> results[u].fp]]
    /\ ProcessGone
    /\ UNCHANGED <<sidecar, ckpt, archive, summary, oldReports, runs>>

-----------------------------------------------------------------------------
(* The environment: the process is killed, or fails outside the pool (a    *)
(* retry on a rejected key, a full disk); the sidecar file is damaged.     *)

Crash == pc # "idle" /\ ProcessGone /\ UNCHANGED <<disk, runs>>

DamageSidecar ==
    /\ pc = "idle" /\ sidecar \in Backends
    /\ sidecar' = Corrupt
    /\ UNCHANGED <<ckpt, archive, summary, report, oldReports, pc, process, runs>>

WorkerStep(w) ==
    WorkerTake(w) \/ WorkerReply(w) \/ WorkerRejected(w) \/ WorkerSave(w)
                  \/ WorkerSaveFails(w)

ConsumeStep ==
    \E f \in finished : Consume(f) \/ ConsumeRejected(f) \/ ConsumeFailed(f)

MainStep ==
    \/ AdoptDirectory \/ ArchiveDirectory \/ StampFresh
    \/ PreserveReport \/ Seed \/ BuildQueue
    \/ ConsumeStep \/ AbortExit \/ DetectDone
    \/ \E u \in Units : RetryUnit(u)
    \/ RetrySave \/ FinishSummary \/ Publish

Environment == Interrupt \/ Crash \/ DamageSidecar

Next ==
    \/ \E d \in Datasets, b \in Backends : StartRun(d, b)
    \/ MainStep
    \/ \E w \in Workers : WorkerStep(w)
    \/ Environment

Spec == Init /\ [][Next]_vars

\* The OS schedules the main thread and every pool thread, and every model
\* call returns or times out; nothing obliges a user to start or kill a run.
Fairness == WF_vars(MainStep) /\ \A w \in Workers : WF_vars(WorkerStep(w))

FairSpec == Spec /\ Fairness

-----------------------------------------------------------------------------
(* Properties.                                                             *)

Summaries == [phase : {"in_progress", "done"}, total : Nat, completed : Nat,
              errors : Nat]

\* Every variable keeps its type.
TypeOK ==
    /\ sidecar \in Backends \cup {NoSidecar, Corrupt}
    /\ ckpt \in [Units -> Rows \cup {NoRow}]
    /\ archive \subseteq Units \X Rows
    /\ summary \in Summaries \cup {NoSummary}
    /\ report \in Reports \cup {NoReport}
    /\ oldReports \subseteq Reports
    /\ pc \in {"idle", "identity", "stamp", "preserve", "seed", "queue",
              "detect", "abort", "retry", "retrySave", "publish"}
    /\ fp \in Backends \cup {Legacy} /\ dataset \in Datasets \cup {NoDataset}
    /\ pending \subseteq Units
    /\ worker \in [Workers -> [unit : Units \cup {NoUnit}, row : Rows \cup {NoRow}]]
    /\ finished \subseteq [unit : Units, out : Rows \cup {AuthFailure, DiskFailure}]
    /\ results \in [Units -> Rows \cup {NoRow}]
    /\ completed \in Nat /\ errors \in Nat
    /\ retryQ \subseteq Units /\ retrying \in Units \cup {NoUnit}
    /\ calls \in [Units -> Nat] /\ runs \in Nat

\* The fail-closed gate of sync_identity: a directory stamped by a backend
\* holds no other backend's rows, whatever kills, archives, damaged sidecars
\* and late worker saves came before (rows of unknown origin excepted: an
\* unstamped directory is adopted by design).
OneBackendPerDirectory ==
    sidecar \in Backends =>
        \A u \in Units : ckpt[u] # NoRow => ckpt[u].fp \in {sidecar, Legacy}

\* No report, current or preserved, presents another backend's verdict as the
\* work of the backend it is stamped with.
ReportsSpeakForTheirBackend ==
    \A r \in (oldReports \cup {report}) \ {NoReport} :
        \A u \in DOMAIN r.by : r.by[u] \in {r.fp, Legacy}

\* Whatever the main thread knows is already on disk, so that a kill at any
\* point loses no unit the counters have seen: all but the one retried row
\* run_analysis counts before it saves it.
ConsumedIsDurable ==
    /\ \A f \in finished : f.out \in Rows => ckpt[f.unit] = f.out
    /\ \A u \in Units : results[u] # NoRow /\ u # retrying => ckpt[u] = results[u]

\* The summary a user reads while a run works never claims more units than it
\* has, nor more verdicts than the directory holds, the row of a retry in
\* flight apart; and one that says "done" accounts for every unit exactly
\* once, whether adopted, analyzed, or retried after an error.
SummaryAccounts ==
    /\ pc \in {"queue", "detect", "abort", "retry", "retrySave", "publish"} =>
           /\ summary.completed + summary.errors <= summary.total
           /\ summary.completed <= Cardinality({u \in Scope : Adoptable(u)})
                                     + (IF pc = "retrySave" THEN 1 ELSE 0)
    /\ pc = "publish" =>
           /\ summary.phase = "done" /\ \A u \in Scope : results[u] # NoRow
           /\ summary.completed = Cardinality({u \in Scope : ~IsError(results[u])})
           /\ summary.errors = Cardinality({u \in Scope : IsError(results[u])})

\* No call is paid for a unit whose verdict from this backend is on disk and
\* up to date, across kills and restarts.
PaidOnce ==
    [][\A u \in Units :
          calls'[u] > calls[u] /\ ckpt[u] # NoRow /\ ckpt[u].kind = "verdict"
            => ckpt[u].cls = "sentinel" /\ dataset.cls[u] = "final"]_vars

\* A verdict leaves the directory only into an archive, or because the unit it
\* was given for has since been classified and this run asked again.
VerdictsNeverLost ==
    [][\A u \in Units :
          ckpt[u] # NoRow /\ ckpt[u].kind = "verdict" /\ ckpt'[u] # ckpt[u]
            => \/ <<u, ckpt[u]>> \in archive'
               \/ ckpt[u].cls = "sentinel" /\ dataset.cls[u] = "final"
                  /\ calls[u] > 0]_vars

\* _archive_stale_results: "no prior report is ever destroyed": a report goes
\* only under its own name, into the archive or over the same backend's.
ReportsPreserved ==
    [][report # NoReport /\ report' # report
         => \/ report \in oldReports'
            \/ report' # NoReport /\ report'.fp = report.fp]_vars

\* A run that is started ends: the pool is joined on every path out of it.
RunEnds == (pc # "idle") ~> (pc = "idle")
=============================================================================
