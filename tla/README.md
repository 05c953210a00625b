# A TLA+ model of OpenAnt

OpenAnt finds vulnerabilities in a repository with language models. A Go program (`apps/openant-cli`)
parses the command line, manages a Python environment, and serves a web UI; the Python engine
(`libs/openant-core`) runs a pipeline of steps, `parse -> app context -> reachability -> enhance ->
analyze -> verify -> build-output -> dynamic test -> report`, each of which writes JSON files that the
next one reads, and an auto-patcher that turns a finding into a patch. Every model call costs money and
may fail, so the engine's core logic is not about security at all: it is about asking each question
once, losing no answer through kills, retries and restarts, never publishing one model's answers as
another's, and never claiming more than it has. That logic is what these modules model.

Paths below are relative to the repository; `core/`, `utilities/` are under `libs/openant-core/`.

## 1. Inventory

| component | state | operations | what makes it hard | status |
|---|---|---|---|---|
| analyze step (`core/analyzer.py`) | checkpoint directory, `results.json`, pool queue, futures, counters | identity check, archive, adopt, seed, pool, abort, retry, publish | threads save while the main thread counts; aborts that cancel or drain; kills between any two writes; a second backend on one directory | modelled: `AnalyzeStep`, abstract `VerdictStore` |
| step checkpoints (`core/checkpoint.py`) | row files, `_summary.json`, `_fingerprint.json` | `sync_identity`, `save`, `load`, `write_summary`; choice of a file name | colliding names, older naming schemes, read-then-write under a lock | modelled: `CheckpointPaths`, `AnalyzeStep` |
| verify step (`core/verifier.py`, `utilities/finding_verifier.py`) | checkpoints, the answer on each finding, counts | admit, pool, save, count, consistency pass | rows saved by the main thread only; a failed save does not stop the pool | modelled: `VerifyStep`, `VerdictFlow` |
| consistency passes, verdict taxonomy (`utilities/stage1_consistency.py`, `core/verdict_taxonomy.py`) | the verdict of a row | second look | which changes of verdict may be written | modelled: `VerdictFlow` |
| scan orchestrator (`core/scanner.py`) | counts, skip list, step reports, the report's input | run, skip or fail each step | what a failed step leaves for the next; counts derived twice | modelled: `ScanPipeline` |
| enhance step (`utilities/context_enhancer.py`, `agentic_enhancer/agent.py`) | rows with carried-over spend, shared units, retry rounds | classify, save, fold, retry | threads go on after an interrupt; spend over attempts and runs | modelled: `EnhanceStep`, `AgentLoop`, `EnhanceAgents` |
| rate limiter, adapters (`utilities/rate_limiter.py`) | the end of the backoff | wait, extend | threads sleep outside the lock | limiter modelled: `RateLimit`; adapters are conversions |
| cost ledgers (`utilities/llm_client.py`, `core/step_report.py`) | process totals, per-thread usage, usage in rows, sums of summaries | record, seed, retry, finish | ledgers charged at different moments by different threads | partly: `SpendLedger`, `EnhanceStep`, `VerifyStep` |
| LLM reachability (`core/llm_reachability.py`, `core/parser_adapter.py`) | records with signals, stashes, coverage counters, the filtered dataset | batch, halve, flush, record, promote, filter | signals across batches; adoption by a later pass; a call graph per language | modelled: `ReachabilityReview`, `ReachabilityRefilter` |
| dynamic tester (`utilities/dynamic_tester/`) | rows, containers, images, results | generate, build, run, tear down, judge, retry | teardown on every path; resume; interrupts | modelled: `DynamicTest` |
| CLI invocation (`internal/python/invoke.go`, `invoke_ctx.go`) | the child, its pipes, the context | wait, cancel, judge | kill races exit; a descendant holds the pipe | modelled: `Invocation`, `TestInvocation` |
| managed Python runtime (`internal/python/runtime.go`) | the venv, its editable install, `.deps-hash`, the lock | detect, install, stamp, run | concurrent commands of several checkouts | modelled: `VenvInstall` |
| web UI job server (`internal/server/server.go`) | jobs in memory and on disk, run slots, log buffers, streams | start, run, stream, delete, shut down, recover | goroutines, child processes, dropped connections, restart | jobs modelled: `WebJobs`; pages are not |
| auto-patcher (`utilities/autopatcher/`) | plan, strategy, readiness, patch, and each piece of evidence about it | plan, verify, revise, generate, apply, challenge, calibrate, repair, compare, amend, recommend | the patch is replaced four times; evidence must follow it | control modelled: `PatchPlanning`, `PatchPipeline`, `TestComparison`; texts and tools are not |
| batch runner (`utilities/autopatcher/tools/run_cve_batch.py`) | manifest, lock, attempts with their results, stop event | new, resume, rerun, summarize; start, stop and classify children | children that ignore a stop or outlive their runner; the manifest is read before the lock | modelled: `CveBatch` |
| stage replay (`utilities/autopatcher/replay_engine.py`, `lineage.py`, `tools/run_stage.py`) | a manifest per directory, each naming its parent | record, resolve, replay one stage | what is stale depends on every directory of the chain; an optional stage replaces the patch | modelled but for provenance and old manifests: `StageReplay` |
| reporter (`core/reporter.py`) | files | collapse duplicates, disclose | which findings stay | partly: `ScanPipeline`, `VerdictFlow` |
| parsers, dataset merge, diff filter, language selection | files | conversions | size rather than state | the filter only: `ReachabilityRefilter` |
| Go commands, configuration, checkpoint reader; application context; GitHub scanner | files | conversions, network | | section 8 |

How they interact: the Go commands call the engine as a child process (`python -P -m openant`), and read
its JSON envelope; the web UI does the same from a goroutine per job. Within the engine steps share
nothing but files, one process-wide `TokenTracker` and one `GlobalRateLimiter`. Within a step, pool
threads share the checkpoint directory with the main thread.

What can go wrong, line by line, is the `hazards` list of `PROJECT.json`; each entry names the properties
that cover it, or says why none does.

## 2. Plan

Done: the pools (`AnalyzeStep`, `VerifyStep`, `EnhanceStep` with its conversations and the limiter), the
pass over the reachability of units with its filter, the pipeline of steps with what it does to verdicts,
the invocation with the dynamic test step inside it, the auto-patcher, its batch runner and the replay of
its stages, the virtual environment, the web jobs. Composition: `EnhanceAgents` composes three modules, `TestInvocation` two, `VerifyStep` extends
`SpendLedger`, `ScanPipeline` extends `VerdictFlow`, `ReachabilityRefilter` extends `ReachabilityReview`,
`PatchPipeline` extends `PatchPlanning` and `TestComparison`; `AnalyzeStep` implements `VerdictStore`, by the
mapping of `AnalyzeRefinement`.

Every safety property of the runs is a theorem as well (section 6). What is left is breadth: the tracing of
model calls, the discovery of test plans, old manifests.

## 3. The modules

### AnalyzeStep (and VerdictStore, AnalyzeRefinement)

A sequence of runs on one output directory. On disk: `sidecar` (`_fingerprint.json`), `ckpt` (one row per
unit), `archive` (directories moved aside), `summary`, `report` (`results.json`), `oldReports`
(`results__<fp>.json`). In memory: the queue, what each thread holds, the finished futures, the results,
the counters and the retry queue. Run by run:

| action | code |
|---|---|
| `StartRun` | `run_analysis` up to `sync_identity`: a backend and a dataset |
| `AdoptDirectory`, `ArchiveDirectory`, `StampFresh` | `StepCheckpoint.sync_identity`, `_archive_dir`, `_write_fingerprint`; fail closed on an unreadable sidecar |
| `PreserveReport` | `_archive_stale_results`, whose rename may fail and is swallowed |
| `Seed`, `BuildQueue` | `_seed_summary`, adoption of rows in `_run_detection` |
| `WorkerTake`, `WorkerReply`, `WorkerRejected`, `WorkerSave`, `WorkerSaveFails` | `_process_and_save` in a pool thread |
| `Consume`, `ConsumeRejected`, `ConsumeFailed`, `Interrupt`, `AbortExit` | the `as_completed` loop and its three except arms: cancel on Ctrl-C and on a rejected key, drain on anything else |
| `DetectDone`, `RetryUnit`, `RetrySave`, `FinishSummary` | the retry loop of `run_analysis`: it counts, writes the summary, then saves |
| `Publish` | consistency pass, `results.json` |
| `Crash`, `DamageSidecar` | a kill, a damaged file |

A row is a verdict, a retryable error or a permanent one, with its backend and the classification it was
asked under; a backend is a value; the FIFO queue is a set. The sequential mode (`workers <= 1`) is one
of the interleavings, except that a generic exception there aborts without draining, which on disk is a
kill. What is an error is one predicate here and two in the code, `finding == "error"` where outcomes are counted
(`analyzer.py:974`, `1090`) and the wider `analyze_result_is_error` where rows are adopted
(`checkpoint.py:271`); they differ on malformed rows only. `write_json` replaces files atomically, so a
write is one step.

`VerdictStore` is the promise, without threads or runs: a store has an owner; verdicts appear only in the
owner's name; ownership changes only over an empty store (or one of unclaimed legacy rows); a report
shows what the store holds. `AnalyzeRefinement` maps the directory onto it: its owner is the sidecar, what it
holds are the rows that are no errors.

### CheckpointPaths

The choice of a row's file under `_save_lock`: a unit uses the bare name, unless a sibling holds it, then
its suffixed home; older versions may have left either, or both, and files may be damaged or removed at
any time. `Target` is `disambiguated_checkpoint_path`, `Resolve` and `Write` the two halves of
`save_checkpoint_under_lock`, `Superseded` the twin that is removed in between. `ResolveRefused` is the
error the code passes over there (`checkpoint.py:128-129`): the twin stays, the bare name is used, and
`refused` remembers it until the unit's path is resolved again, for `LoadFindsLatest` to except the unit as
long. `WriteFails` is `Write` with an error, and `Kill` drops the lock with the process. Two processes on one directory are not modelled (the
code does not support them), nor a directory copied to another file system.

### SpendLedger and VerifyStep

`SpendLedger` is the analyze step seen as three ledgers: `tracker` (the global `TokenTracker`), the
`usage` in each row, and the cost of the summary; `StartRun` to `Exit` follow `run_analysis`. One number
stands for tokens and dollars. `VerifyStep` adds the step that follows it in the same process, or alone:

| action | code |
|---|---|
| `StartAlone`, `Load`, `BeginVerify`, `Archive` | `run_verification` and the head of `verify_batch`: rows restored, their usage added to the tracker, or the directory moved aside |
| `VerifyOne`, `Verified` | a pool thread takes a finding and returns; it saves nothing |
| `SaveRow`, `CountRow`, `SaveFails` | the main thread's loop over finished futures |
| `Interrupt`, `PoolDone` | Ctrl-C cancels the queue; any other exception leaves it draining |
| `CheckConsistency`, `EndProcess` | the Stage-2 consistency pass, and the end |

### VerdictFlow and ScanPipeline

`VerdictFlow` holds, as operators, everything that may change a verdict: the admission to Stage 2
(`IsCandidate`, `Escalated`), the reading of a Stage-2 answer (`Answered`, whatever it asserts), the
restoring of a checkpoint, the two consistency passes (`MayRewrite`, `Rewritten`), the counts of the scan's
envelope (`Envelope`) and of `results_verified.json` (`Recount`), and the collapsing of findings in the
report (`Deduplicated`). `ScanPipeline` runs `scan_repository` over them, scan after scan: `Parse`,
`AppContext`, `Reachability` (which may fail before or after it has rewritten the dataset), `Enhance`,
`Analyze` and `Publish`, `SkipVerify`, `BeginVerify`, `VerifyUnit`, `EndVerify`, `VerifyFails`,
`BuildOutput`, `DynamicTest`, `Report`, and `StopsEarly` for the steps that abort the scan and for kills.

### EnhanceStep, AgentLoop, RateLimit, EnhanceAgents

`EnhanceStep` is the pool whose threads mutate the units and save the rows themselves (`Ask`, `Answer`,
`Save`, `SaveFails`), its folding main thread (`Fold`, `Raise`, `Interrupt`, `PoolDone`), its retry rounds
(`BeginRound`, `RetryAsk`, `RetrySave`, `RetryFails`, `RetryFold`), and `_prior_spend`, carried from the
rows of failed attempts (`PriorOf`, `Discard`). `AgentLoop` is a conversation: a bounded number of turns,
each billed, and one record at whichever of five exits it is left by. `RateLimit` is `GlobalRateLimiter`
with the time that is left of each wait: `Look` (under the lock), `Wake`, `Issue`, `Reject`, `Tick`.
`EnhanceAgents` composes them: a thread's `Answer` is the end of its conversation, each turn waits for
the limiter, a throttled turn moves it, and a retry round waits for it.

### ReachabilityReview and ReachabilityRefilter

| action | code |
|---|---|
| `StartPass` | the records of unchanged units are adopted, the rest is queued |
| `NextBatch`, `AttemptOk`, `AttemptLost`, `Split`, `HalfOk`, `HalfLost` | `_review_batch` and its one halving, with the revision of the counters |
| `Commit`, `Flush`, `FlushFails`, `Write`, `WriteFails` | the stash of signals about units of other batches, flushed into records that exist, joined into those that follow |
| `Publish`, `Finish`, `Kill`, `Edit` | the summary after each batch, the end, a kill, a unit whose code changes |
| `Refilter`, `NextScan`, `KillScan` | the scan's use of it: promotion of entry points, the filter per language with its safety net |

A unit is its place in the dataset (`1..Size`), and a batch is a set, the first of those that are queued (`First`).
What the filter reaches is computed as `get_all_reachable` does, level by level (`Levels`); `Size` levels are
enough, which `ReachabilityReview_proofs` proves.

`heard` is history: the signals about units outside the batch that raised them, with that batch. Once the unit
and one of the batch's units have adoptable records, no later pass asks for the signal again, so the unit's
record must hold it (`SignalsHeard`, in `SignalsApplied`), wherever a pass was killed; a failed save apart. It does
hold because the flush precedes the batch's own records, and a batch without records is reviewed again. Two
kinds of signal are outside of it, as the code says itself (`llm_reachability.py:1056-1062`): one about a
unit that is reviewed later, if the pass is killed before that unit's record is written, and one about a unit
that gets no record in the pass. Both are gone for later passes (section 5).

### Invocation, DynamicTest, TestInvocation

`Invocation` is one run of the engine: `PrintEnvelope`, `ChildExits`, `ChildDies`, `DescendantEnds`,
`DeadlineFires`, `JobCancelled`, `Interrupt`, `ForceKill` race `Cancel`, `Reap`, `DrainEnds` and `Judge`;
`CliAnswer` is `Invoke`'s reading of what is left, `ServerAnswer` that of `invokeCtxInner`. `os/exec` and
the engine's processes are external. `DynamicTest` is `run_dynamic_tests` with the executor: `Restore`,
`PassOver`, `TakeUp`, `Generate`, `Build`, `Up`, `RunEnds`, `RunTimesOut`, `Remove`, `Cleanup`, `Judge`,
`SaveRow`, `Publish`, and `Unwind` for what an exception or an interrupt does wherever it hits; Docker is
external. `TestInvocation` puts the step inside the engine's process: a dead process takes the step with
it, and the exit code follows the results.

### PatchPlanning, TestComparison, PatchPipeline

| action | code (`pipeline.py`) |
|---|---|
| `HandWritten`, `PlanGrounded`, `PlanAgain`, `PlanUngrounded` | S1: planning with bounded evidence acquisition |
| `Claim`, `ClaimFails`, `RevisionSupported`, `RevisionFails` | the verification of the plan's claim and its one revision |
| `StrategyNotInvoked`, `Strategize`, `RerunStrategy`, `NoRerun`, `StrategyFails` | S2 |
| `EditsReady`, `EditsNotReady`, `NoApprovedTarget` | S3 |
| `Skips`, `Generate`, `Conformant`, `Regenerate`, `Withdraw`, `Process`, `RetryApplies`, `RetryFails`, `Investigate` | S4: generation, conformance to the approved edits, the apply check and its retry, the post-patch copy |
| `Challenge`, `CalibrateFirst`, `RepairApplies`, `Repair`, `KeepOriginal`, `CalibrateLast` | S5, S6 |
| `SkipComparison`, `CompareTests`, `Amend`, `NoAmendment`, `Rerun` | S10, S11: the existing tests, and one amendment of a test |
| `Decide`, `Unavailable` | S12: reconciliation, known findings, the recommendation; a model that is gone |

A patch is a name for the generation that wrote it and three sets of files: those `git apply` would change
(`files`), those whose headers `_patch_changed_files` reads (`named`: deleted and renamed ones too), and those
of which `parse_diff` finds hunks (`hunked`: behind a `+++ b/` header only). The target gate (`Conforms`) and
the retry judge the last, the repair (`WithinOriginal`) the second. Generation, regeneration, retry and repair
each have any such diff; `unseen` is history, the files that were not seen by the check of the stage that wrote
them, and no check of a later stage takes them off. `TestComparison` separates
what two test runs did (`Runs`) from what is known of them (`Results`: names, totals, a last line, an
exit code, nothing), and transcribes `compare_runs` on the latter, so that its answer can be held against
the former.

### CveBatch

Runners of one batch directory (`run_cve_batch.py`), each with one command and, in a session, a pool of
threads that run the attempts. `tries[c]` are the attempts of a case, each with its thread, its child and its
files; `manifest` is the file and `copy[r]` what a runner has read of it.

| actions | code |
|---|---|
| `Create`, `LoadBatch`, `Refused`, `BeginSession`, `Summarize` | `cmd_new`, `cmd_resume`, `cmd_summarize` and `BatchLock`; the schedule is drawn up under the lock, the manifest is read before it |
| `StartAttempt`, `EnterSpawn`, `Spawn`, `SpawnRefused`, `Reap` | `run_case_attempt`, with `SessionContext.spawn` in two halves: it looks at the stop event and registers the child under one lock |
| `Record`, `RecordFails`, `AttemptRaises` | `classify_attempt` and the writing of `result.json` |
| `Interrupt`, `RequestStop`, `KillAll`, `CancelQueued` | the signal handler, the SIGINT to each registered child, the grace timer or a second signal |
| `LoopFails`, `Unwound`, `EndSession`, `Package` | the ends of `run_session` |
| `Kill`, `ChildEnds`, `Damage` | a kill that leaves orphans, a child's end and its trace, a trace that is lost later |

A run of git or of `run_traced.py` is one child; what its trace proves is one of `Outcomes` or nothing.

### StageReplay

`manifests[d]` is the `run_manifest.json` of directory `d`: its parent, and of each stage it executed the number,
what was consumed, and the candidate patch the artifact is about. `FullRun` is a traced run (`run_traced.py` with
`ExecutionRecorder`), which records its stages up to where it ended; `Replay` is `replay_stage`: it resolves the
stages it reads in the chain of its source (`Walk`, `Candidate`, `Resolution` for `build_chain`,
`latest_execution_in_manifest`, `resolve_effective`), finds the patch in force (`Authoritative`) and writes one
execution (`Artifact`, `Consumed`). Source and output may be any directories, also ones already written; a full
run may be named by its recorded path or by another. Directories do not overlap, and hold manifests of the
current version. `written`, `last` and `spent` are history: the properties look at the manifest last written.

### VenvInstall

Commands of several checkouts, each going through `EnsureRuntime`: detect, check the import, lock, create
the venv, look again, pip, unlock, stamp, check staleness, run. `installed` is the source the editable
install points at, `stamp` the digest in `.deps-hash`.

### WebJobs

The web UI's scan jobs. `runner[j]` follows the request handler and then the goroutine of job `j`:

| actions | code |
|---|---|
| `Admit`, `Store`, `List` | `handleStartScan`: the draining check, the directory, `mgr.add` |
| `TakeSlot`, `AbortQueued`, `Launch`, `ChildWrites`, `ChildEnds`, `Abandon`, `PhaseEnds`, `Panic` | `runJob` and `InvokeCtxCapture`: clone, scan, report, summary, each a process group |
| `SetStatus`, `Persist`, `Cleanup`, `WriteLogs` | `setDone`/`setError`/`setTimeout`, `persistTerminalStatus`, the deferred calls |
| `Connect`, `Tick`, `Drop` | `handleScanLogs` and a browser that reconnects with `Last-Event-ID` |
| `Delete`, `Unlist`, `RemoveDir` | `handleDeleteScan` |
| `Drain`, `CancelAll`, `Exit`, `Crash`, `Restart` | shutdown in `Start`/`WaitShutdown`, a kill, `recoverJobs` |

`cancelAll` and `srv.Close` are one step, so is the write of `meta.json`, and so is `RemoveAll`; the
five-second waits may run out whenever the process of a cancelled job is dead.

## 4. What the runs show

All runs turn deadlock checking off: every system here may come to rest (no more runs to start, no more
commands, a report written).

| run | instance | checks | what it shows |
|---|---|---|---|
| `analyze` | 2 units, 2 threads, 2 backends, 2 runs, legacy rows, classes completed and population cut in between | `ConsumedIsDurable`, `SummaryAccounts`, `OneBackendPerDirectory`, `ReportsSpeakForTheirBackend`, `PaidOnce`, `VerdictsNeverLost`, `ReportsPreserved`, `ImplementsVerdictStore`, `RunEnds` | counters and disk agree through kills, aborts and retries; no backend's verdict is adopted, published, lost or paid for wrongly; refinement; termination |
| `verify` | 2 units, 2 threads, 2 runs, population cut, resets | `LedgersAgree`, `VerifyAccounts` | no call is counted twice or missed; the counts of verify are those of its rows |
| `checkpoint_paths` | 4 units (3 share a name), 2 threads, 4 saves | `RowsSurvive`, `LoadFindsLatest` | no row is lost or shadowed, from any directory left behind; a twin that could not be removed is read until a later save removes it |
| `scan` | 2 units of one pattern, 2 scans, 3 requests | `PositivesKept`, `EnvelopeAgrees`, `AdjudicatedOnce` | no failed, skipped or killed step loses a positive finding or lets the figures drift |
| `enhance` | 2 units, 2 threads, 2 rounds, 2 runs, 2 turns, backoffs of 1 and 2 | `SpendAccounted` (`ConversationsBilled`, `EnhanceAccounts`), `WindowsHonoured`, `StepEnds` | all spend is in the rows and totals; promised waits are kept; every run ends |
| `reachability` | 4 units of 2 languages, batches of 2, 2 passes, 1 edit | `SignalsApplied` (`SignalsHeard`, `AdoptedIsApplied`, `ScopeKept`), `CoverageTold`, `SignalsKept` | a later pass adopts what this one applied, and no signal is lost that will not be asked for again, the residuals of section 5 apart; no unit that an entry point reaches is dropped |
| `invoke` | 2 findings, 1 retry, 2 commands, command line and server | `RunReported`, `TornDown`, `Answered` | the races of an end are told as what they were, nothing stays in Docker, each command is answered |
| `patch` | a code file and a test file, which a diff may also change without a hunk (`Hunkless`); 2 tests, 2 planning attempts | `EvidenceIsOfThePatch`, `PatchWasApproved`, `DeployIsEarned` | what is reported about a patch is about that patch, and it was cleared, but for files the checks of a diff do not see |
| `venv_shared` | 3 commands, 2 checkouts, 4 starts, Ctrl-C, failing stamp | `PipExclusive`, `RunsOwnSource`, `CommandsEnd` | pip runs alone, the lock is given back; commands that take turns run their own engine |
| `webjobs` | 2 jobs, 1 slot, log of 1 line and the marker, 1 job that may be deleted, 2 stops or kills | `StreamComplete`, `DeletedStaysDeleted`, `RestartKeepsStatus`, `EveryJobEnds` | streams, deletions, restarts and slots |
| `batch` | 2 runners, 2 cases, 1 thread each, 2 faults | `DecidedOnce`, `StopIsClean`, `StopEnds` | a decided case is not run again; a stop reaches every child, blames none, and ends |
| `stage_replay` | 1 traced run, 4 replays of any of 12 stages (an output written again, or a source other than the newest directory, counts as 2) | `LineageSound` (`OneLineage`, `ReplayAdvances`), `ReportJudgesItsPatch` | a replay mixes no two executions of a stage; a report judges its patch; a replay makes stale only what rests on its stage |

Why the bounds are enough. Threads of a pool interact only through the queue and the consumer: with two of
each, one unit is queued or in a thread while another is finished. Identity needs a run that fills
and a run of another backend that archives, over rows without a stamp as well; what holds for any number of
runs is proved (section 6). A name collision needs two siblings in flight
and a third that holds the file. A ledger error needs an attempt, a retry, and a resume that adopts. A
cross-batch signal needs two batches, in both orders, and a pass that adopts. A consistency group needs a
row that rewrites and one that is rewritten. Evidence is misattributed by one replacement, and every pair
of replacements occurs; plans and strategies name the code file only, so the second file is the one that must
not enter the patch, and the only one that may be changed without a hunk (a deletion, a rename, a mode): what is
unseen is decided file by file, and `PatchesApproved` is about any number of files. Of two tests one breaks while another
fails already. The venv race needs one who installs, one who waits, one who comes later. In the web UI one
job waits for the other's slot, and a log of one line has every length that matters (below, at, beyond its
limit); the second stop is a kill after a restart, or the reverse.

In a batch one runner is killed, or stopped, while the other waits to resume; of two cases one is decided while
the other runs; two faults (`MaxFaults`) are a kill and a damaged trace, or the reverse.

A lineage goes wrong by two replays and a third stage that read both: one replays a stage, one its reader, and
the third rests on the two, from the newest directory or from another branch; a fourth puts an S11 that amends
in between.

Symmetry is used where no liveness is checked, over the threads and the three colliding units of `checkpoint_paths`.

Fairness. `AnalyzeStep`: weak fairness of the main thread and of each pool thread (the operating system
schedules them; a model call returns or times out). `EnhanceAgents`: weak fairness of the step's work,
which includes the passing of time; interrupts, kills and failing saves are not fair. `VenvInstall`: weak
fairness of each command's steps; `flock` is not first come, first served, so the property rests on the
number of starts being finite. `TestInvocation`: weak fairness of the deadline and of the parent's own
steps only: the engine need not end, nor its descendants let go of the pipe. `WebJobs`: weak fairness of
each handler, goroutine and stream ticker, and of the end of a child process, which the invocation's
deadline guarantees. `CveBatch`: weak fairness, per runner, of its threads and of the death of a child that was
sent SIGKILL; no other child need ever end. No fairness is assumed of users, signals, crashes, deletions or restarts.

## 5. Findings and observations

Observed while modelling; the properties are stated so as not to claim the opposite, and say so:

- `_archive_stale_results` swallows a failing rename, and the run then overwrites the report it was to
  preserve. `ReportsPreserved` is checked and proved for
  renames that succeed (`RenameMayFail = FALSE`).
- A retried row of analyze, a re-verified row of verify and a re-tested row of the dynamic tester replace
  the usage of the attempt before, so that a resumed run reports less than all runs spent
  (`llm_client.py` `add_prior_usage`; `dynamic_tester/__init__.py` around 258). Enhance carries it over.
- Two concurrent first commands of two checkouts: the one that waited installs nothing and stamps its own
  source. `RunsOwnSource` is about commands that take turns. A kill between pip and the stamp does the same.
- The report collapses a finding whose sole caller is a finding of the same class (`core/reporter.py:171-184`). Two
  functions that only call each other are each the other's sole caller: both are collapsed, though
  `tests/test_issue289_results_recompute.py:102-104` says of a collapsed unit that "it is reported once under its
  caller". `PositivesReported` has this case (`Ring`) as its one exception.
- A checkpoint of verify is restored although the fresh Stage-1 verdict has changed, contrary to
  `core/verifier.py:337-341`. `EnvelopeAgrees` and `PositivesKept` are about scans where it did not happen.
- A save that fails in verify's main thread raises, and the pool drains, billing into nothing.
- The server's deadline path looks for an envelope on one line, which the engine prints indented; and it
  treats exit code 1 without an envelope as a success (`server.go:1346-1359`).
- A scan admitted before Ctrl-C (`server.go:781-788`) and listed (`825`) after `cancelAll` (`576-579`) is never
  cancelled, contrary to `server.go:574-575` and `600-602`: its process group outlives the server. `WebJobs` has
  the behaviour.
- The batch runner reads its manifest before it takes the lock (`run_cve_batch.py:2885-2891`, `2971-2973`): a
  resume that loads it during another runner's session and gets the lock after it writes back the older copy,
  in which that session is marked abandoned, contrary to the docstring at `2875-2876`, or missing. `cmd_new`
  writes the manifest before it locks (`2850-2851`), so a resume may come first. `DecidedOnce` is about the
  attempts, which are read under the lock.
- Stage replay: nothing checks that `--output` is empty (`stage_replay.py:365-382` compares it with the source
  only, `replay_engine.py:1756` creates it with `exist_ok=True`), though `replay_engine.py` calls it "a
  freshly-validated, empty --output directory" and `lineage.py:654-657` rests identities on it. A replay into an
  ancestor's directory replaces its manifest, with the same ids, so that readers of the old execution look
  fresh; or makes the cycle that `build_chain` takes to be impossible. The three properties are about chains
  whose directories were written once (`Untouched`): without it TLC has a report
  whose review is of another patch after seven writes.
- Stage replay: identities are paths as typed. From `<run>/trace`, which the help of `--source-run` allows, or
  from a relative path to a run recorded under an absolute one, every execution of the full run that consumed
  anything resolves as superseded. `LineageError` is not among the errors `run_stage.py` reports.
- Stage replay: a report shows the comparison of S11 and records that it consumed it only if S11 amended the
  patch; and that there was no S11 is recorded nowhere, so that a review of S6's patch stays fresh when S11 amends
  it afterwards, and the report shows the amended patch with that review.
- `disambiguated_checkpoint_path` swallows the error of removing a superseded twin, or of comparing the two files'
  times, and uses the bare name (`checkpoint.py:119-130`): the comment says that "the ordinary overwrite still lands",
  but the older file stays, and load, which takes rows in the order of `listdir`, may read it. The next save of
  the unit that can remove it does. `LoadFindsLatest` excepts a unit in that state and nothing else;
  `RowsSurvive` has no exception.
- A signal for a unit that has no record yet is in memory only: a kill before the unit's own record is written
  loses it for good, since the batch that raised it is adopted (`llm_reachability.py:1056-1062` says so). A signal
  about a unit that gets no record in the pass (lost batch, or beyond `max_units`) is applied by this pass and by no
  later one that does not hear it again. `SignalsApplied` is about the other signals.
- The gate on a generated patch (`remediation_planner.py:7196-7288`) sees what `parse_diff` registers, files behind
  a `+++ b/` header (`diff_parsing.py:65-75`), and of these only hunks: the deletion of a file that nobody
  approved, a rename or a change of mode without hunks beside an approved hunk conforms, and `git apply` accepts it.
  `_patch_changed_files` (`pipeline.py:7281-7333`), which bounds the repair, reads both sides of each pair and
  rename headers, and misses a change of mode alone. `FilesApproved` excepts the files so unseen (`patch.unseen`),
  and says of all others that they were approved. The hunks of a deletion that follows another file's section are
  counted as that file's; they are a choice (`strays`) in the model.
- npm is left running on Ctrl-C, against the comment in `parser_adapter.py:976-983`.
- Dynamic tester: an exception in `regenerate_test` leaves the loop and loses the finding's row; a failed
  regeneration updates tokens and not dollars; compose builds and starts outside its `try`, so an
  interrupt there leaks what was started; the summary's `completed` may exceed its total.
- Auto-patcher: hygiene is not computed again after context reconstruction, nor review and hygiene after a
  test amendment (`EvidenceIsOfThePatch` counts them as those of the patch that was amended); "Deploy With
  Caution" is unreachable from `_compute_trust_signals`; the test comparison does not feed the
  recommendation.
- Test comparison: a test that did not run on the baseline and fails is named newly failing; a test that no
  longer runs with the patch is not noticed when results carry names; a report file that the repository
  itself ships at the runner's output path could be read as a result. `Honest` is about tests that ran on
  both sides, and assumes true reports.
- `dataset_merge` renames a colliding unit id, a name the call graph does not know: the filter drops it.

## 6. What is proved

For every value of the constants, from the named assumptions on them (finiteness, distinct sentinels,
and for names, that a truncated name is its unit's alone):

| module | theorems | argument |
|---|---|---|
| `AnalyzeStep_proofs` | `TypeCorrect` | `TypeInv` strengthens `TypeOK` with where a retried and a held unit may come from; one lemma per phase |
| | `DirectoryIdentity`, `ReportIdentity`, `ReportsKept` | the directory, the threads' rows, the futures and the results all belong to the run's backend once `sync_identity` has returned, and a stamp is written only over rows it may stand for |
| | `ConsumedDurable`, `NothingPaidTwice`, `VerdictsKept` | a unit is in exactly one place (queue, thread, future, results), so no row is written twice; what is asked for has no settled verdict on disk |
| | `SummaryCounts` | the counters are the cardinalities of disjoint sets of units (adopted, consumed, in error), each located in one place |
| | `AnalyzeImplementsStore` | the step simulation: each action is a step of `VerdictStore` or a stutter, by the identity invariants |
| `CommandRecords_proofs` | `PathsTyped`, `ResolvedPathKept`, `NoRowLost`, `NoRowStale` | under the lock, a resolved path holds no sibling's row, and every file of a unit but the one being written holds its latest row, or is a twin that could not be removed |
| | `ReportedRight` | at each point of the race, what the context, the child and its pipes can have become, and what was printed of it |
| | `TestsTornDown` | what Docker holds at each step of a test, and what an exception or an interrupt leaves to the teardown |
| `GoProgram_proofs` | `VenvTyped`, `NoOrphanLock`, `InstallsExclude`, `TurnsRunOwnSource` | whoever is under the lock is its holder; in turns, the stamp names the installed source whenever nobody is inside |
| | `StreamsComplete`, `DeletedGone`, `StatusKept` | one invariant per job: what of its log is in memory, on disk and with the viewer, and what its goroutine has left to do, at each place it can be |
| `AutoPatcher_proofs` | `EvidenceFollowsPatch`, `ComparisonsHonest`, `DeploymentEarned` | `EvidenceInv` says at each stage which evidence already is of the patch in force; `compare_runs` is honest for any finite set of tests, by a lemma on what each kind of result shows of its run |
| | `PatchesApproved` | `ApprovalInv` says what an empty skip flag means at each stage between the gate that raises it and the generation that reads it, and that each replacement adds only approved files and those its check could not see, which stay known as unseen |
| | `HolderWorks`, `CasesDecidedOnce`, `StopsClean` | who has threads at work holds the lock; so what a schedule rests on is still so when a thread comes to the case, and a stop sees each child that was let start |
| | `ManifestsAreSound`, `LineageIsSound`, `ReportJudged` | the chain, the resolution and what lies behind an execution are each the one function that satisfies their recursion (`Settles`), so that a directory added at the tip leaves all below it as it was; `PatchTold` says that what a record tells of the candidate patch is what the executions it consumed tell |
| `ReachabilityReview_proofs` | `AdoptedApplied`, `SignalsStay` | what is known of a unit is its record of the base, its stash and what is still to be written; queue, batch and records are disjoint |
| | `HeardIsKept` | while an adoptable unit's record lacks a signal that no save has lost, all of the batch that raised it is still to be written; between passes such a signal is on disk, or its batch is asked again |
| | `CoverageKnown` | the counters are cardinalities of what was not reviewed, at each point of a batch and of its halves; the place of a unit in the dataset bounds them, by the least-number principle |
| | `SignalsReachScope` | the levels of `get_all_reachable` grow until a fixpoint, which they have after `Size` steps; what is outside it is outside a closed set |
| `VerifyStep_proofs` | `LedgersTrue` | the tracker is what the summary has plus what is called and not counted yet; what is on disk, held to be saved or answered and not stored is paid for, each once. A sum over units is the size of a set of coins, so that sums add and split as sets do |
| | `AccountsTrue` | the summary's counts are the sizes of the sets of rows consumed, by kind, and what it spent is the tracker's growth less what is answered and not consumed |
| `EnhanceAgents_proofs` | `EnhanceTypes`, `SpendIsAccounted` | `StepInv` says how far each unit may be, that what its attempts have cost is in its row or its prior spend, that tracker, summary and rows differ by what is answered and not folded or not saved (sums as in `VerifyStep_proofs`), and that the counters are the sizes of disjoint sets of units; `AgentInv`, that a conversation's record is its bill |
| | `WindowsAreHonoured` | the end of the backoff is that of the longest window asked for, whoever reported it |
| `ScanPipeline_proofs` | `UnitsAdjudicatedOnce` | what verify still works on has no answer, or an errored one |
| | `NoPositiveLost` | an answer, as it is saved, keeps the finding it is about, raises it or is finished; a row after verify is such an answer or one that the consistency pass has rewritten as it may; if all findings of a class are collapsed, each is the other's caller |
| | `EnvelopeTrue` | the envelope adds and subtracts cardinalities of sets that partition the rows of the recount; the skip list tells what the step reports tell of the steps gone past |

The assumptions on the constants are named in the modules (`ScanAssumption`, `BatchAssumption`,
`JobsAssumption`, `DynamicAssumption`, `VerifyAssumption`, `EnhanceAssumption`, `AgentsAssumption`, `ReachabilityAssumption`, `RefilterAssumption`, `MarksAssumption`, `ReplayAssumption` and so on):
sets are finite, sentinels are no values, inputs are from the domains the code produces. TLC evaluates each of
them on the runs.

None of the safety invariants is inductive alone. `ConsumedIsDurable`, for one, says nothing of a unit that
sits in two places; only with `OnePlace` does a thread's save touch no row that the main thread has counted.
`EvidenceIsOfThePatch` speaks of the stages after the review only; what makes it hold is that no stage before
them leaves evidence of an earlier patch behind. `LineageSound` and `ReportJudgesItsPatch` look at the
manifest last written; `ReplayInv` adds what they rest on in the directories before it: `LineageInv` (an
execution consumed earlier stages only, from directories that have a manifest, and its patch is that of what
it consumed as long as that directory was written once). `PaidOnce`, `VerdictsNeverLost` and `ReportsPreserved` are
properties of a step, proved from the invariant of the states. `ReportsKept` assumes that renames do not
fail, and `TurnsRunOwnSource` that one command runs at a time, that none is killed and that the stamp can
be written.

## 7. What is only model-checked

- Liveness (`RunEnds`, `CommandsEnd`, `EveryJobEnds`, `StepEnds`, `Answered`, `StopEnds`): fairness and ENABLED are
  outside the prover's reach.
- Where a module states a type invariant and no run lists it (`AnalyzeStep` proves its own), the runs'
  budget went to what can fail in the code; the invariants were checked on the same instances.

## 8. What is not modelled, and why

- The nine parsers, dataset merging, the diff filter, language selection: pure functions of source text or
  of lists of units, without state of their own. Their size (about a third of the engine) is why the share
  of mapped lines stays low: what a parser computes is the content of a call graph, which the models take as
  a constant.
- Prompts, answers and their parsing, prices, what a report looks like: SARIF, HTML, statistics.
- Auto-patcher: matching of hunks, source acquisition, graph investigation, hygiene heuristics, discovery
  and execution of a test plan, and the tracing that `run_traced.py` adds to a run. They are text in and text out; their outcome is a choice in `PatchPipeline`.
- The tools an agent may call: reads of the call graph. The verifier's tool loop has the exits of
  `AgentLoop` and is one call in `VerifyStep`.
- Application context and threat model: model calls whose outcome is a cached file; `ScanPipeline` has the
  step's outcome. The GitHub scanner: network I/O.
- Go commands, flags, configuration, checkpoint views: conversions; resuming before `dynamic-test` is
  `NextCommand`. Windows variants of process groups and locks.
- In what is modelled: a first signal to the batch runner while its pool is shut down after an error; a pip that outlives its killed command; a digest cut off in `.deps-hash` (it equals
  no digest, so it reads as stale); a `RemoveAll` interleaved with a late write; a kill in the middle of a
  write of the web UI; several scans of one directory with different backends (`AnalyzeStep` has them for
  its own step); a dataset that the reachability step cannot read.
