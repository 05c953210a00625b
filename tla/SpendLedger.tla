---------------------------- MODULE SpendLedger ----------------------------
(***************************************************************************)
(* What the analyze step says it spent: the process-wide TokenTracker      *)
(* (utilities/llm_client.py), the usage each unit's checkpoint row carries,*)
(* and the cost of _summary.json that run_analysis keeps on its own        *)
(* (core/analyzer.py).  The tracker is charged by worker threads as calls  *)
(* return, the row by the thread that saves it, the summary by the main    *)
(* thread when it consumes the future; a resumed run seeds both totals     *)
(* from the rows.                                                          *)
(*                                                                         *)
(* Abstracted: tokens, dollars and the two markers of incomplete cost move *)
(* together, so one number stands for them; what a verdict says; the       *)
(* directory's identity (module AnalyzeStep) but for its effect here, that *)
(* the rows may be gone when a run starts.  An abort of the pool is Crash. *)
(***************************************************************************)
EXTENDS Naturals, FiniteSets, FiniteSetsExt

CONSTANTS
    Units,       \* ids of the units
    Populations, \* what a run may be started on: sets of units
    Costs,       \* what one unit's calls may cost
    MaxRuns,     \* bound: runs started
    MayReset,    \* whether a run may find the directory moved aside
    NoRow

Kinds == {"verdict", "transient", "permanent"}

ASSUME LedgerAssumption ==
    /\ IsFiniteSet(Units) /\ Populations \subseteq SUBSET Units
    /\ Costs \subseteq Nat /\ MaxRuns \in Nat /\ MayReset \in BOOLEAN
    /\ NoRow \notin [kind : Kinds, usage : Nat]

VARIABLES
    ckpt,        \* rows on disk: the outcome of the unit's last saved call,
                 \* and the usage of that call
    pc,          \* "idle", "seed", "detect", "retry", "summed", "done"
    scope,       \* the population of the run
    stage,       \* how far each unit of the run is
    held,        \* the outcome the run holds for a unit
    tracker,     \* total_cost_usd of the global tracker
    summaryCost, \* _summary_cost_usd
    spent,       \* what was really spent, by every run (history)
    runs         \* runs started (history, bounded)

vars == <<ckpt, pc, scope, stage, held, tracker, summaryCost, spent, runs>>

NoRows == [u \in Units |-> NoRow]
AllOut == [u \in Units |-> "out"]

Usage(rows, S) ==
    MapThenSumSet(LAMBDA u : rows[u].usage, {u \in S : rows[u] # NoRow})

HasVerdict(u) == ckpt[u] # NoRow /\ ckpt[u].kind = "verdict"

Init ==
    /\ ckpt = NoRows /\ pc = "idle" /\ scope = {} /\ stage = AllOut
    /\ held = NoRows /\ tracker = 0 /\ summaryCost = 0
    /\ spent = 0 /\ runs = 0

\* A new process: the tracker is reset.  The directory may have been moved
\* aside (another backend) since the last run.
StartRun(S, reset) ==
    /\ pc = "idle" /\ runs < MaxRuns /\ (reset => MayReset)
    /\ pc' = "seed" /\ runs' = runs + 1 /\ scope' = S
    /\ ckpt' = IF reset THEN NoRows ELSE ckpt
    /\ tracker' = 0 /\ summaryCost' = 0
    /\ UNCHANGED <<stage, held, spent>>

\* The queue _run_detection builds from the same rows: a verdict may have gone
\* stale (its unit has been classified since) and be asked again.
Enqueue ==
    /\ pc' = "detect"
    /\ \E stale \in SUBSET {u \in scope : HasVerdict(u)} :
          stage' = [u \in Units |->
              IF u \notin scope THEN "out"
              ELSE IF HasVerdict(u) /\ u \notin stale THEN "adopted" ELSE "queued"]

\* _seed_summary charges every row of the population, adopted or not; the sum
\* opens the summary and is injected by add_prior_usage.
Seed ==
    /\ pc = "seed" /\ Enqueue
    /\ summaryCost' = Usage(ckpt, scope)
    /\ tracker' = tracker + Usage(ckpt, scope)
    /\ UNCHANGED <<ckpt, scope, held, spent, runs>>

\* A unit's calls return: record_call charges the tracker at once, and
\* get_unit_usage tells the thread what its unit cost.
Bill(u) ==
    \E k \in Kinds, c \in Costs :
        /\ held' = [held EXCEPT ![u] = [kind |-> k, usage |-> c]]
        /\ tracker' = tracker + c /\ spent' = spent + c

Call(u) ==
    /\ pc = "detect" /\ stage[u] = "queued" /\ Bill(u)
    /\ stage' = [stage EXCEPT ![u] = "called"]
    /\ UNCHANGED <<ckpt, pc, scope, summaryCost, runs>>

\* checkpoint.save, in the worker.
Save(u) ==
    /\ pc = "detect" /\ stage[u] = "called"
    /\ ckpt' = [ckpt EXCEPT ![u] = held[u]]
    /\ stage' = [stage EXCEPT ![u] = "saved"]
    /\ UNCHANGED <<pc, scope, held, tracker, summaryCost, spent, runs>>

\* _summary_callback, in the main thread.
Count(u) ==
    /\ pc = "detect" /\ stage[u] = "saved"
    /\ summaryCost' = summaryCost + held[u].usage
    /\ stage' = [stage EXCEPT ![u] = "counted"]
    /\ UNCHANGED <<ckpt, pc, scope, held, tracker, spent, runs>>

DetectDone ==
    /\ pc = "detect"
    /\ \A u \in scope : stage[u] \in {"adopted", "counted"}
    /\ pc' = "retry"
    /\ UNCHANGED <<ckpt, scope, stage, held, tracker, summaryCost, spent, runs>>

ToRetry == {u \in scope : stage[u] = "counted" /\ held[u].kind = "transient"}
Retried == {u \in scope : stage[u] = "retried"}

\* The sequential retry adds its own usage to the summary ...
Retry(u) ==
    /\ pc = "retry" /\ Retried = {} /\ u \in ToRetry /\ Bill(u)
    /\ summaryCost' = summaryCost + held'[u].usage
    /\ stage' = [stage EXCEPT ![u] = "retried"]
    /\ UNCHANGED <<ckpt, pc, scope, runs>>

\* Mutant of SaveRetry: the counter of the unit's usage is never reset
\* (start_unit_tracking), so the row carries the whole run's.
SaveRetryCumulative(u) ==
    /\ pc = "retry" /\ stage[u] = "retried"
    /\ ckpt' = [ckpt EXCEPT ![u] = [held[u] EXCEPT !.usage = summaryCost]]
    /\ stage' = [stage EXCEPT ![u] = "done"]
    /\ UNCHANGED <<pc, scope, held, tracker, summaryCost, spent, runs>>

\* ... and its row, with that usage alone, replaces the first attempt's.
SaveRetry(u) ==
    /\ pc = "retry" /\ stage[u] = "retried"
    /\ ckpt' = [ckpt EXCEPT ![u] = held[u]]
    /\ stage' = [stage EXCEPT ![u] = "done"]
    /\ UNCHANGED <<pc, scope, held, tracker, summaryCost, spent, runs>>

\* The final write_summary.
Finish ==
    /\ pc = "retry" /\ ToRetry = {} /\ Retried = {}
    /\ pc' = "summed"
    /\ UNCHANGED <<ckpt, scope, stage, held, tracker, summaryCost, spent, runs>>

\* The consistency pass may call the model too: the tracker alone is charged,
\* and the step report and result carry what it then says.
Consistency ==
    /\ pc = "summed" /\ pc' = "done"
    /\ \E c \in Costs \cup {0} : tracker' = tracker + c /\ spent' = spent + c
    /\ UNCHANGED <<ckpt, scope, stage, held, summaryCost, runs>>

\* The process ends, after its report or killed before it.
Exit ==
    /\ pc # "idle" /\ pc' = "idle"
    /\ scope' = {} /\ stage' = AllOut /\ held' = NoRows
    /\ tracker' = 0 /\ summaryCost' = 0
    /\ UNCHANGED <<ckpt, spent, runs>>

Next ==
    \/ \E S \in Populations, reset \in BOOLEAN : StartRun(S, reset)
    \/ Seed
    \/ \E u \in Units : \/ Call(u) \/ Save(u) \/ Count(u)
                        \/ Retry(u) \/ SaveRetry(u)
    \/ DetectDone \/ Finish \/ Consistency \/ Exit

Spec == Init /\ [][Next]_vars

-----------------------------------------------------------------------------
(* Properties.                                                             *)

\* Over every run, retry, kill and change of population no call is charged
\* twice; the two ledgers, charged by different threads at different moments,
\* agree when _summary.json says "done"; and every answer a finished run
\* presents, its own or adopted, is paid for in the cost it reports.
LedgersAgree ==
    /\ tracker <= spent /\ summaryCost <= tracker
    /\ pc = "summed" => summaryCost = tracker
    /\ pc = "done" => tracker >= Usage(ckpt, scope)
=============================================================================
