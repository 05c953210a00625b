----------------------------- MODULE EnhanceStep -----------------------------
(***************************************************************************)
(* The agentic enhance step (utilities/context_enhancer.py): a pool of     *)
(* threads asks an agent to classify each unit and saves the unit's row    *)
(* itself; the main thread folds the finished futures into _summary.json,  *)
(* and then retries the transient failures, alone, in rounds.  Unlike the  *)
(* analyze step, a row carries what every attempt on its unit has cost, in *)
(* this run and in earlier ones (_prior_spend).                            *)
(*                                                                         *)
(* Abstracted: the classification (a verdict or the agent's degenerate     *)
(* exit); the kinds of error (retryable or not); tokens and dollars (one   *)
(* number); waiting for the rate limit (module RateLimit); the naming of   *)
(* row files (CheckpointPaths).  A single-shot run (enhance_dataset) has   *)
(* the same pool, and no summary, retries or spend.                        *)
(***************************************************************************)
EXTENDS Naturals, FiniteSets, FiniteSetsExt

CONSTANTS
    Units,       \* ids of the units
    Populations, \* what a run may be started on: sets of units
    NumWorkers,  \* threads of the pool
    Costs,       \* what one attempt on a unit may cost
    MaxRounds,   \* MAX_RETRY_ROUNDS
    MaxRuns,     \* bound: runs started
    MayFail,     \* whether saving a row may fail (a full disk)
    NoRow, NoSummary

Outcomes == {"verdict", "incomplete", "transient", "permanent"}
Failures == {"transient", "permanent"}

ASSUME EnhanceAssumption ==
    /\ IsFiniteSet(Units) /\ Populations \subseteq SUBSET Units
    /\ NumWorkers \in Nat \ {0} /\ Costs \subseteq Nat
    /\ MaxRounds \in Nat /\ MaxRuns \in Nat /\ MayFail \in BOOLEAN
    /\ NoRow \notin [outcome : Outcomes, usage : Nat]

VARIABLES
    row,        \* rows on disk: the outcome of a unit, and the usage block
    summary,    \* _summary.json
    pc,         \* the main thread: "idle", "load", "pool", "retry",
                \* "retrySave", "retryFold", "done", or "gone" (it has left
                \* the step and the pool with it)
    scope,      \* the units of the run
    stage,      \* how far each of them is
    context,    \* agent_context: the outcome of the last attempt and its cost
    prior,      \* _prior_spend: what the discarded attempts cost
    seeded,     \* _seeded_error_types: errors the summary was opened with
    round,      \* retry rounds begun
    todo,       \* retryable units left in the round
    recovered,  \* round_recovered
    tracker,    \* total_cost_usd of the process
    durable,    \* what the attempts on each unit that were saved have cost,
                \* over every run (history)
    runs        \* runs started (history, bounded)

vars == <<row, summary, pc, scope, stage, context, prior, seeded, round, todo,
          recovered, tracker, durable, runs>>
memory == <<scope, context, prior, seeded, round, todo, recovered, tracker>>

Failed(r)  == r # NoRow /\ r.outcome \in Failures
Settled(r) == r # NoRow /\ r.outcome \notin Failures

None   == [u \in Units |-> NoRow]
Zero   == [u \in Units |-> 0]
AllOut == [u \in Units |-> "out"]

Usage(S) == MapThenSumSet(LAMBDA u : row[u].usage, {u \in S : row[u] # NoRow})
With(S, outcome) == {u \in S : row[u] # NoRow /\ row[u].outcome = outcome}

Init ==
    /\ row = None /\ summary = NoSummary /\ pc = "idle" /\ scope = {}
    /\ stage = AllOut /\ context = None /\ prior = Zero /\ seeded = {}
    /\ round = 0 /\ todo = {} /\ recovered = 0 /\ tracker = 0
    /\ durable = Zero /\ runs = 0

StartRun(S) ==
    /\ pc = "idle" /\ runs < MaxRuns
    /\ pc' = "load" /\ scope' = S /\ runs' = runs + 1
    /\ UNCHANGED <<row, summary, stage, context, prior, seeded, round, todo,
                   recovered, tracker, durable>>

-----------------------------------------------------------------------------
(* Resume: what the rows on disk mean to this run.                         *)

\* Mutant of PriorOf: an errored row's usage is not carried over.
PriorForgotten(u) == 0

\* An errored unit is asked again and its row overwritten: what the row says
\* was spent opens the unit's prior spend.
PriorOf(u) == IF u \in scope /\ Failed(row[u]) THEN row[u].usage ELSE 0

\* Rows without an error are restored, the others' units queued; the summary
\* is opened with the counts and the usage of every row of the population,
\* and the same usage is injected into the tracker (add_prior_usage).
Load ==
    /\ pc = "load" /\ pc' = "pool"
    /\ stage' = [u \in Units |-> IF u \notin scope THEN "out"
                                 ELSE IF Settled(row[u]) THEN "restored" ELSE "queued"]
    /\ context' = [u \in Units |-> IF u \in scope /\ Settled(row[u])
                                   THEN [row[u] EXCEPT !.usage = 0] ELSE NoRow]
    /\ prior' = [u \in Units |-> PriorOf(u)]
    /\ seeded' = {u \in scope : Failed(row[u])}
    /\ tracker' = tracker + Usage(scope)
    /\ summary' = [phase |-> "in_progress", total |-> Cardinality(scope),
                   completed |-> Cardinality(With(scope, "verdict")),
                   incomplete |-> Cardinality(With(scope, "incomplete")),
                   errors |-> Cardinality(seeded'), usage |-> Usage(scope)]
    /\ UNCHANGED <<row, scope, round, todo, recovered, durable, runs>>

-----------------------------------------------------------------------------
(* One attempt (_enhance_one), on a thread of the pool or in a retry.      *)

\* The agent answers or raises: the tracker has been charged by then, and the
\* unit's context says what the attempt cost (agent_metadata, agent_state).
Answer(u, o, c) ==
    /\ stage[u] = "asked" /\ stage' = [stage EXCEPT ![u] = "answered"]
    /\ context' = [context EXCEPT ![u] = [outcome |-> o, usage |-> c]]
    /\ tracker' = tracker + c
    /\ UNCHANGED <<row, summary, pc, scope, prior, seeded, round, todo,
                   recovered, durable, runs>>

\* _save_unit_checkpoint: the last attempt's cost and that of those before.
SaveRow(u) ==
    /\ row' = [row EXCEPT ![u] = [outcome |-> context[u].outcome,
                                  usage |-> context[u].usage + prior[u]]]
    /\ durable' = [durable EXCEPT ![u] = @ + context[u].usage]

-----------------------------------------------------------------------------
(* The pool.                                                               *)

At(S) == {u \in Units : stage[u] \in S}
Busy  == At({"asked", "answered"})

Ask(u) ==
    /\ pc \in {"pool", "gone"} /\ stage[u] = "queued"
    /\ Cardinality(Busy) < NumWorkers
    /\ stage' = [stage EXCEPT ![u] = "asked"]
    /\ UNCHANGED <<row, summary, pc, memory, durable, runs>>

Save(u) ==
    /\ pc \in {"pool", "gone"} /\ stage[u] = "answered" /\ SaveRow(u)
    /\ stage' = [stage EXCEPT ![u] = "saved"]
    /\ UNCHANGED <<summary, pc, memory, runs>>

SaveFails(u) ==
    /\ MayFail /\ pc \in {"pool", "gone"} /\ stage[u] = "answered"
    /\ stage' = [stage EXCEPT ![u] = "raised"]
    /\ UNCHANGED <<row, summary, pc, memory, durable, runs>>

\* _retire_seeded_error: the error the summary was opened with is no more.
Retired(u) == IF u \in seeded THEN 1 ELSE 0

\* _update_summary, in the main thread, for each future as it completes.
Fold(u) ==
    /\ pc = "pool" /\ stage[u] = "saved"
    /\ stage' = [stage EXCEPT ![u] = "folded"] /\ seeded' = seeded \ {u}
    /\ LET o == context[u].outcome
           spent == summary.usage + context[u].usage
       IN summary' =
            IF o \in Failures
            THEN [summary EXCEPT !.usage = spent,
                                 !.errors = IF u \in seeded THEN @ ELSE @ + 1]
            ELSE [summary EXCEPT !.usage = spent, !.errors = @ - Retired(u),
                                 !.completed = IF o = "verdict" THEN @ + 1 ELSE @,
                                 !.incomplete = IF o = "incomplete" THEN @ + 1 ELSE @]
    /\ UNCHANGED <<row, pc, scope, context, prior, round, todo, recovered,
                   tracker, durable, runs>>

\* Ctrl-C: queued futures are cancelled and the interrupt propagates, while
\* the threads at work finish, and save, before the interpreter can exit.
Interrupt ==
    /\ pc = "pool" /\ pc' = "gone"
    /\ stage' = [u \in Units |-> IF stage[u] = "queued" THEN "out" ELSE stage[u]]
    /\ UNCHANGED <<row, summary, memory, durable, runs>>

\* A future that raised is re-raised by result(), which nothing catches: the
\* step fails, and its pool is neither cancelled nor awaited.
Raise(u) ==
    /\ pc = "pool" /\ stage[u] = "raised" /\ pc' = "gone"
    /\ UNCHANGED <<row, summary, stage, memory, durable, runs>>

\* Mutant of PoolDone: as many futures are awaited as the run has units.
PoolDoneAllFolded ==
    /\ pc = "pool" /\ \A u \in scope : stage[u] = "folded"
    /\ pc' = "retry"
    /\ UNCHANGED <<row, summary, stage, memory, durable, runs>>

PoolDone ==
    /\ pc = "pool" /\ \A u \in scope : stage[u] \in {"restored", "folded"}
    /\ pc' = "retry"
    /\ UNCHANGED <<row, summary, stage, memory, durable, runs>>

-----------------------------------------------------------------------------
(* The retry rounds, in the main thread.                                   *)

Retryable == {u \in scope : context[u] # NoRow /\ context[u].outcome = "transient"}

\* A round goes over the units that are retryable when it begins; the first
\* round always begins, a later one only if the last recovered a unit.
BeginRound ==
    /\ pc = "retry" /\ todo = {} /\ Retryable # {} /\ round < MaxRounds
    /\ round > 0 => recovered > 0
    /\ round' = round + 1 /\ todo' = Retryable /\ recovered' = 0
    /\ UNCHANGED <<row, summary, pc, scope, stage, context, prior, seeded,
                   tracker, durable, runs>>

\* What the attempt about to be wiped has cost joins the prior spend.
Discard(u) == prior' = [prior EXCEPT ![u] = @ + context[u].usage]

RetryAsk(u) ==
    /\ pc = "retry" /\ u \in todo /\ Discard(u)
    /\ pc' = "retrySave" /\ todo' = todo \ {u}
    /\ context' = [context EXCEPT ![u] = NoRow]
    /\ stage' = [stage EXCEPT ![u] = "asked"]
    /\ UNCHANGED <<row, summary, scope, seeded, round, recovered, tracker,
                   durable, runs>>

RetrySave(u) ==
    /\ pc = "retrySave" /\ stage[u] = "answered" /\ SaveRow(u)
    /\ pc' = "retryFold" /\ stage' = [stage EXCEPT ![u] = "saved"]
    /\ UNCHANGED <<summary, memory, runs>>

RetryFails(u) ==
    /\ MayFail /\ pc = "retrySave" /\ stage[u] = "answered"
    /\ pc' = "gone" /\ stage' = [stage EXCEPT ![u] = "raised"]
    /\ UNCHANGED <<row, summary, memory, durable, runs>>

\* The unit was counted among the errors when its first attempt was folded.
FoldErrors(n, o) == IF o \in Failures THEN n ELSE n - 1

\* The summary follows the row; the row is then saved once more, unchanged,
\* which may fail as any save may.
RetryFold(u) ==
    /\ pc = "retryFold" /\ stage[u] = "saved"
    /\ pc' \in {"retry"} \cup (IF MayFail THEN {"gone"} ELSE {})
    /\ stage' = [stage EXCEPT ![u] = "folded"]
    /\ LET o == context[u].outcome
       IN /\ summary' = [summary EXCEPT
                !.usage = @ + context[u].usage,
                !.errors = FoldErrors(@, o),
                !.completed = IF o = "verdict" THEN @ + 1 ELSE @,
                !.incomplete = IF o = "incomplete" THEN @ + 1 ELSE @]
          /\ recovered' = IF o \in Failures THEN recovered ELSE recovered + 1
    /\ UNCHANGED <<row, scope, context, prior, seeded, round, todo, tracker,
                   durable, runs>>

Finish ==
    /\ pc = "retry" /\ todo = {}
    /\ \/ Retryable = {} \/ round = MaxRounds \/ (round > 0 /\ recovered = 0)
    /\ pc' = "done" /\ summary' = [summary EXCEPT !.phase = "done"]
    /\ UNCHANGED <<row, stage, memory, durable, runs>>

-----------------------------------------------------------------------------
Forget ==
    /\ pc' = "idle" /\ scope' = {} /\ stage' = AllOut /\ context' = None
    /\ prior' = Zero /\ seeded' = {} /\ round' = 0 /\ todo' = {}
    /\ recovered' = 0 /\ tracker' = 0
    /\ UNCHANGED <<row, summary, durable, runs>>

\* The process ends once its threads have: the step is over for the model.
Exit ==
    /\ pc \in {"done", "gone"} /\ Busy = {} /\ At({"queued"}) = {}
    /\ Forget

\* SIGKILL, at any moment, or Ctrl-C where nothing catches it.
Kill == pc # "idle" /\ Forget

\* The step's own work, on a unit and apart from one.
UnitWork(u) ==
    \/ Ask(u) \/ Save(u) \/ Fold(u) \/ Raise(u)
    \/ RetryAsk(u) \/ RetrySave(u) \/ RetryFold(u)
StepWork == Load \/ PoolDone \/ BeginRound \/ Finish \/ Exit

\* What happens to it: a full disk, Ctrl-C, a kill, a new run.
Environment ==
    \/ \E S \in Populations : StartRun(S)
    \/ \E u \in Units : SaveFails(u) \/ RetryFails(u)
    \/ Interrupt \/ Kill

Next ==
    \/ StepWork \/ Environment
    \/ \E u \in Units :
          UnitWork(u) \/ \E o \in Outcomes, c \in Costs : Answer(u, o, c)

Spec == Init /\ [][Next]_vars

-----------------------------------------------------------------------------
(* Properties.                                                             *)

TypeOK ==
    /\ row \in [Units -> [outcome : Outcomes, usage : Nat] \cup {NoRow}]
    /\ context \in [Units -> [outcome : Outcomes, usage : Nat] \cup {NoRow}]
    /\ summary = NoSummary \/ summary \in
         [phase : {"in_progress", "done"}, total : Nat, completed : Nat,
          incomplete : Nat, errors : Nat, usage : Nat]
    /\ pc \in {"idle", "load", "pool", "retry", "retrySave", "retryFold",
               "done", "gone"}
    /\ stage \in [Units -> {"out", "restored", "queued", "asked", "answered",
                            "saved", "raised", "folded"}]
    /\ scope \subseteq Units /\ seeded \subseteq Units /\ todo \subseteq Units
    /\ prior \in [Units -> Nat] /\ durable \in [Units -> Nat]
    /\ round \in 0..MaxRounds /\ recovered \in Nat /\ tracker \in Nat
    /\ runs \in 0..MaxRuns

\* A row's usage is what every attempt on its unit that ever reached the disk
\* has cost, over retries, runs, kills and interrupts: overwriting a failed
\* attempt's row orphans none of it and counts none of it twice.  A finished
\* run reports, in the summary and in the tracker alike, what all runs have
\* spent on the units it presents ("the total cost across all runs").
SpendAcrossRuns ==
    /\ \A u \in Units : row[u] # NoRow => row[u].usage = durable[u]
    /\ pc = "done" =>
         /\ summary.usage = MapThenSumSet(LAMBDA u : durable[u], scope)
         /\ tracker = summary.usage

\* At no moment, a kill's included, does the summary claim more than there is:
\* one unit is counted once, errors that were retired or retried included, a
\* unit counted as completed has its row, and a "done" summary accounts for
\* each unit by the outcome of its row.
SummaryAccounts ==
    summary # NoSummary =>
        /\ summary.completed + summary.incomplete + summary.errors <= summary.total
        /\ summary.completed <= Cardinality(With(Units, "verdict"))
        /\ pc = "done" =>
             /\ summary.completed = Cardinality(With(scope, "verdict"))
             /\ summary.incomplete = Cardinality(With(scope, "incomplete"))
             /\ summary.errors = Cardinality({u \in scope : Failed(row[u])})

\* What the step has counted and what it has spent, held against its rows.
EnhanceAccounts == SummaryAccounts /\ SpendAcrossRuns

\* Every run ends: the pool drains even when its main thread has left it, and
\* the retry rounds stop when they recover nothing.
StepEnds == (pc # "idle") ~> (pc = "idle")
=============================================================================
