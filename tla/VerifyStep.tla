----------------------------- MODULE VerifyStep -----------------------------
(***************************************************************************)
(* The verify step's pool (utilities/finding_verifier.py, verify_batch),   *)
(* in the process that has run the analyze step or alone.  Unlike the      *)
(* other pools its threads save nothing: the main thread saves a row and   *)
(* then counts it, as it consumes the futures.  So an interrupt loses what *)
(* is answered and not yet consumed, and a save that fails raises out of   *)
(* the pool without stopping it: the queue is drained, and billed to the   *)
(* tracker the later steps share, into nothing.                            *)
(*                                                                         *)
(* Abstracted: which findings are sent to Stage 2 (any that Stage 1 has a  *)
(* verdict of), what an answer says (module VerdictFlow), the tool loop    *)
(* (module AgentLoop has the enhancer's), and the directory's identity but *)
(* for its effect, that the rows may be gone when the step starts.         *)
(***************************************************************************)
EXTENDS SpendLedger

CONSTANT NumWorkers  \* threads of the verify pool

VerifyKinds == {"verdict", "incomplete", "error"}

ASSUME VerifyAssumption ==
    NumWorkers \in Nat \ {0} /\ NoRow \notin [kind : VerifyKinds, usage : Nat]

VARIABLES
    verified,  \* verify_checkpoints: each row's outcome, and its calls' usage
    vpc,       \* "none", "pool", "interrupted", "failed", "done", "checked"
    batch,     \* the findings sent to Stage 2
    vstage,    \* how far each finding of the batch is
    answer,    \* what _verify_one returned for it
    vsummary,  \* _summary.json of the step
    baseline   \* the tracker when the step began (step_report)

verification == <<verified, vpc, batch, vstage, answer, vsummary, baseline>>
analysis     == <<ckpt, pc, scope, stage, held, summaryCost, runs>>

Blank == [completed |-> 0, incomplete |-> 0, errors |-> 0, usage |-> 0]

VerifyInit ==
    /\ Init /\ verified = NoRows /\ vpc = "none" /\ batch = {}
    /\ vstage = AllOut /\ answer = NoRows /\ vsummary = Blank /\ baseline = 0

\* `openant verify`: a process of its own, on the results of an earlier run.
StartAlone ==
    /\ pc = "idle" /\ runs < MaxRuns
    /\ pc' = "done" /\ runs' = runs + 1
    /\ UNCHANGED <<ckpt, scope, stage, held, tracker, summaryCost, spent, verification>>

Of(kind, S) == {u \in S : verified[u] # NoRow /\ verified[u].kind = kind}

\* A row is restored unless its adapter raised: an incomplete verification is
\* not asked again.
Restored == Of("verdict", batch') \cup Of("incomplete", batch')

\* checkpoint.load: the usage of every row, whoever's, opens the summary and is
\* injected into the tracker.
Load ==
    /\ vstage' = [u \in Units |-> IF u \notin batch' THEN "out"
                                  ELSE IF u \in Restored THEN "restored" ELSE "queued"]
    /\ vsummary' = [Blank EXCEPT !.completed = Cardinality(Of("verdict", batch')),
                                 !.incomplete = Cardinality(Of("incomplete", batch')),
                                 !.usage = Usage(verified, Units)]
    /\ tracker' = tracker + Usage(verified, Units)

BeginVerify(S) ==
    /\ pc = "done" /\ vpc = "none" /\ S # {} /\ S \subseteq {u \in Units : HasVerdict(u)}
    /\ batch' = S /\ baseline' = tracker /\ Load /\ vpc' = "pool"
    /\ UNCHANGED <<analysis, spent, verified, answer>>

\* sync_identity moved the directory aside: another backend's rows.
Archive ==
    /\ pc = "done" /\ vpc = "none" /\ MayReset /\ verified # NoRows
    /\ verified' = NoRows
    /\ UNCHANGED <<analysis, tracker, spent, vpc, batch, vstage, answer, vsummary, baseline>>

-----------------------------------------------------------------------------
(* The threads.                                                            *)

\* Until an interrupt has cancelled the queue: a failure leaves it to drain.
Submitted(u) == vpc \in {"pool", "failed"} /\ vstage[u] = "queued"

Asked == {u \in Units : vstage[u] = "asked"}

VerifyOne(u) ==
    /\ Submitted(u) /\ Cardinality(Asked) < NumWorkers
    /\ vstage' = [vstage EXCEPT ![u] = "asked"]
    /\ UNCHANGED <<analysis, tracker, spent, verified, vpc, batch, answer, vsummary, baseline>>

\* An exception is an answer too: _verify_one returns it as "error".
Verified(u, kind, c) ==
    /\ vstage[u] = "asked"
    /\ answer' = [answer EXCEPT ![u] = [kind |-> kind, usage |-> c]]
    /\ tracker' = tracker + c /\ spent' = spent + c
    /\ vstage' = [vstage EXCEPT ![u] = "answered"]
    /\ UNCHANGED <<analysis, verified, vpc, batch, vsummary, baseline>>

-----------------------------------------------------------------------------
(* The main thread.                                                        *)

Saved == {u \in Units : vstage[u] = "saved"}

SaveRow(u) ==
    /\ vpc = "pool" /\ Saved = {} /\ vstage[u] = "answered"
    /\ verified' = [verified EXCEPT ![u] = answer[u]]
    /\ vstage' = [vstage EXCEPT ![u] = "saved"]
    /\ UNCHANGED <<analysis, tracker, spent, vpc, batch, answer, vsummary, baseline>>

\* Mutant of CountRow: the summary is written before the row.
CountFirst(u) ==
    /\ vpc = "pool" /\ vstage[u] = "answered"
    /\ LET r == answer[u]
           one(kind) == IF r.kind = kind THEN 1 ELSE 0
       IN vsummary' = [completed |-> vsummary.completed + one("verdict"),
                       incomplete |-> vsummary.incomplete + one("incomplete"),
                       errors |-> vsummary.errors + one("error"),
                       usage |-> vsummary.usage + r.usage]
    /\ vstage' = [vstage EXCEPT ![u] = "counted"]
    /\ UNCHANGED <<analysis, tracker, spent, verified, vpc, batch, answer, baseline>>

\* _summary_callback.
CountRow(u) ==
    /\ vpc = "pool" /\ vstage[u] = "saved"
    /\ LET r == answer[u]
           one(kind) == IF r.kind = kind THEN 1 ELSE 0
       IN vsummary' = [completed |-> vsummary.completed + one("verdict"),
                       incomplete |-> vsummary.incomplete + one("incomplete"),
                       errors |-> vsummary.errors + one("error"),
                       usage |-> vsummary.usage + r.usage]
    /\ vstage' = [vstage EXCEPT ![u] = "counted"]
    /\ UNCHANGED <<analysis, tracker, spent, verified, vpc, batch, answer, baseline>>

\* A full disk, in the save or in the summary's: the scan tells of the failed
\* step and goes on to the next.
SaveFails(u) ==
    /\ vpc = "pool" /\ vstage[u] \in {"answered", "saved"} /\ vpc' = "failed"
    /\ UNCHANGED <<analysis, tracker, spent, verified, batch, vstage, answer, vsummary, baseline>>

Interrupt ==
    /\ vpc = "pool" /\ vpc' = "interrupted"
    /\ UNCHANGED <<analysis, tracker, spent, verified, batch, vstage, answer, vsummary, baseline>>

PoolDone ==
    /\ vpc = "pool" /\ \A u \in batch : vstage[u] \in {"restored", "counted"}
    /\ vpc' = "done"
    /\ UNCHANGED <<analysis, tracker, spent, verified, batch, vstage, answer, vsummary, baseline>>

\* _check_consistency may call the model: the tracker alone is charged.
CheckConsistency(c) ==
    /\ vpc = "done" /\ vpc' = "checked"
    /\ tracker' = tracker + c /\ spent' = spent + c
    /\ UNCHANGED <<analysis, verified, batch, vstage, answer, vsummary, baseline>>

\* The process ends, or is killed: what was not saved is gone.  (An orderly end
\* waits for the threads; that a kill may come at any time subsumes it.)
EndProcess ==
    /\ Exit /\ vpc' = "none" /\ batch' = {} /\ vstage' = AllOut
    /\ answer' = NoRows /\ vsummary' = Blank /\ baseline' = 0 /\ UNCHANGED verified

Analyze ==
    /\ \/ \E S \in Populations, reset \in BOOLEAN : StartRun(S, reset)
       \/ Seed
       \/ \E u \in Units : \/ Call(u) \/ Save(u) \/ Count(u)
                           \/ Retry(u) \/ SaveRetry(u)
       \/ DetectDone \/ Finish \/ Consistency
    /\ UNCHANGED verification

Verify ==
    \/ StartAlone \/ Archive \/ \E S \in SUBSET Units : BeginVerify(S)
    \/ \E u \in Units :
          \/ VerifyOne(u) \/ SaveRow(u) \/ CountRow(u) \/ SaveFails(u)
          \/ \E kind \in VerifyKinds, c \in Costs : Verified(u, kind, c)
    \/ Interrupt \/ PoolDone
    \/ \E c \in Costs \cup {0} : CheckConsistency(c)

VerifySpec == VerifyInit /\ [][Analyze \/ Verify \/ EndProcess]_<<vars, verification>>

-----------------------------------------------------------------------------
(* Properties.                                                             *)

\* No finding is counted as completed or incomplete without its row, none is
\* counted twice, and when the pool has ended by itself each finding of the
\* batch is counted by what its row says.
VerifyCounts ==
    /\ vsummary.completed <= Cardinality(Of("verdict", batch))
    /\ vsummary.incomplete <= Cardinality(Of("incomplete", batch))
    /\ vsummary.completed + vsummary.incomplete + vsummary.errors <= Cardinality(batch)
    /\ vpc = "done" =>
         /\ vsummary.completed = Cardinality(Of("verdict", batch))
         /\ vsummary.incomplete = Cardinality(Of("incomplete", batch))
         /\ vsummary.errors = Cardinality(Of("error", batch))

\* The usage in the summary is what the tracker was charged since the step
\* began, restored rows included, and every answer of the run is on disk when
\* the pool has ended by itself: no later run pays for it again.
VerifyLedger ==
    /\ vsummary.usage <= tracker - baseline
    /\ vpc = "done" => /\ vsummary.usage = tracker - baseline
                       /\ \A u \in batch : answer[u] # NoRow => verified[u] = answer[u]

\* The verify step's _summary.json never claims more than there is, in verdicts
\* or in spend, at any moment of the pool and after an interrupt or a failed
\* save tore it; a pool that ended by itself told all there was.
VerifyAccounts == vpc # "none" => VerifyCounts /\ VerifyLedger
=============================================================================
