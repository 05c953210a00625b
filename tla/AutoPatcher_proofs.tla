------------------------- MODULE AutoPatcher_proofs -------------------------
(***************************************************************************)
(* The auto-patcher, for every set of files, tests, targets, runners,      *)
(* cases and threads, and any number of faults.                            *)
(*                                                                         *)
(* What is reported about a patch is about that patch: first that          *)
(* compare_runs can be relied on, then that each piece of evidence follows *)
(* the patch it is of, and that the patch itself was approved.             *)
(*                                                                         *)
(* No decided case of a batch is run again, and a stop is clean.  The      *)
(* argument is about the lock: whoever has something left to do holds it,  *)
(* so that what a schedule was drawn up from stays as it was until it is   *)
(* used.                                                                   *)
(*                                                                         *)
(* A lineage of replays mixes nothing, refuses nothing for ever, and its   *)
(* report judges the patch it is of.  The recursive functions of           *)
(* StageReplay are defined (they go up from a first step by one at a       *)
(* time), so that what a chain resolves is the one function that Settles   *)
(* says it is; a new directory at the tip of a chain then leaves all below *)
(* it as it was.  What carries the patches is PatchTold: what a record     *)
(* says of the candidate patch is what the executions it consumed say.     *)
(***************************************************************************)
EXTENDS PatchPipeline, CveBatch, StageReplay, FiniteSetTheorems, SequenceTheorems,
        WellFoundedInduction, TLAPS

(* What a result tells of its run is true; a list that accounts for every  *)
(* failure it counted names them all.                                      *)
LEMMA ResultsTrue ==
    ASSUME NEW r \in Runs, NEW s \in Results(r)
    PROVE  /\ s.level \in 0..4
           /\ s.exitsZero = ExitsZero(r)
           /\ Accounts(s) => s.ids = r.fails
           /\ s.bad \in Nat
           /\ s.level >= 2 => (s.bad = 0 <=> r.fails = {})
<1>1. r.fails \subseteq Tests BY DEF Runs
<1>2. IsFiniteSet(r.fails) BY <1>1, TestsAssumption, FS_Subset
<1>3. Cardinality(r.fails) \in Nat BY <1>2, FS_CardinalityType
<1>4. Cardinality(r.fails) = 0 <=> r.fails = {} BY <1>2, FS_EmptySet
<1>5. Cardinality({}) = 0 BY FS_EmptySet
<1>6. CASE s = Unusable(r) \/ s = ExitOnly(r)
  BY <1>6 DEF Unusable, ExitOnly, Result, Accounts
<1>7. CASE \E n \in BOOLEAN, h \in {"all", "failures"} : s = Summary(r, n, h)
  BY <1>3, <1>4, <1>7 DEF Summary, Result, Accounts
<1>8. CASE s = CountsOnly(r)
  BY <1>3, <1>4, <1>5, <1>8 DEF CountsOnly, Result, Accounts
<1>9. CASE s = FullReport(r)
  BY <1>3, <1>4, <1>9 DEF FullReport, Result, Accounts
<1> QED BY <1>6, <1>7, <1>8, <1>9 DEF Results

(* No good status hides a broken test, and only failures that are new are  *)
(* named as new (existing_test_regression.py:968-1094).                    *)
LEMMA CompareRunsHonest ==
    ASSUME NEW b \in Runs, NEW p \in Runs, NEW x \in Results(b), NEW y \in Results(p)
    PROVE  /\ CompareRuns(x, y).status \in GoodStatus => Breaks(b, p) = {}
           /\ CompareRuns(x, y).newly \subseteq p.fails \ b.fails
<1> DEFINE good(v) == v.status \in GoodStatus => Breaks(b, p) = {}
           new(v)  == v.newly \subseteq p.fails \ b.fails
<1>1. x.level \in 0..4 /\ y.level \in 0..4 BY ResultsTrue
<1>2. y.exitsZero => p.fails = {} BY ResultsTrue DEF ExitsZero
<1>3. p.fails \subseteq b.fails => Breaks(b, p) = {} BY DEF Breaks
<1>4. ASSUME Accounts(x), Accounts(y) PROVE good(ByIds(x, y)) /\ new(ByIds(x, y))
  <2>1. x.ids = b.fails /\ y.ids = p.fails BY <1>4, ResultsTrue
  <2> QED BY <1>3, <2>1 DEF ByIds, Verdict, GoodStatus
<1>5. good(ByExit(x, y)) /\ new(ByExit(x, y))
  BY <1>2, <1>3 DEF ByExit, Verdict, GoodStatus
<1>6. ASSUME Weaker(x, y) >= 2 PROVE good(ByCounts(x, y)) /\ new(ByCounts(x, y))
  <2>1. y.level >= 2 BY <1>1, <1>6 DEF Weaker
  <2>2. y.bad = 0 => p.fails = {} BY <2>1, ResultsTrue
  <2>3. y.bad \in Nat BY ResultsTrue
  <2> QED BY <1>3, <2>2, <2>3 DEF ByCounts, Verdict, GoodStatus
<1>7. ASSUME Weaker(x, y) # 0 PROVE good(ByEvidence(x, y)) /\ new(ByEvidence(x, y))
  BY <1>1, <1>4, <1>5, <1>6, <1>7 DEF ByEvidence, Weaker
<1>8. good(Verdict("NOT_VERIFIED", {})) /\ new(Verdict("NOT_VERIFIED", {}))
  BY DEF Verdict, GoodStatus
<1> QED BY <1>7, <1>8 DEF CompareRuns

(* The same of every comparison there may be.                              *)
THEOREM ComparisonsHonest == \A c \in Comparisons : Honest(c)
<1> SUFFICES ASSUME NEW c \in Comparisons PROVE Honest(c) OBVIOUS
<1>1. CASE c \in NotCompared
  BY <1>1 DEF NotCompared, Honest
<1>2. CASE c \in Compared
  <2>1. PICK b \in Runs, p \in Runs : \E x \in Results(b), y \in Results(p) :
            c = [status |-> CompareRuns(x, y).status, newly |-> CompareRuns(x, y).newly,
                 broken |-> Breaks(b, p), fresh |-> p.fails \ b.fails]
    BY <1>2 DEF Compared
  <2>2. PICK x \in Results(b), y \in Results(p) :
            c = [status |-> CompareRuns(x, y).status, newly |-> CompareRuns(x, y).newly,
                 broken |-> Breaks(b, p), fresh |-> p.fails \ b.fails]
    BY <2>1
  <2> QED BY <2>2, CompareRunsHonest DEF Honest
<1> QED BY <1>1, <1>2 DEF Comparisons

-----------------------------------------------------------------------------
(* The invariant.  Before generation there is no patch; the review comes   *)
(* after the last diff but the repair, the calibration after the review,   *)
(* the comparison after both; only an amendment changes the patch later.   *)

Early == {"planning", "claim", "revision", "strategy", "gap", "readiness", "generation"}
Drafting == {"conformance", "process"}
Applied  == {"retry", "investigation", "challenge"}
Checked  == {"calibration", "repair", "rechallenge", "fallback", "comparison"}
Late     == {"amendment", "rerun", "decide", "reported"}

Names == {"none", "generated", "regenerated", "retried", "repaired", "amended"}
Written(p) ==
    /\ p \in [id : Names, base : Names, files : SUBSET Files, named : SUBSET Files,
              hunked : SUBSET Files, unseen : SUBSET Files]
    /\ p.hunked \subseteq p.named /\ p.named \subseteq p.files
    /\ p.id = "none" => p = NoPatch

PatchKnown ==
    /\ pc \in Early \cup Drafting \cup Applied \cup Checked \cup Late \cup {"raised"}
    /\ Written(patch) /\ (patch.id # "amended" => patch.base = patch.id)
    /\ pc \in Early => patch = NoPatch
    /\ pc \in Checked \cup {"amendment", "rerun"} => patch # NoPatch

CandidateKnown ==
    /\ pc = "rechallenge" => Written(candidate) /\ candidate.id = "repaired"
                             /\ candidate.base = "repaired"
    /\ pc = "rerun" => Written(candidate) /\ candidate.id = "amended"
                       /\ candidate.base = patch.base

NotYetCompared ==
    /\ pc \notin Late => comparison = NotRequested
    /\ pc \notin {"decide", "reported"} => patch.id # "amended"
NotYetCalibrated ==
    pc \in Early \cup Drafting \cup Applied \cup {"calibration"} => calibration = NoCalibration

AppliesToIt ==
    pc \in Applied \cup Checked \cup Late /\ patch # NoPatch =>
        applies.of = patch.base /\ hygiene.of = patch.base

ReviewOfIt ==
    pc \in Checked \cup Late /\ patch # NoPatch => challenger.of = patch.base

CalibrationOfIt ==
    pc \in Checked \cup Late /\ patch # NoPatch /\ calibration # NoCalibration =>
        calibration.of = patch.base /\ calibration.read \in {"code", patch.base}

ComparisonOfIt ==
    /\ comparison.honest /\ comparison.of \in {"none", patch.id}
    /\ patch.id = "amended" => comparison.status \in GoodStatus

EvidenceInv ==
    /\ PatchKnown /\ CandidateKnown /\ NotYetCompared /\ NotYetCalibrated
    /\ AppliesToIt /\ ReviewOfIt /\ CalibrationOfIt /\ ComparisonOfIt

(* No patch is a patch like any other, by its own name.                    *)
LEMMA NoPatchWritten == Written(NoPatch) /\ NoPatch.id = "none" /\ NoPatch.base = "none"
BY DEF Written, Names, NoPatch, NoEdits, Patch

(* A diff that a generation writes bears the name of that generation.      *)
LEMMA DiffsWritten ==
    ASSUME NEW id \in Names \ {"none"}, NEW p \in Diffs(id)
    PROVE  Written(p) /\ p.id = id /\ p.base = id
BY DEF Written, Names, Diffs, Edits, Patch

(* q is that diff, with what is known of the files its check did not see.  *)
WrittenAs(q, p, id, past, seen) ==
    /\ Written(q) /\ q.id = id /\ q.base = id
    /\ q.files = p.files /\ q.unseen = past \cup (p.files \ seen)
    /\ q.hunked = p.hunked /\ Written(p) /\ p.id = id

LEMMA UnseenWritten ==
    ASSUME NEW id \in Names \ {"none"}, NEW p \in Diffs(id), NEW past, NEW seen,
           past \subseteq Files
    PROVE  WrittenAs(Unseen(p, past, seen), p, id, past, seen)
BY DiffsWritten DEF WrittenAs, Unseen, Written

(* What the actions that write one make of it.                             *)
LEMMA ActionsWrite ==
    ASSUME EvidenceInv
    PROVE  /\ \A p \in Diffs("generated") :
                 Generate(p) => WrittenAs(patch', p, "generated", {}, p.hunked)
           /\ \A s, R : \A p \in Diffs("regenerated") :
                 Regenerate(s, R, p) => WrittenAs(patch', p, "regenerated", {}, p.hunked)
           /\ \A F, t : \A p \in Diffs("retried") :
                 RetryApplies(F, p, t) =>
                     WrittenAs(patch', p, "retried", patch.unseen, p.hunked)
           /\ \A p \in Diffs("repaired") :
                 RepairApplies(p) =>
                     WrittenAs(candidate', p, "repaired", patch.unseen, p.named)
<1>1. {"generated", "regenerated", "retried", "repaired"} \subseteq Names \ {"none"}
  BY DEF Names
<1>2. patch.unseen \subseteq Files
  BY DEF EvidenceInv, PatchKnown, Written
<1>3. ASSUME NEW p \in Diffs("generated"), Generate(p)
      PROVE  WrittenAs(patch', p, "generated", {}, p.hunked)
  <2>1. patch' = Unseen(p, {}, p.hunked) BY <1>3 DEF Generate
  <2> QED BY <1>1, <2>1, UnseenWritten
<1>4. ASSUME NEW s, NEW R, NEW p \in Diffs("regenerated"), Regenerate(s, R, p)
      PROVE  WrittenAs(patch', p, "regenerated", {}, p.hunked)
  <2>1. patch' = Unseen(p, {}, p.hunked) BY <1>4 DEF Regenerate
  <2> QED BY <1>1, <2>1, UnseenWritten
<1>5. ASSUME NEW F, NEW t, NEW p \in Diffs("retried"), RetryApplies(F, p, t)
      PROVE  WrittenAs(patch', p, "retried", patch.unseen, p.hunked)
  <2>1. patch' = Unseen(p, patch.unseen, p.hunked) BY <1>5 DEF RetryApplies
  <2> QED BY <1>1, <1>2, <2>1, UnseenWritten
<1>6. ASSUME NEW p \in Diffs("repaired"), RepairApplies(p)
      PROVE  WrittenAs(candidate', p, "repaired", patch.unseen, p.named)
  <2>1. candidate' = Unseen(p, patch.unseen, p.named) BY <1>6 DEF RepairApplies
  <2> QED BY <1>1, <1>2, <2>1, UnseenWritten
<1> QED BY <1>3, <1>4, <1>5, <1>6

(* Planning writes no patch, and touches nothing that is known of one.     *)
LEMMA PlanKeeps ==
    ASSUME EvidenceInv, PlanNext, UNCHANGED patching PROVE EvidenceInv'
<1>1. pc \in Early /\ pc' \in Early
  BY DEF Early, PlanNext, HandWritten, PlanGrounded, PlanAgain, PlanUngrounded, Claim,
         ClaimFails, RevisionSupported, RevisionFails, StrategyNotInvoked, Strategize,
         RerunStrategy, NoRerun, StrategyFails, EditsReady, EditsNotReady, NoApprovedTarget,
         planning
<1> QED
  BY <1>1 DEF EvidenceInv, PatchKnown, CandidateKnown, NotYetCompared, NotYetCalibrated,
         AppliesToIt, ReviewOfIt, CalibrationOfIt, ComparisonOfIt, patching, evidenceOf,
         Early, Drafting, Applied, Checked, Late

(* Generation, conformance, the apply check and its retry: S4.             *)
LEMMA DraftKeeps ==
    ASSUME EvidenceInv
    PROVE  /\ Skips \/ GeneratesNothing \/ Withdraw \/ RetryFails => EvidenceInv'
           /\ \A p \in Diffs("generated") : Generate(p) => EvidenceInv'
           /\ \A s \in BOOLEAN : Conformant(s) => EvidenceInv'
           /\ \A s \in BOOLEAN, R \in SUBSET Files, p \in Diffs("regenerated") :
                 Regenerate(s, R, p) => EvidenceInv'
           /\ \A a \in {"yes", "no", "unknown"}, t \in {"clean", "flagged", "critical"} :
                 Process(a, t) => EvidenceInv'
           /\ \A F \in SUBSET Files, p \in Diffs("retried"),
                 t \in {"clean", "flagged", "critical"} : RetryApplies(F, p, t) => EvidenceInv'
           /\ \A i \in {patch.id, "none"} : Investigate(i) => EvidenceInv'
<1>a. /\ \A p \in Diffs("generated") :
             Generate(p) => WrittenAs(patch', p, "generated", {}, p.hunked)
      /\ \A s, R : \A p \in Diffs("regenerated") :
             Regenerate(s, R, p) => WrittenAs(patch', p, "regenerated", {}, p.hunked)
      /\ \A F, t : \A p \in Diffs("retried") :
             RetryApplies(F, p, t) => WrittenAs(patch', p, "retried", patch.unseen, p.hunked)
  BY ActionsWrite
<1> USE DEF EvidenceInv, PatchKnown, CandidateKnown, NotYetCompared, NotYetCalibrated,
         AppliesToIt, ReviewOfIt, CalibrationOfIt, ComparisonOfIt, patching, evidenceOf,
         Early, Drafting, Applied, Checked, Late, NotRequested
<1> USE NoPatchWritten
<1>1. Skips \/ GeneratesNothing => EvidenceInv' BY DEF Skips, GeneratesNothing
<1>2. Withdraw => EvidenceInv' BY DEF Withdraw
<1>3. RetryFails => EvidenceInv' BY DEF RetryFails
<1>4. \A p \in Diffs("generated") : Generate(p) => EvidenceInv'
  <2> SUFFICES ASSUME NEW p \in Diffs("generated"), Generate(p) PROVE EvidenceInv' OBVIOUS
  <2>1. Written(patch') /\ patch'.id = "generated" /\ patch'.base = "generated"
    BY <1>a DEF WrittenAs
  <2> QED BY <2>1 DEF Generate
<1>5. \A s \in BOOLEAN : Conformant(s) => EvidenceInv' BY DEF Conformant
<1>6. \A s \in BOOLEAN, R \in SUBSET Files, p \in Diffs("regenerated") :
         Regenerate(s, R, p) => EvidenceInv'
  <2> SUFFICES ASSUME NEW s, NEW R, NEW p \in Diffs("regenerated"), Regenerate(s, R, p)
               PROVE  EvidenceInv'
    OBVIOUS
  <2>1. Written(patch') /\ patch'.id = "regenerated" /\ patch'.base = "regenerated"
    BY <1>a DEF WrittenAs
  <2> QED BY <2>1 DEF Regenerate
<1>7. \A a \in {"yes", "no", "unknown"}, t \in {"clean", "flagged", "critical"} :
         Process(a, t) => EvidenceInv'
  BY DEF Process, Known
<1>8. \A F \in SUBSET Files, p \in Diffs("retried"),
         t \in {"clean", "flagged", "critical"} : RetryApplies(F, p, t) => EvidenceInv'
  <2> SUFFICES ASSUME NEW F, NEW t, NEW p \in Diffs("retried"), RetryApplies(F, p, t)
               PROVE  EvidenceInv'
    OBVIOUS
  <2>1. /\ Written(patch') /\ patch'.id = "retried" /\ patch'.base = "retried"
        /\ p.id = "retried"
    BY <1>a DEF WrittenAs
  <2> QED BY <2>1 DEF RetryApplies, Known
<1>9. \A i \in {patch.id, "none"} : Investigate(i) => EvidenceInv'
  BY DEF Investigate
<1> QED BY <1>1, <1>2, <1>3, <1>4, <1>5, <1>6, <1>7, <1>8, <1>9

(* The review, its calibrations, and one repair: S5, S6.                   *)
LEMMA ReviewKeeps ==
    ASSUME EvidenceInv
    PROVE  /\ \A r \in Reviews(patch.id) : Challenge(r) => EvidenceInv'
           /\ NothingToChallenge \/ KeepOriginal => EvidenceInv'
           /\ \A c : CalibrateFirst(c) => EvidenceInv'
           /\ \A p \in Diffs("repaired") : RepairApplies(p) => EvidenceInv'
           /\ \A r \in Reviews(candidate.id) : \A c, t : Repair(r, c, t) => EvidenceInv'
           /\ \A c : CalibrateLast(c) => EvidenceInv'
<1>a. \A p \in Diffs("repaired") :
          RepairApplies(p) => WrittenAs(candidate', p, "repaired", patch.unseen, p.named)
  BY ActionsWrite
<1> USE DEF EvidenceInv, PatchKnown, CandidateKnown, NotYetCompared, NotYetCalibrated,
         AppliesToIt, ReviewOfIt, CalibrationOfIt, ComparisonOfIt, patching, evidenceOf,
         Early, Drafting, Applied, Checked, Late, NotRequested
<1> USE NoPatchWritten
<1>1. \A r \in Reviews(patch.id) : Challenge(r) => EvidenceInv' BY DEF Challenge, Reviews
<1>2. NothingToChallenge => EvidenceInv' BY DEF NothingToChallenge
<1>3. KeepOriginal => EvidenceInv' BY DEF KeepOriginal
<1>4. \A r, asked, read, c : c \in Calibrations(r, asked, read) =>
         c = NoCalibration \/ (c.of = r.of /\ c.read = read)
  BY DEF Calibrations
<1>5. ReadBy(patch) \in {"code", patch.id} BY DEF ReadBy
<1>6. ASSUME NEW c, CalibrateFirst(c) PROVE EvidenceInv'
  <2>1. c = NoCalibration \/ (c.of = challenger.of /\ c.read = ReadBy(patch))
    BY <1>4, <1>6 DEF CalibrateFirst
  <2> QED BY <1>5, <1>6, <2>1 DEF CalibrateFirst
<1>7. \A p \in Diffs("repaired") : RepairApplies(p) => EvidenceInv'
  BY <1>a DEF RepairApplies, WrittenAs
<1>8. ASSUME NEW r \in Reviews(candidate.id), NEW c, NEW t, Repair(r, c, t) PROVE EvidenceInv'
  <2>1. c = NoCalibration \/ (c.of = r.of /\ c.read = "code") BY <1>4, <1>8 DEF Repair
  <2>2. r.of = candidate.id BY DEF Reviews
  <2> QED BY <1>8, <2>1, <2>2 DEF Repair, TakeRepair, Known
<1>9. ASSUME NEW c, CalibrateLast(c) PROVE EvidenceInv'
  <2>1. \/ c = calibration
        \/ c = NoCalibration \/ (c.of = challenger.of /\ c.read = ReadBy(patch))
    BY <1>4, <1>9 DEF CalibrateLast
  <2> QED BY <1>5, <1>9, <2>1 DEF CalibrateLast
<1> QED BY <1>1, <1>2, <1>3, <1>6, <1>7, <1>8, <1>9

(* The comparison, an amendment of the tests, and the report: S10 to S12.  *)
LEMMA CompareKeeps ==
    ASSUME EvidenceInv, TestFile \in Files
    PROVE  /\ SkipComparison \/ Amend \/ NoAmendment \/ Unavailable => EvidenceInv'
           /\ \A c \in Comparisons : CompareTests(c) \/ Rerun(c) => EvidenceInv'
           /\ \A i \in BOOLEAN : Decide(i) => EvidenceInv'
<1> USE DEF EvidenceInv, PatchKnown, CandidateKnown, NotYetCompared, NotYetCalibrated,
         AppliesToIt, ReviewOfIt, CalibrationOfIt, ComparisonOfIt, patching, evidenceOf,
         Early, Drafting, Applied, Checked, Late, NotRequested
<1>1. \A c \in NotCompared : c \in Comparisons BY DEF Comparisons
<1>2. ASSUME NEW c \in Comparisons, NEW p, Compare(c, p)
      PROVE  comparison'.honest /\ comparison'.of = p.id /\ comparison'.status = c.status
  <2>1. Honest(c) BY ComparisonsHonest
  <2>2. comparison' = [of |-> p.id, status |-> c.status, honest |-> TRUE]
    BY <1>2, <2>1, Zenon DEF Compare
  <2> QED BY <2>2
<1>3. SkipComparison => EvidenceInv'
  <2> SUFFICES ASSUME SkipComparison PROVE EvidenceInv' OBVIOUS
  <2>1. comparison'.honest /\ comparison'.of \in {"none", patch.id}
    BY <1>1, <1>2 DEF SkipComparison
  <2> QED BY <2>1 DEF SkipComparison
<1>4. Amend => EvidenceInv'
  <2> SUFFICES ASSUME Amend PROVE EvidenceInv' OBVIOUS
  <2>1. candidate'.id = "amended" /\ candidate'.base = patch.base /\ Written(candidate')
    BY DEF Amend, Written, Names
  <2> QED BY <2>1 DEF Amend
<1>5. NoAmendment => EvidenceInv'
  <2> SUFFICES ASSUME NoAmendment PROVE EvidenceInv' OBVIOUS
  <2>1. comparison'.honest /\ comparison'.of \in {"none", patch.id}
    BY <1>1, <1>2 DEF NoAmendment
  <2> QED BY <2>1 DEF NoAmendment
<1>6. Unavailable => EvidenceInv' BY DEF Unavailable
<1>7. ASSUME NEW c \in Comparisons, CompareTests(c) PROVE EvidenceInv'
  <2>1. comparison'.honest /\ comparison'.of = patch.id
    BY <1>2, <1>7 DEF CompareTests
  <2> QED BY <1>7, <2>1 DEF CompareTests
<1>8. ASSUME NEW c \in Comparisons, Rerun(c) PROVE EvidenceInv'
  <2>1. CASE c.status \in GoodStatus
    <3>1. Compare(c, candidate) /\ patch' = candidate BY <1>8, <2>1 DEF Rerun, TakeAmendment
    <3>2. comparison'.honest /\ comparison'.of = candidate.id /\ comparison'.status \in GoodStatus
      BY <1>2, <2>1, <3>1
    <3> QED BY <1>8, <3>1, <3>2 DEF Rerun
  <2>2. CASE c.status \notin GoodStatus
    BY <1>8, <2>2 DEF Rerun, TakeAmendment
  <2> QED BY <2>1, <2>2
<1>9. \A i \in BOOLEAN : Decide(i) => EvidenceInv' BY DEF Decide
<1> QED BY <1>3, <1>4, <1>5, <1>6, <1>7, <1>8, <1>9

(* When a run starts nothing has been written, so nothing is known of it.  *)
LEMMA EvidenceInit == Init => EvidenceInv
BY DEF Init, PlanInit, EvidenceInv, PatchKnown, CandidateKnown, NotYetCompared,
       NotYetCalibrated, AppliesToIt, ReviewOfIt, CalibrationOfIt, ComparisonOfIt,
       Early, Drafting, Applied, Checked, Late, Written, Names, Patch, NoPatch, NoEdits, NotRequested

(* Every step, of planning or of patching, keeps the invariant.            *)
LEMMA EvidenceStep == EvidenceInv /\ [Next]_vars => EvidenceInv'
<1> SUFFICES ASSUME EvidenceInv, [Next]_vars PROVE EvidenceInv' OBVIOUS
<1>1. CASE PlanNext /\ UNCHANGED patching BY <1>1, PlanKeeps
<1>2. CASE UNCHANGED vars
  BY <1>2 DEF vars, patching, evidenceOf, EvidenceInv, PatchKnown, CandidateKnown,
       NotYetCompared, NotYetCalibrated, AppliesToIt, ReviewOfIt, CalibrationOfIt,
       ComparisonOfIt
<1>3. CASE Next /\ ~ (PlanNext /\ UNCHANGED patching)
  BY <1>3, DraftKeeps, ReviewKeeps, CompareKeeps, PipelineAssumption DEF Next
<1> QED BY <1>1, <1>2, <1>3

(* Whatever replaced the patch - a regeneration, a retry, a repair, an     *)
(* amendment - the evidence that is reported is about the patch that is    *)
(* (pipeline.py:7622-7629, existing_test_amendment.py:659).                *)
THEOREM EvidenceFollowsPatch == Spec => []EvidenceIsOfThePatch
<1>1. EvidenceInv => EvidenceIsOfThePatch
  BY DEF EvidenceInv, EvidenceIsOfThePatch, ReviewIsOfThePatch, ComparisonStands, Reviewed,
       AppliesToIt, ReviewOfIt, CalibrationOfIt, ComparisonOfIt, Checked, Late
<1> QED BY <1>1, EvidenceInit, EvidenceStep, PTL DEF Spec

-----------------------------------------------------------------------------
(* The decision is the last step, from evidence that is of the patch.      *)

DeployInv ==
    /\ EvidenceInv
    /\ pc # "reported" => decision = "none"
    /\ DeployIsEarned

(* Only Decide says anything, and what it says rests on the review and on  *)
(* the calibration of that review alone.                                   *)
LEMMA DeployStep == DeployInv /\ [Next]_vars => DeployInv'
<1> SUFFICES ASSUME DeployInv, [Next]_vars PROVE DeployInv' OBVIOUS
<1>1. EvidenceInv' BY EvidenceStep DEF DeployInv
<1>2. ASSUME NEW i \in BOOLEAN, Decide(i) PROVE DeployInv'
  <2>1. SUFFICES ASSUME decision' = "Deploy After Validation" PROVE DeployIsEarned'
    BY <1>1, <1>2 DEF DeployInv, DeployIsEarned, Decide
  <2>2. /\ patch # NoPatch /\ applies.says = "yes" /\ hygiene.says = "clean"
        /\ ~ DefectRemains(challenger, calibration)
        /\ ~ StillVulnerable(challenger, calibration)
    BY <1>2, <2>1 DEF Decide, Recommended
  <2>3. applies.of = patch.base /\ hygiene.of = patch.base /\ challenger.of = patch.base
    BY <1>2, <2>2 DEF DeployInv, EvidenceInv, AppliesToIt, ReviewOfIt, Decide, Late
  <2>4. NoCalibration.gap # "cleared" /\ NoCalibration.defect # "cleared"
    BY DEF NoCalibration
  <2> QED
    BY <1>2, <2>2, <2>3, <2>4
       DEF DeployIsEarned, Decide, DefectRemains, StillVulnerable, GapBlocks, Entry,
           evidenceOf
<1>3. CASE UNCHANGED <<pc, decision, patch, applies, hygiene, challenger, calibration>>
  BY <1>1, <1>3 DEF DeployInv, DeployIsEarned
<1>4. ASSUME decision' = decision, pc # "reported", pc' # "reported" PROVE DeployInv'
  BY <1>1, <1>4 DEF DeployInv, DeployIsEarned
<1>5. CASE PlanNext /\ UNCHANGED patching
  BY <1>4, <1>5 DEF PlanNext, HandWritten, PlanGrounded, PlanAgain, PlanUngrounded, Claim,
       ClaimFails, RevisionSupported, RevisionFails, StrategyNotInvoked, Strategize,
       RerunStrategy, NoRerun, StrategyFails, EditsReady, EditsNotReady, NoApprovedTarget,
       patching
<1>6. CASE Next /\ ~ (PlanNext /\ UNCHANGED patching) /\ ~ (\E i \in BOOLEAN : Decide(i))
  BY <1>4, <1>6 DEF Next, Skips, Generate, GeneratesNothing, Conformant, Regenerate, Withdraw,
       Process, RetryApplies, RetryFails, Investigate, Challenge, NothingToChallenge,
       CalibrateFirst, RepairApplies, KeepOriginal, Repair, CalibrateLast, SkipComparison,
       CompareTests, Amend, NoAmendment, Rerun, Unavailable, patching, evidenceOf
<1>7. CASE UNCHANGED vars BY <1>3, <1>7 DEF vars, patching, evidenceOf
<1> QED BY <1>2, <1>5, <1>6, <1>7

(* Deployment is recommended only of a patch that applies and is clean, as *)
(* its own review and calibration say it (pipeline.py:2650-2831).          *)
THEOREM DeploymentEarned == Spec => []DeployIsEarned
<1>1. Init => DeployInv
  BY EvidenceInit DEF Init, DeployInv, DeployIsEarned
<1>2. DeployInv => DeployIsEarned BY DEF DeployInv
<1> QED BY <1>1, <1>2, DeployStep, PTL DEF Spec

-----------------------------------------------------------------------------
(* A patch is written only from a plan that no gate withholds, and only    *)
(* into files that were named for it.  The flag that withholds a patch is  *)
(* raised stages before it is read, so the invariant says what an empty    *)
(* flag means at each of the stages in between.                            *)

Plans == [by : {"nobody", "operator", "planner", "revision"}, targets : SUBSET Files,
          grounded : BOOLEAN,
          claim : {"none", "unneeded", "supported", "unresolved", "contradicted", "failed"}]

(* Up to the strategy, and from there to the readiness of its edits.       *)
PlanSound ==
    /\ plan \in Plans
    /\ pc = "claim" => plan.grounded
    /\ pc \notin {"planning", "claim", "revision", "raised"} /\ skip = {} => PlanCleared

StrategySound ==
    /\ strategy.state \in {"none", "evaluated", "failed"}
    /\ pc \in {"planning", "claim", "revision", "strategy"} => strategy = NoStrategy
    /\ pc = "generation" /\ skip = {} => TargetCleared

EditsSound ==
    /\ readiness.checked \in BOOLEAN /\ readiness.files \subseteq strategy.targets
    /\ pc \in Early \ {"generation"} => readiness = NotChecked

(* Once there is a patch, the planning it rests on no longer changes.      *)
Cleared ==
    pc \in Drafting \cup {"retry", "investigation"} \/ patch # NoPatch =>
        PlanCleared /\ TargetCleared

Amended == IF patch.id = "amended" THEN {TestFile} ELSE {}

WithinPlan ==
    /\ pc = "conformance" => patch.files \subseteq patch.hunked \cup patch.unseen
    /\ readiness.checked /\ pc # "conformance" =>
           patch.files \ Amended \subseteq PriorSupported \cup patch.unseen
    /\ pc = "rechallenge" => /\ candidate.files \subseteq patch.files \cup candidate.unseen
                             /\ patch.unseen \subseteq candidate.unseen
    /\ pc = "rerun" => /\ candidate.files = patch.files \cup {TestFile}
                       /\ candidate.unseen = patch.unseen

PlanningInv == PlanSound /\ StrategySound /\ EditsSound
ApprovalInv == EvidenceInv /\ PlanningInv /\ Cleared /\ WithinPlan

(* Planning raises the flag wherever a gate does not clear the plan.       *)
LEMMA PlanningStep ==
    ASSUME ApprovalInv, PlanNext, UNCHANGED patching PROVE ApprovalInv'
<1>1. EvidenceInv' BY PlanKeeps DEF ApprovalInv
<1>2. pc \in Early /\ pc' \in Early
  BY DEF Early, PlanNext, HandWritten, PlanGrounded, PlanAgain, PlanUngrounded, Claim,
         ClaimFails, RevisionSupported, RevisionFails, StrategyNotInvoked, Strategize,
         RerunStrategy, NoRerun, StrategyFails, EditsReady, EditsNotReady, NoApprovedTarget,
         planning
<1>3. patch = NoPatch /\ patch' = NoPatch /\ patch.files = {}
  BY <1>2 DEF ApprovalInv, EvidenceInv, PatchKnown, patching, NoPatch, NoEdits, Patch
<1>4. Cleared' /\ WithinPlan'
  BY <1>2, <1>3 DEF Cleared, WithinPlan, Early, Drafting
<1>5. PlanningInv'
  <2> USE DEF ApprovalInv, PlanningInv, PlanSound, StrategySound, EditsSound, Early,
          Plans, PlanCleared, Withhold, planning
  <2>1. CASE HandWritten BY <2>1 DEF HandWritten, Unplanned
  <2>2. CASE \E a \in Answers, T \in Targets : PlanGrounded(a, T)
    BY <2>2, PlanningAssumption DEF PlanGrounded
  <2>3. CASE \E a \in Answers, T \in Targets : PlanUngrounded(a, T)
    <3>1. PICK T \in SUBSET Files :
              plan' = [by |-> "planner", targets |-> T, grounded |-> FALSE, claim |-> "none"]
      <4>1. PICK a \in Answers, T \in Targets : PlanUngrounded(a, T) BY <2>3
      <4>2. T \in SUBSET Files BY PlanningAssumption
      <4>3. plan' = [Unplanned EXCEPT !.by = "planner", !.targets = T]
        BY <4>1 DEF PlanUngrounded
      <4> QED BY <4>2, <4>3 DEF Unplanned
    <3>2. skip' # {} /\ pc = "planning" /\ pc' = "strategy" /\ UNCHANGED <<strategy, readiness>>
      BY <2>3 DEF PlanUngrounded
    <3> QED BY <3>1, <3>2
  <2>4. CASE \E a \in Answers : PlanAgain(a) BY <2>4 DEF PlanAgain
  <2>5. CASE \E v \in {"unneeded", "supported", "unresolved", "contradicted"} : Claim(v)
    BY <2>5 DEF Claim
  <2>6. CASE ClaimFails BY <2>6 DEF ClaimFails
  <2>7. CASE \E a \in Answers, T \in Targets : RevisionSupported(a, T)
    <3>1. \A a \in Answers : Grounded(a) \in BOOLEAN BY DEF Grounded
    <3> QED BY <2>7, <3>1, PlanningAssumption DEF RevisionSupported
  <2>8. CASE RevisionFails BY <2>8 DEF RevisionFails
  <2>9. CASE StrategyNotInvoked BY <2>9 DEF StrategyNotInvoked
  <2>10. CASE \E T \in SUBSET Files, u \in BOOLEAN, g \in BOOLEAN : Strategize(T, u, g)
    BY <2>10 DEF Strategize, Invoked, NotChecked
  <2>11. CASE \E T \in SUBSET Files, u \in BOOLEAN : RerunStrategy(T, u)
    BY <2>11 DEF RerunStrategy, Invoked, NotChecked
  <2>12. CASE NoRerun BY <2>12 DEF NoRerun
  <2>13. CASE StrategyFails BY <2>13 DEF StrategyFails, NoStrategy, NotChecked
  <2>14. CASE EditsReady
    BY <2>14 DEF EditsReady, Withheld, Approved, TargetCleared
  <2>15. CASE EditsNotReady
    BY <2>15 DEF EditsNotReady, Withheld, Approved, TargetCleared
  <2>16. CASE NoApprovedTarget
    BY <2>16 DEF NoApprovedTarget, Withheld, Approved, TargetCleared
  <2> QED
    BY <2>1, <2>2, <2>3, <2>4, <2>5, <2>6, <2>7, <2>8, <2>9, <2>10, <2>11, <2>12, <2>13,
       <2>14, <2>15, <2>16 DEF PlanNext
<1> QED BY <1>1, <1>4, <1>5 DEF ApprovalInv

(* From generation on, planning stands.                                    *)
LEMMA PlanningStands ==
    ASSUME PlanningInv, UNCHANGED planning,
           pc' \notin Early \/ pc' = pc, pc \notin Early \ {"generation"} \/ pc' \in {pc, "raised"},
           pc' # "raised" => pc # "raised"
    PROVE  PlanningInv'
BY DEF PlanningInv, PlanSound, StrategySound, EditsSound, PlanCleared, TargetCleared,
       Approved, Early, planning

(* Generation reads the flag; what it writes is withdrawn, or kept within  *)
(* the approved files.                                                     *)
LEMMA DraftApproved ==
    ASSUME ApprovalInv
    PROVE  /\ Skips \/ GeneratesNothing \/ Withdraw \/ RetryFails => Cleared' /\ WithinPlan'
           /\ \A p \in Diffs("generated") : Generate(p) => Cleared' /\ WithinPlan'
           /\ \A s \in BOOLEAN : Conformant(s) => Cleared' /\ WithinPlan'
           /\ \A s \in BOOLEAN, R \in SUBSET Files, p \in Diffs("regenerated") :
                 Regenerate(s, R, p) => Cleared' /\ WithinPlan'
           /\ \A a \in {"yes", "no", "unknown"}, t \in {"clean", "flagged", "critical"} :
                 Process(a, t) => Cleared' /\ WithinPlan'
           /\ \A F \in SUBSET Files, p \in Diffs("retried"),
                 t \in {"clean", "flagged", "critical"} :
                 RetryApplies(F, p, t) => Cleared' /\ WithinPlan'
           /\ \A i \in {patch.id, "none"} : Investigate(i) => Cleared' /\ WithinPlan'
<1>e. EvidenceInv BY DEF ApprovalInv
<1>a. /\ \A p \in Diffs("generated") :
             Generate(p) => WrittenAs(patch', p, "generated", {}, p.hunked)
      /\ \A s, R : \A p \in Diffs("regenerated") :
             Regenerate(s, R, p) => WrittenAs(patch', p, "regenerated", {}, p.hunked)
      /\ \A F, t : \A p \in Diffs("retried") :
             RetryApplies(F, p, t) => WrittenAs(patch', p, "retried", patch.unseen, p.hunked)
  BY <1>e, ActionsWrite
<1> USE DEF ApprovalInv, PlanningInv, Cleared, WithinPlan, PlanCleared, TargetCleared,
        Approved, PriorSupported, Drafting, planning, patching, evidenceOf, Amended
<1>1. patch.id # "amended" \/ pc \in {"decide", "reported"}
  BY DEF EvidenceInv, NotYetCompared
<1>2. \A id, p : p \in Diffs(id) => p.id = id BY DEF Diffs, Patch
<1>3. NoPatch.files = {} BY DEF NoPatch, NoEdits, Patch
<1>4. Skips \/ GeneratesNothing \/ RetryFails => Cleared' /\ WithinPlan'
  BY DEF Skips, GeneratesNothing, RetryFails
<1>5. Withdraw => Cleared' /\ WithinPlan' BY <1>3 DEF Withdraw
<1>6. ASSUME NEW p \in Diffs("generated"), Generate(p) PROVE Cleared' /\ WithinPlan'
  <2>1. WrittenAs(patch', p, "generated", {}, p.hunked) BY <1>a, <1>6
  <2>2. patch'.files \subseteq patch'.hunked \cup patch'.unseen BY <2>1 DEF WrittenAs
  <2> QED BY <1>6, <2>2 DEF Generate, PlanSound, StrategySound, EditsSound
<1>7. ASSUME NEW s \in BOOLEAN, Conformant(s) PROVE Cleared' /\ WithinPlan'
  BY <1>7 DEF Conformant, Conforms, EditsSound
<1>8. ASSUME NEW s \in BOOLEAN, NEW R \in SUBSET Files, NEW p \in Diffs("regenerated"),
             Regenerate(s, R, p)
      PROVE  Cleared' /\ WithinPlan'
  <2>1. WrittenAs(patch', p, "regenerated", {}, p.hunked) BY <1>a, <1>8
  <2>2. patch'.files \subseteq p.hunked \cup patch'.unseen BY <2>1 DEF WrittenAs
  <2>3. p.hunked \subseteq PriorSupported
    BY <1>8 DEF Regenerate, Conforms, Reconciled, EditsSound
  <2> QED BY <1>8, <2>2, <2>3 DEF Regenerate
<1>9. ASSUME NEW a, NEW t, Process(a, t) PROVE Cleared' /\ WithinPlan'
  BY <1>9 DEF Process, Known
<1>10. ASSUME NEW F \in SUBSET Files, NEW p \in Diffs("retried"), NEW t, RetryApplies(F, p, t)
       PROVE  Cleared' /\ WithinPlan'
  <2>1. WrittenAs(patch', p, "retried", patch.unseen, p.hunked) BY <1>a, <1>10
  <2>2. patch'.files \subseteq p.hunked \cup patch'.unseen /\ patch.unseen \subseteq patch'.unseen
    BY <2>1 DEF WrittenAs
  <2>3. patch.hunked \subseteq patch.files BY <1>e DEF EvidenceInv, PatchKnown, Written
  <2>4. p.hunked \subseteq patch.files BY <1>10, <2>3 DEF RetryApplies
  <2>5. readiness.checked => patch.files \subseteq PriorSupported \cup patch.unseen
    BY <1>1, <1>10 DEF RetryApplies
  <2> QED BY <1>10, <2>2, <2>4, <2>5 DEF RetryApplies
<1>11. ASSUME NEW i, Investigate(i) PROVE Cleared' /\ WithinPlan'
  BY <1>11 DEF Investigate
<1> QED BY <1>4, <1>5, <1>6, <1>7, <1>8, <1>9, <1>10, <1>11

(* A repair stays within the files of the patch it repairs, and an         *)
(* amendment adds its test and nothing else.                               *)
LEMMA ReviewApproved ==
    ASSUME ApprovalInv
    PROVE  /\ \A r : Challenge(r) => Cleared' /\ WithinPlan'
           /\ NothingToChallenge \/ KeepOriginal => Cleared' /\ WithinPlan'
           /\ \A c : CalibrateFirst(c) \/ CalibrateLast(c) => Cleared' /\ WithinPlan'
           /\ \A p \in Diffs("repaired") : RepairApplies(p) => Cleared' /\ WithinPlan'
           /\ \A r, c, t : Repair(r, c, t) => Cleared' /\ WithinPlan'
           /\ SkipComparison \/ Amend \/ NoAmendment \/ Unavailable => Cleared' /\ WithinPlan'
           /\ \A c : CompareTests(c) \/ Rerun(c) => Cleared' /\ WithinPlan'
           /\ \A i : Decide(i) => Cleared' /\ WithinPlan'
<1>e. EvidenceInv BY DEF ApprovalInv
<1>a. \A p \in Diffs("repaired") :
          RepairApplies(p) => WrittenAs(candidate', p, "repaired", patch.unseen, p.named)
  BY <1>e, ActionsWrite
<1> USE DEF ApprovalInv, PlanningInv, Cleared, WithinPlan, PlanCleared, TargetCleared,
        Approved, PriorSupported, Drafting, planning, patching, evidenceOf, Amended
<1>1. /\ pc \in Checked \cup {"amendment", "rerun"} => patch # NoPatch
      /\ patch.id # "amended" \/ pc \in {"decide", "reported"}
      /\ pc = "rechallenge" => candidate.id = "repaired"
      /\ pc = "rerun" => candidate.id = "amended"
  BY DEF EvidenceInv, PatchKnown, NotYetCompared, CandidateKnown
<1>2. ASSUME NEW r, Challenge(r) PROVE Cleared' /\ WithinPlan' BY <1>2 DEF Challenge
<1>3. NothingToChallenge \/ KeepOriginal => Cleared' /\ WithinPlan'
  BY DEF NothingToChallenge, KeepOriginal
<1>4. ASSUME NEW c, CalibrateFirst(c) \/ CalibrateLast(c) PROVE Cleared' /\ WithinPlan'
  BY <1>4 DEF CalibrateFirst, CalibrateLast
<1>5. ASSUME NEW p \in Diffs("repaired"), RepairApplies(p) PROVE Cleared' /\ WithinPlan'
  <2>1. WrittenAs(candidate', p, "repaired", patch.unseen, p.named) BY <1>a, <1>5
  <2>2. /\ candidate'.files \subseteq p.named \cup candidate'.unseen
        /\ patch.unseen \subseteq candidate'.unseen
    BY <2>1 DEF WrittenAs
  <2>3. patch.named \subseteq patch.files BY <1>e DEF EvidenceInv, PatchKnown, Written
  <2>4. p.named \subseteq patch.files BY <1>5, <2>3 DEF RepairApplies, WithinOriginal
  <2> QED BY <1>5, <2>2, <2>4 DEF RepairApplies
<1>6. ASSUME NEW r, NEW c, NEW t, Repair(r, c, t) PROVE Cleared' /\ WithinPlan'
  BY <1>1, <1>6 DEF Repair, TakeRepair, Known, Checked
<1>7. SkipComparison \/ NoAmendment \/ Unavailable => Cleared' /\ WithinPlan'
  BY DEF SkipComparison, NoAmendment, Unavailable
<1>8. Amend => Cleared' /\ WithinPlan'
  <2> SUFFICES ASSUME Amend PROVE Cleared' /\ WithinPlan' OBVIOUS
  <2>1. candidate'.files = patch.files \cup {TestFile} /\ candidate'.unseen = patch.unseen
    BY DEF Amend, EvidenceInv, PatchKnown, Written
  <2> QED BY <2>1 DEF Amend
<1>9. ASSUME NEW c, CompareTests(c) PROVE Cleared' /\ WithinPlan'
  BY <1>9 DEF CompareTests
<1>10. ASSUME NEW c, Rerun(c) PROVE Cleared' /\ WithinPlan'
  BY <1>1, <1>10 DEF Rerun, TakeAmendment
<1>11. ASSUME NEW i, Decide(i) PROVE Cleared' /\ WithinPlan' BY <1>11 DEF Decide
<1> QED BY <1>2, <1>3, <1>4, <1>5, <1>6, <1>7, <1>8, <1>9, <1>10, <1>11

(* No step after planning touches what planning left.                      *)
LEMMA AfterPlanning ==
    ASSUME ApprovalInv, Next, ~ (PlanNext /\ UNCHANGED patching)
    PROVE  PlanningInv'
<1>1. /\ UNCHANGED planning /\ pc # "raised"
      /\ pc' \notin Early
      /\ pc \notin Early \ {"generation"} \/ pc' = "raised"
  BY DEF Next, Skips, Generate, GeneratesNothing, Conformant, Regenerate, Withdraw,
       Process, RetryApplies, RetryFails, Investigate, Challenge, NothingToChallenge,
       CalibrateFirst, RepairApplies, KeepOriginal, Repair, CalibrateLast, SkipComparison,
       CompareTests, Amend, NoAmendment, Rerun, Decide, Unavailable, Early
<1> QED BY <1>1, PlanningStands DEF ApprovalInv

(* Code is written only from a cleared plan, and only into the files that  *)
(* were approved for it, or that the check of the stage that wrote them    *)
(* cannot see (pipeline.py:6102-6118, 7336-7346, 8200-8213;                *)
(* diff_parsing.py:65-75).                                                 *)
THEOREM PatchesApproved == Spec => []PatchWasApproved
<1>1. Init => ApprovalInv
  BY EvidenceInit DEF Init, PlanInit, ApprovalInv, PlanningInv, PlanSound, StrategySound,
       EditsSound, Cleared, WithinPlan, Plans, Unplanned, NoStrategy, NotChecked, Drafting,
       NoPatch, NoEdits, Patch
<1>2. ApprovalInv /\ [Next]_vars => ApprovalInv'
  <2> SUFFICES ASSUME ApprovalInv, [Next]_vars PROVE ApprovalInv' OBVIOUS
  <2>1. EvidenceInv' BY EvidenceStep DEF ApprovalInv
  <2>2. CASE PlanNext /\ UNCHANGED patching BY <2>2, PlanningStep
  <2>3. CASE Next /\ ~ (PlanNext /\ UNCHANGED patching)
    <3>1. PlanningInv' BY <2>3, AfterPlanning
    <3>2. Cleared' /\ WithinPlan' BY <2>3, DraftApproved, ReviewApproved DEF Next
    <3> QED BY <2>1, <3>1, <3>2 DEF ApprovalInv
  <2>4. CASE UNCHANGED vars
    BY <2>1, <2>4 DEF vars, planning, patching, evidenceOf, ApprovalInv, PlanningInv,
       PlanSound, StrategySound, EditsSound, Cleared, WithinPlan, PlanCleared, TargetCleared,
       Approved, PriorSupported, Amended
  <2> QED BY <2>2, <2>3, <2>4
<1>3. ApprovalInv => PatchWasApproved
  BY DEF ApprovalInv, Cleared, WithinPlan, PatchWasApproved, OnlyClearedPlansPatched,
       FilesApproved, Reviewed, Amended
<1> QED BY <1>1, <1>2, <1>3, PTL DEF Spec

-----------------------------------------------------------------------------
(* The batch runner.                                                       *)

AtWork == {"free", "spawning", "waiting", "reaped"}

Attempts ==
    [by : Runners, at : AtWork \cup {"over", "lost"}, child : {"git", "run"},
     proc : {"none", "alive", "ok", "failed"}, told : {"nothing", "stop", "kill"},
     stopSeen : BOOLEAN,
     status : {"running", "completed", "failed", "interrupted"},
     outcome : Outcomes \cup {"none"}, trace : Outcomes \cup {"none"}]

\* Where a runner may have work left, and where it holds the lock.
InSession == {"looping", "interrupted", "stopping", "draining", "unwinding"}
Holding   == InSession \cup {"packaging"}

BatchTypes ==
    /\ lock \in Runners \cup {Nobody}
    /\ tries \in [Cases -> Seq(Attempts)]
    /\ main \in [Runners -> Holding \cup {"idle", "loaded", "gone"}]
    /\ command \in [Runners -> {"new", "resume", "rerun", "summarize"}]
    /\ todo \in [Runners -> SUBSET (Cases \X Nat)]
    /\ stop \in [Runners -> BOOLEAN]
    /\ faults \in Nat

\* Of the runners, only the holder of the lock has work left, and a runner that
\* asks for a stop has set the event.
RunnersSound ==
    \A r \in Runners :
        /\ lock = r <=> main[r] \in Holding
        /\ todo[r] # {} => main[r] \in InSession
        /\ main[r] \in {"interrupted", "stopping", "draining"} => stop[r]

\* What the place of an attempt's thread says of its child and its files, where
\* its runner is at a place and has or has not set the event.
SoundAt(t, place, stopped) ==
    /\ t.at \in AtWork => place \in InSession
    /\ t.at # "over" => t.status = "running"
    /\ t.proc = "alive" => t.at \in {"waiting", "lost"}
    /\ t.told # "nothing" => t.at \in AtWork /\ stopped
    /\ t.at = "reaped" => t.stopSeen \/ t.told = "nothing"
    /\ t.status = "interrupted" => t.child = "git"
    /\ place \in {"stopping", "draining"} =>
          /\ t.at # "spawning"
          /\ t.at = "waiting" /\ t.proc = "alive" => t.told # "nothing"

AttemptSound(t) == SoundAt(t, main[t.by], stop[t.by])
AttemptsSound == \A a \in All : AttemptSound(Try(a))

\* What a command may run again.
Wanted(r, c) ==
    command[r] # "new" => /\ CaseStatus(c) # "completed"
                          /\ CaseStatus(c) = "failed" => command[r] = "rerun"

\* A future that no thread has taken is the next attempt of a case nobody works
\* on, whose status is still the one it was scheduled for.
Ready(r, a) ==
    /\ a[2] = Len(tries[a[1]]) + 1
    /\ \A n \in Numbers(a[1]) : tries[a[1]][n].at \in {"over", "lost"}
    /\ Wanted(r, a[1])

TodoSound == \A r \in Runners : \A a \in todo[r] : Ready(r, a)

BatchInv == BatchTypes /\ RunnersSound /\ AttemptsSound /\ TodoSound

-----------------------------------------------------------------------------
(* The table of attempts, and what it means to change one of them.         *)

LEMMA InAll ==
    ASSUME NEW a
    PROVE  a \in All <=> \E c \in Cases : \E n \in Numbers(c) : a = <<c, n>>
  BY DEF All

LEMMA TryTyped ==
    ASSUME BatchTypes, NEW a \in All
    PROVE  /\ Try(a) \in Attempts
           /\ a[1] \in Cases /\ a[2] \in 1..Len(tries[a[1]]) /\ a = <<a[1], a[2]>>
  <1>0. PICK c \in Cases : \E n \in Numbers(c) : a = <<c, n>> BY InAll
  <1>1. PICK n \in Numbers(c) : a = <<c, n>> BY <1>0
  <1>2. tries[c] \in Seq(Attempts) BY DEF BatchTypes
  <1> QED BY <1>1, <1>2 DEF Try, Numbers

LEMMA SetOne ==
    ASSUME BatchTypes, NEW a \in All, NEW t \in Attempts, Set(a, t)
    PROVE  /\ tries' \in [Cases -> Seq(Attempts)]
           /\ \A c \in Cases : Len(tries'[c]) = Len(tries[c])
           /\ \A c \in Cases : \A n \in Numbers(c) :
                 tries'[c][n] = IF <<c, n>> = a THEN t ELSE tries[c][n]
  <1>0. PICK c \in Cases : \E n \in Numbers(c) : a = <<c, n>> BY InAll
  <1>1. PICK n \in Numbers(c) : a = <<c, n>> BY <1>0
  <1>2. tries \in [Cases -> Seq(Attempts)] BY DEF BatchTypes
  <1>3. tries' = [tries EXCEPT ![c] = [tries[c] EXCEPT ![n] = t]]
    BY <1>1 DEF Set
  <1>4. /\ [tries[c] EXCEPT ![n] = t] \in Seq(Attempts)
        /\ Len([tries[c] EXCEPT ![n] = t]) = Len(tries[c])
    BY <1>1, <1>2 DEF Numbers
  <1> QED BY <1>1, <1>2, <1>3, <1>4 DEF Numbers

LEMMA SetEach ==
    ASSUME BatchTypes, NEW g \in [All -> Attempts],
           tries' = [c \in Cases |-> [n \in Numbers(c) |-> g[<<c, n>>]]]
    PROVE  /\ tries' \in [Cases -> Seq(Attempts)]
           /\ \A c \in Cases : Len(tries'[c]) = Len(tries[c])
           /\ \A c \in Cases : \A n \in Numbers(c) : tries'[c][n] = g[<<c, n>>]
  <1>1. ASSUME NEW c \in Cases
        PROVE  /\ tries'[c] \in Seq(Attempts)
               /\ Len(tries'[c]) = Len(tries[c])
    <2>1. Len(tries[c]) \in Nat BY DEF BatchTypes
    <2>2. \A n \in Numbers(c) : g[<<c, n>>] \in Attempts BY InAll
    <2>3. tries'[c] \in [1..Len(tries[c]) -> Attempts]
      BY <2>2 DEF Numbers
    <2> QED BY <2>1, <2>3, LenProperties, SeqDef
  <1> QED BY <1>1

LEMMA SameAttempts ==
    ASSUME BatchTypes, \A c \in Cases : Len(tries'[c]) = Len(tries[c])
    PROVE  All' = All
  BY DEF All, Numbers

\* A case's status hangs on its last attempt, and not on what orphans write.
LEMMA StatusKept ==
    ASSUME BatchTypes, NEW c \in Cases, Len(tries'[c]) = Len(tries[c]),
           tries'[c] \in Seq(Attempts),
           \A n \in Numbers(c) :
               \/ tries'[c][n] = tries[c][n]
               \/ tries'[c][n].status = "running" /\ tries[c][n].status = "running"
    PROVE  CaseStatus(c)' = CaseStatus(c)
  <1> DEFINE k == Len(tries[c])
  <1>1. k \in Nat /\ (tries[c] = <<>> <=> k = 0) /\ (tries'[c] = <<>> <=> k = 0)
    BY DEF BatchTypes
  <1>2. CASE k = 0 BY <1>1, <1>2 DEF CaseStatus
  <1>3. CASE k # 0 /\ tries'[c][k] = tries[c][k]
    BY <1>1, <1>3 DEF CaseStatus, Revalidated, Classified, RanOk
  <1>4. CASE k # 0 /\ tries'[c][k].status = "running" /\ tries[c][k].status = "running"
    BY <1>1, <1>4 DEF CaseStatus
  <1> QED BY <1>1, <1>2, <1>3, <1>4 DEF Numbers

-----------------------------------------------------------------------------
(* One attempt changes.                                                    *)

LEMMA OneChanges ==
    ASSUME BatchInv, NEW a \in All, NEW t \in Attempts, Set(a, t), AttemptSound(t),
           UNCHANGED <<lock, main, command, todo, stop>>, faults' \in Nat,
           \/ Try(a).at \in AtWork
           \/ Try(a).at = "lost" /\ t.at = "lost"
           \/ lock = Nobody
    PROVE  BatchInv'
  <1>0. BatchTypes /\ RunnersSound /\ AttemptsSound /\ TodoSound BY DEF BatchInv
  <1>1. /\ tries' \in [Cases -> Seq(Attempts)]
        /\ \A c \in Cases : Len(tries'[c]) = Len(tries[c])
        /\ \A c \in Cases : \A n \in Numbers(c) :
              tries'[c][n] = IF <<c, n>> = a THEN t ELSE tries[c][n]
    BY <1>0, SetOne
  <1>2. BatchTypes' BY <1>0, <1>1 DEF BatchTypes
  <1>3. RunnersSound' BY <1>0 DEF RunnersSound
  <1>4. AttemptsSound'
    <2>1. All' = All BY <1>0, <1>1, SameAttempts
    <2>2. \A b \in All : tries'[b[1]][b[2]] = IF b = a THEN t ELSE Try(b)
      BY <1>0, <1>1, TryTyped DEF Try, Numbers
    <2>3. ASSUME NEW b \in All PROVE AttemptSound(Try(b))'
      <3>1. Try(b)' = IF b = a THEN t ELSE Try(b) BY <2>2, <2>3 DEF Try
      <3>2. CASE b = a
        <4>1. Try(b)' = t BY <3>1, <3>2
        <4> QED BY <4>1 DEF AttemptSound, SoundAt
      <3>3. CASE b # a
        <4>1. Try(b)' = Try(b) /\ AttemptSound(Try(b))
          BY <1>0, <2>3, <3>1, <3>3 DEF AttemptsSound
        <4> QED BY <4>1 DEF AttemptSound, SoundAt
      <3> QED BY <3>2, <3>3
    <2> QED BY <2>1, <2>3 DEF AttemptsSound
  <1>5. TodoSound'
    <2> SUFFICES ASSUME NEW r \in Runners, NEW b \in todo[r]
                 PROVE  /\ b[2] = Len(tries'[b[1]]) + 1
                        /\ \A n \in 1..Len(tries'[b[1]]) :
                              tries'[b[1]][n].at \in {"over", "lost"}
                        /\ Wanted(r, b[1])'
      BY <1>0 DEF TodoSound, Ready, Numbers
    <2>0. b[1] \in Cases /\ tries[b[1]] \in Seq(Attempts)
      BY <1>0 DEF BatchTypes
    <2>1. lock # Nobody
      BY <1>0, BatchAssumption DEF RunnersSound, Holding
    <2>2. \A n \in Numbers(b[1]) : tries[b[1]][n].at \in {"over", "lost"}
      BY <1>0 DEF TodoSound, Ready
    <2>3. ASSUME NEW n \in Numbers(b[1]), <<b[1], n>> = a
          PROVE  /\ tries[b[1]][n].at = "lost" /\ t.at = "lost"
                 /\ tries[b[1]][n].status = "running" /\ t.status = "running"
      <3>1. Try(a) = tries[b[1]][n] BY <2>3 DEF Try
      <3>2. tries[b[1]][n].at = "lost" /\ t.at = "lost"
        BY <2>1, <2>2, <3>1 DEF AtWork
      <3>3. AttemptSound(Try(a)) BY <1>0 DEF AttemptsSound
      <3> QED BY <3>1, <3>2, <3>3 DEF AttemptSound, SoundAt
    <2>4. CaseStatus(b[1])' = CaseStatus(b[1])
      BY <1>0, <1>1, <2>0, <2>3, StatusKept
    <2>5. Wanted(r, b[1])' BY <1>0, <2>4 DEF TodoSound, Ready, Wanted
    <2> QED BY <1>0, <1>1, <2>0, <2>2, <2>3, <2>5 DEF TodoSound, Ready, Numbers
  <1> QED BY <1>2, <1>3, <1>4, <1>5 DEF BatchInv

LEMMA NewTryTyped ==
    ASSUME NEW r \in Runners PROVE NewTry(r) \in Attempts
  BY DEF NewTry, Attempts, AtWork

\* An attempt with one of its fields changed is an attempt.
LEMMA FieldTyped ==
    ASSUME NEW t \in Attempts
    PROVE  /\ \A x \in {"over", "lost"} : [t EXCEPT !.at = x] \in Attempts
           /\ \A x \in {"running", "completed", "failed", "interrupted"} :
                 [t EXCEPT !.status = x] \in Attempts
           /\ \A x \in Outcomes \cup {"none"} : [t EXCEPT !.outcome = x] \in Attempts
           /\ \A x \in Outcomes \cup {"none"} : [t EXCEPT !.trace = x] \in Attempts
           /\ \A x \in {"git", "run"} : [t EXCEPT !.child = x] \in Attempts
           /\ \A x \in {"none", "alive", "ok", "failed"} : [t EXCEPT !.proc = x] \in Attempts
  BY DEF Attempts

\* What is left of an attempt, whether it is recorded or not.
LEMMA Leaves ==
    ASSUME NEW t \in Attempts
    PROVE  /\ Classified(t) \in {"interrupted", "completed", "failed"}
           /\ Recorded(t) \in Attempts /\ Orphaned(t) \in Attempts
           /\ t.proc # "alive" => AttemptSound(Recorded(t))
           /\ t.status = "running" => AttemptSound(Orphaned(t))
           /\ Recorded(t).status = Classified(t) /\ Orphaned(t).status = t.status
           /\ Recorded(t).at = "over" /\ Orphaned(t).at = "lost"
  <1>1. Classified(t) \in {"interrupted", "completed", "failed"}
    BY DEF Classified
  <1>2. Recorded(t) \in Attempts /\ Orphaned(t) \in Attempts
    <2>0. /\ t.by \in Runners
          /\ t.trace \in Outcomes \cup {"none"} /\ t.child \in {"git", "run"}
          /\ t.proc \in {"none", "alive", "ok", "failed"}
          /\ t.status \in {"running", "completed", "failed", "interrupted"}
      BY DEF Attempts
    <2> DEFINE n == NewTry(t.by)
    <2>1. n \in Attempts BY <2>0, NewTryTyped
    <2>2. ASSUME Classified(t) = "completed" PROVE Recorded(t) \in Attempts
      <3> DEFINE u1 == [n EXCEPT !.at = "over"]
                 u2 == [u1 EXCEPT !.status = "completed"]
                 u3 == [u2 EXCEPT !.outcome = t.trace]
                 u4 == [u3 EXCEPT !.child = t.child]
                 u5 == [u4 EXCEPT !.proc = t.proc]
                 u6 == [u5 EXCEPT !.trace = t.trace]
      <3>1. Recorded(t) = u6 BY <2>2 DEF Recorded
      <3> HIDE DEF n, u1, u2, u3, u4, u5
      <3>2. u1 \in Attempts BY <2>1, FieldTyped DEF u1
      <3>3. u2 \in Attempts BY <3>2, FieldTyped DEF u2
      <3>4. u3 \in Attempts BY <2>0, <3>3, FieldTyped DEF u3
      <3>5. u4 \in Attempts BY <2>0, <3>4, FieldTyped DEF u4
      <3>6. u5 \in Attempts BY <2>0, <3>5, FieldTyped DEF u5
      <3> QED BY <2>0, <3>1, <3>6, FieldTyped
    <2>3. ASSUME Classified(t) # "completed" PROVE Recorded(t) \in Attempts
      <3> DEFINE u1 == [n EXCEPT !.at = "over"]
      <3>1. Recorded(t) = [u1 EXCEPT !.status = Classified(t)]
        BY <2>3 DEF Recorded
      <3> HIDE DEF n, u1
      <3>2. u1 \in Attempts BY <2>1, FieldTyped DEF u1
      <3> QED BY <1>1, <3>1, <3>2, FieldTyped
    <2>4. Orphaned(t) \in Attempts
      <3> DEFINE u1 == [n EXCEPT !.at = "lost"]
                 u2 == [u1 EXCEPT !.status = t.status]
                 u3 == [u2 EXCEPT !.trace = t.trace]
                 p  == IF t.proc = "alive" THEN "alive" ELSE "none"
                 u4 == [u3 EXCEPT !.proc = p]
                 k  == IF t.proc = "alive" THEN t.child ELSE "git"
      <3>1. Orphaned(t) = [u4 EXCEPT !.child = k] BY DEF Orphaned
      <3> HIDE DEF n, u1, u2, u3, u4
      <3>2. u1 \in Attempts BY <2>1, FieldTyped DEF u1
      <3>3. u2 \in Attempts BY <2>0, <3>2, FieldTyped DEF u2
      <3>4. u3 \in Attempts BY <2>0, <3>3, FieldTyped DEF u3
      <3>5. u4 \in Attempts BY <3>4, FieldTyped DEF u4
      <3> QED BY <2>0, <3>1, <3>5, FieldTyped
    <2> QED BY <2>2, <2>3, <2>4
  <1>3. t.proc # "alive" => AttemptSound(Recorded(t))
    BY <1>1 DEF Recorded, NewTry, AttemptSound, SoundAt, AtWork, Attempts
  <1>4. t.status = "running" => AttemptSound(Orphaned(t))
    BY DEF Orphaned, NewTry, AttemptSound, SoundAt, AtWork, Attempts
  <1> QED BY <1>1, <1>2, <1>3, <1>4 DEF Recorded, Orphaned, NewTry

LEMMA ThreadStep ==
    ASSUME BatchInv, NEW a \in All, ThreadSteps(a) \/ ChildEnds(a) \/ Damage(a)
    PROVE  BatchInv'
  <1> DEFINE t == Try(a)
  <1>0. /\ BatchTypes /\ RunnersSound /\ t \in Attempts /\ AttemptSound(t)
        /\ t.by \in Runners /\ faults \in Nat
    BY TryTyped DEF BatchInv, AttemptsSound, Attempts, BatchTypes
  <1>1. CASE EnterSpawn(a)
    <2> DEFINE u == [t EXCEPT !.at = "spawning"]
    <2>1. u \in Attempts BY <1>0 DEF Attempts, AtWork
    <2>2. AttemptSound(u)
      BY <1>0, <1>1 DEF EnterSpawn, AttemptSound, SoundAt, RunnersSound, AtWork, Attempts
    <2> QED BY <1>0, <1>1, <2>1, <2>2, OneChanges DEF EnterSpawn, mainVars, AtWork
  <1>2. CASE Spawn(a)
    <2> DEFINE u == [t EXCEPT !.at = "waiting", !.proc = "alive", !.told = "nothing"]
    <2>1. u \in Attempts BY <1>0 DEF Attempts, AtWork
    <2>2. AttemptSound(u)
      BY <1>0, <1>2 DEF Spawn, AttemptSound, SoundAt, AtWork, Attempts
    <2> QED BY <1>0, <1>2, <2>1, <2>2, OneChanges DEF Spawn, mainVars, AtWork
  <1>3. CASE SpawnRefused(a)
    <2> DEFINE u == [t EXCEPT !.at = "reaped", !.stopSeen = TRUE, !.proc = "none"]
    <2>1. u \in Attempts BY <1>0 DEF Attempts, AtWork
    <2>2. AttemptSound(u)
      BY <1>0, <1>3 DEF SpawnRefused, AttemptSound, SoundAt, AtWork, Attempts
    <2> QED BY <1>0, <1>3, <2>1, <2>2, OneChanges DEF SpawnRefused, mainVars, AtWork
  <1>4. CASE Reap(a)
    <2> DEFINE seen == [t EXCEPT !.stopSeen = stop[t.by]]
               u == IF t.child = "git" /\ t.proc = "ok"
                    THEN [t EXCEPT !.child = "run", !.at = "free", !.proc = "none"]
                    ELSE [seen EXCEPT !.at = "reaped"]
    <2>1. stop[t.by] \in BOOLEAN BY <1>0 DEF BatchTypes
    <2>2. u \in Attempts BY <1>0, <2>1 DEF Attempts, AtWork
    <2>3. AttemptSound(u)
      BY <1>0, <1>4 DEF Reap, AttemptSound, SoundAt, AtWork, Attempts
    <2>4. Set(a, u) BY <1>4 DEF Reap
    <2> QED BY <1>0, <1>4, <2>2, <2>3, <2>4, OneChanges DEF Reap, mainVars, AtWork
  <1>5. CASE Record(a)
    <2>1. t.proc # "alive" BY <1>0, <1>5 DEF Record, AttemptSound, SoundAt
    <2> QED BY <1>0, <1>5, <2>1, Leaves, OneChanges DEF Record, mainVars, AtWork
  <1>6. CASE RecordFails(a)
    <2>1. t.status = "running" BY <1>0, <1>6 DEF RecordFails, AttemptSound, SoundAt
    <2>2. /\ Set(a, Orphaned(t)) /\ t.at \in AtWork /\ faults' \in Nat
          /\ UNCHANGED <<lock, main, command, todo, stop>>
      BY <1>0, <1>6 DEF RecordFails, Fault, AtWork
    <2> QED BY <1>0, <2>1, <2>2, Leaves, OneChanges
  <1>7. CASE AttemptRaises(a)
    <2> DEFINE u == [NewTry(t.by) EXCEPT !.at = "over", !.status = "failed"]
    <2>1. u \in Attempts
      <3>1. t.by \in Runners BY <1>0 DEF Attempts
      <3>2. NewTry(t.by) \in Attempts BY <3>1, NewTryTyped
      <3>3. [NewTry(t.by) EXCEPT !.at = "over"] \in Attempts BY <3>2, FieldTyped
      <3> QED BY <3>3, FieldTyped
    <2>2. AttemptSound(u) BY DEF AttemptSound, SoundAt, NewTry, AtWork
    <2> QED BY <1>0, <1>7, <2>1, <2>2, OneChanges DEF AttemptRaises, Fault, AtWork
  <1>8. CASE ChildEnds(a)
    <2>1. PICK p \in {"ok", "failed"}, w \in Outcomes \cup {"none"} :
             Set(a, IF t.at = "lost"
                    THEN Orphaned([t EXCEPT !.proc = "none", !.trace = w])
                    ELSE [t EXCEPT !.proc = p, !.trace = w])
      BY <1>8 DEF ChildEnds
    <2>2. CASE t.at = "lost"
      <3>1. [t EXCEPT !.proc = "none", !.trace = w] \in Attempts
        BY <1>0 DEF Attempts
      <3>2. [t EXCEPT !.proc = "none", !.trace = w].status = "running"
        BY <1>0, <2>2 DEF Attempts, AttemptSound, SoundAt
      <3> QED
        BY <1>0, <1>8, <2>1, <2>2, <3>1, <3>2, Leaves, OneChanges
        DEF ChildEnds, mainVars
    <2>3. CASE t.at # "lost"
      <3> DEFINE u == [t EXCEPT !.proc = p, !.trace = w]
      <3>1. u \in Attempts BY <1>0 DEF Attempts
      <3>2. AttemptSound(u) BY <1>0 DEF AttemptSound, SoundAt, Attempts
      <3>3. t.at \in AtWork BY <1>0, <1>8, <2>3 DEF ChildEnds, AttemptSound, SoundAt, AtWork
      <3> QED BY <1>0, <1>8, <2>1, <2>3, <3>1, <3>2, <3>3, OneChanges DEF ChildEnds, mainVars
    <2> QED BY <2>2, <2>3
  <1>9. CASE Damage(a)
    <2> DEFINE u == [t EXCEPT !.trace = "none"]
    <2>1. u \in Attempts BY <1>0 DEF Attempts
    <2>2. AttemptSound(u) BY <1>0 DEF AttemptSound, SoundAt, Attempts
    <2> QED BY <1>0, <1>9, <2>1, <2>2, OneChanges DEF Damage, Fault
  <1> QED
    BY <1>1, <1>2, <1>3, <1>4, <1>5, <1>6, <1>7, <1>8, <1>9 DEF ThreadSteps

-----------------------------------------------------------------------------
(* The main thread of one runner moves, and the attempts its threads work  *)
(* on may change with it.                                                  *)

Places == Holding \cup {"idle", "loaded", "gone"}

\* Work left means that the lock is held, by its runner and by nobody else.
LEMMA OneHolder ==
    ASSUME BatchInv, NEW r \in Runners
    PROVE  /\ lock = r <=> main[r] \in Holding
           /\ Busy(r) # {} => main[r] \in InSession
           /\ todo[r] # {} => main[r] \in InSession
           /\ \A q \in Runners \ {r} : main[r] \in Holding => main[q] \notin Holding
           /\ lock = Nobody => main[r] \notin Holding
           /\ \A a \in All : Try(a).by = r /\ a \notin Busy(r) =>
                 Try(a).at \in {"over", "lost"}
           /\ \A a \in Busy(r) : Try(a).at \in AtWork
  <1>1. RunnersSound /\ AttemptsSound /\ BatchTypes BY DEF BatchInv
  <1>2. \A q \in Runners : lock = q <=> main[q] \in Holding BY <1>1 DEF RunnersSound
  <1>3. \A a \in Busy(r) : Try(a).at \in AtWork /\ a \in All /\ Try(a).by = r
    <2> SUFFICES ASSUME NEW a \in Busy(r)
                 PROVE  Try(a).at \in AtWork /\ a \in All /\ Try(a).by = r
      OBVIOUS
    <2>1. a \in All /\ Try(a).by = r /\ Try(a).at \notin {"over", "lost"} BY DEF Busy
    <2>2. Try(a) \in Attempts BY <1>1, <2>1, TryTyped
    <2> QED BY <2>1, <2>2 DEF Attempts
  <1>4. \A a \in Busy(r) : main[r] \in InSession
    BY <1>1, <1>3 DEF AttemptsSound, AttemptSound, SoundAt
  <1>5. todo[r] # {} => main[r] \in InSession BY <1>1 DEF RunnersSound
  <1>6. \A a \in All : Try(a).by = r /\ a \notin Busy(r) => Try(a).at \in {"over", "lost"}
    BY DEF Busy
  <1> QED BY <1>2, <1>3, <1>4, <1>5, <1>6, BatchAssumption

LEMMA RunnerMoves ==
    ASSUME BatchInv, NEW r \in Runners, NEW p \in Places, NEW s \in BOOLEAN,
           NEW T \in SUBSET (Cases \X Nat),
           main' = [main EXCEPT ![r] = p],
           stop' = [stop EXCEPT ![r] = s],
           todo' = [todo EXCEPT ![r] = T],
           lock' \in Runners \cup {Nobody},
           lock' = r <=> p \in Holding,
           \A q \in Runners \ {r} : lock' = q <=> lock = q,
           command' \in [Runners -> {"new", "resume", "rerun", "summarize"}],
           command' = command \/ (T = {} /\ \A q \in Runners \ {r} : command'[q] = command[q]),
           faults' \in Nat,
           T # {} => p \in InSession,
           p \in {"interrupted", "stopping", "draining"} => s,
           \A a \in T : Ready(r, a),
           tries' \in [Cases -> Seq(Attempts)],
           \A c \in Cases : Len(tries'[c]) = Len(tries[c]),
           \A c \in Cases : \A n \in Numbers(c) :
               <<c, n>> \notin Busy(r) => tries'[c][n] = tries[c][n],
           \A a \in Busy(r) : /\ tries'[a[1]][a[2]].by = r
                              /\ SoundAt(tries'[a[1]][a[2]], p, s)
    PROVE  BatchInv'
  <1>0. BatchTypes /\ RunnersSound /\ AttemptsSound /\ TodoSound BY DEF BatchInv
  <1>1. BatchTypes' BY <1>0 DEF BatchTypes, Places
  <1>2. /\ main'[r] = p /\ stop'[r] = s /\ todo'[r] = T
        /\ \A q \in Runners \ {r} : /\ main'[q] = main[q] /\ stop'[q] = stop[q]
                                    /\ todo'[q] = todo[q]
    BY <1>0 DEF BatchTypes
  <1>3. RunnersSound'
    <2> SUFFICES ASSUME NEW q \in Runners
                 PROVE  /\ lock' = q <=> main'[q] \in Holding
                        /\ todo'[q] # {} => main'[q] \in InSession
                        /\ main'[q] \in {"interrupted", "stopping", "draining"} => stop'[q]
      BY DEF RunnersSound
    <2>1. CASE q = r BY <1>2, <2>1
    <2>2. CASE q # r BY <1>0, <1>2, <2>2 DEF RunnersSound
    <2> QED BY <2>1, <2>2
  <1>4. AttemptsSound'
    <2>1. All' = All BY <1>0, SameAttempts
    <2> SUFFICES ASSUME NEW a \in All PROVE AttemptSound(Try(a))'
      BY <2>1 DEF AttemptsSound
    <2>2. /\ Try(a) \in Attempts /\ a[1] \in Cases /\ a[2] \in Numbers(a[1])
          /\ a = <<a[1], a[2]>>
      BY <1>0, TryTyped DEF Numbers
    <2>3. CASE a \in Busy(r)
      <3> DEFINE t == tries'[a[1]][a[2]]
      <3>1. t.by = r /\ SoundAt(t, p, s) BY <2>3
      <3>2. Try(a)' = t BY DEF Try
      <3> QED BY <1>2, <3>1, <3>2 DEF AttemptSound
    <2>4. CASE a \notin Busy(r)
      <3>1. Try(a)' = Try(a) BY <2>2, <2>4 DEF Try
      <3>2. AttemptSound(Try(a)) BY <1>0 DEF AttemptsSound
      <3>3. Try(a).by \in Runners BY <2>2 DEF Attempts
      <3>4. CASE Try(a).by # r
        <4>1. /\ main'[Try(a).by] = main[Try(a).by] /\ stop'[Try(a).by] = stop[Try(a).by]
          BY <1>2, <3>3, <3>4
        <4> QED BY <3>1, <3>2, <4>1 DEF AttemptSound
      <3>5. CASE Try(a).by = r
        <4>1. Try(a).at \in {"over", "lost"} BY <2>4, <3>5, OneHolder
        <4>2. SoundAt(Try(a), p, s) BY <3>2, <4>1 DEF AttemptSound, SoundAt, AtWork
        <4> QED BY <1>2, <3>1, <3>5, <4>2 DEF AttemptSound
      <3> QED BY <3>4, <3>5
    <2> QED BY <2>3, <2>4
  <1>5. TodoSound'
    <2> SUFFICES ASSUME NEW q \in Runners, NEW b \in todo'[q] PROVE Ready(q, b)'
      BY DEF TodoSound
    <2>1. Ready(q, b) /\ b[1] \in Cases /\ command'[q] = command[q]
          /\ (command'[q] # "new" => command[q] # "new")
      BY <1>0, <1>2 DEF TodoSound, BatchTypes
    <2>2. \A n \in Numbers(b[1]) : tries[b[1]][n].at \in {"over", "lost"}
      BY <2>1 DEF Ready
    <2>3. \A n \in Numbers(b[1]) : tries'[b[1]][n] = tries[b[1]][n]
      <3> SUFFICES ASSUME NEW n \in Numbers(b[1])
                   PROVE  <<b[1], n>> \notin Busy(r)
        BY <2>1
      <3> QED BY <2>2 DEF Busy, Try
    <2>4. Len(tries'[b[1]]) = Len(tries[b[1]]) /\ tries'[b[1]] \in Seq(Attempts)
      BY <2>1
    <2>5. CaseStatus(b[1])' = CaseStatus(b[1])
      BY <1>0, <2>1, <2>3, <2>4, StatusKept
    <2>6. Wanted(q, b[1])' BY <2>1, <2>5 DEF Ready, Wanted
    <2> QED BY <2>1, <2>3, <2>4, <2>6 DEF Ready, Numbers
  <1> QED BY <1>1, <1>3, <1>4, <1>5 DEF BatchInv

\* The same where no attempt changes.
LEMMA RunnerMovesAlone ==
    ASSUME BatchInv, NEW r \in Runners, NEW p \in Places, NEW s \in BOOLEAN,
           NEW T \in SUBSET (Cases \X Nat),
           UNCHANGED tries,
           main' = [main EXCEPT ![r] = p],
           stop' = [stop EXCEPT ![r] = s],
           todo' = [todo EXCEPT ![r] = T],
           lock' \in Runners \cup {Nobody},
           lock' = r <=> p \in Holding,
           \A q \in Runners \ {r} : lock' = q <=> lock = q,
           command' \in [Runners -> {"new", "resume", "rerun", "summarize"}],
           command' = command \/ (T = {} /\ \A q \in Runners \ {r} : command'[q] = command[q]),
           faults' \in Nat,
           T # {} => p \in InSession,
           p \in {"interrupted", "stopping", "draining"} => s,
           \A a \in T : Ready(r, a),
           \/ Busy(r) = {}
           \/ /\ p \in InSession /\ (stop[r] => s)
              /\ p \in {"stopping", "draining"} => main[r] \in {"stopping", "draining"}
    PROVE  BatchInv'
  <1>0. BatchTypes /\ AttemptsSound BY DEF BatchInv
  <1>1. \A a \in Busy(r) : /\ tries'[a[1]][a[2]].by = r
                           /\ SoundAt(tries'[a[1]][a[2]], p, s)
    <2> SUFFICES ASSUME NEW a \in Busy(r)
                 PROVE  Try(a).by = r /\ SoundAt(Try(a), p, s)
      BY DEF Try
    <2>1. a \in All /\ Try(a).by = r BY DEF Busy
    <2>2. SoundAt(Try(a), main[r], stop[r])
      BY <1>0, <2>1 DEF AttemptsSound, AttemptSound
    <2>3. /\ p \in InSession /\ (stop[r] => s)
          /\ p \in {"stopping", "draining"} => main[r] \in {"stopping", "draining"}
      OBVIOUS
    <2> QED BY <2>1, <2>2, <2>3 DEF SoundAt
  <1>2. /\ tries' \in [Cases -> Seq(Attempts)]
        /\ \A c \in Cases : Len(tries'[c]) = Len(tries[c])
        /\ \A c \in Cases : \A n \in Numbers(c) :
              <<c, n>> \notin Busy(r) => tries'[c][n] = tries[c][n]
    BY <1>0 DEF BatchTypes
  <1> QED BY <1>1, <1>2, RunnerMoves

LEMMA MainStep ==
    ASSUME BatchInv, NEW r \in Runners,
           \/ Create(r) \/ LoadBatch(r) \/ Refused(r) \/ BeginSession(r)
           \/ Summarize(r) \/ Interrupt(r) \/ CancelQueued(r) \/ LoopFails(r)
           \/ EndSession(r) \/ Package(r) \/ Unwound(r)
    PROVE  BatchInv'
  <1>0. /\ BatchTypes /\ RunnersSound /\ TodoSound
        /\ lock \in Runners \cup {Nobody} /\ stop[r] \in BOOLEAN /\ faults \in Nat
        /\ todo[r] \in SUBSET (Cases \X Nat) /\ main[r] \in Places
        /\ command \in [Runners -> {"new", "resume", "rerun", "summarize"}]
        /\ stop = [stop EXCEPT ![r] = stop[r]] /\ todo = [todo EXCEPT ![r] = todo[r]]
        /\ \A a \in todo[r] : Ready(r, a)
    BY DEF BatchInv, BatchTypes, TodoSound, Places
  <1>h. /\ lock = r <=> main[r] \in Holding
        /\ Busy(r) # {} => main[r] \in InSession
        /\ todo[r] # {} => main[r] \in InSession
    BY OneHolder
  <1>1. CASE Create(r)
    <2>1. Busy(r) = {} /\ todo[r] = {} /\ lock # r
      BY <1>1, <1>h DEF Create, Holding, InSession
    <2>2. "loaded" \in Places \ Holding BY DEF Places, Holding, InSession
    <2> QED BY <1>0, <1>1, <2>1, <2>2, RunnerMovesAlone DEF Create
  <1>2. CASE LoadBatch(r)
    <2>1. Busy(r) = {} /\ todo[r] = {} /\ lock # r
      BY <1>2, <1>h DEF LoadBatch, Holding, InSession
    <2>2. "loaded" \in Places \ Holding BY DEF Places, Holding, InSession
    <2>3. /\ command' \in [Runners -> {"new", "resume", "rerun", "summarize"}]
          /\ \A q \in Runners \ {r} : command'[q] = command[q]
      BY <1>0, <1>2 DEF LoadBatch
    <2> QED BY <1>0, <1>2, <2>1, <2>2, <2>3, RunnerMovesAlone DEF LoadBatch
  <1>3. ASSUME Exits(r), Busy(r) = {}, UNCHANGED <<tries, faults>> PROVE BatchInv'
    <2>1. "gone" \in Places \ Holding BY DEF Places, Holding, InSession
    <2>2. /\ lock' \in Runners \cup {Nobody} /\ lock' # r
          /\ \A q \in Runners \ {r} : lock' = q <=> lock = q
      BY <1>0, <1>3, BatchAssumption DEF Exits
    <2> QED BY <1>0, <1>3, <2>1, <2>2, RunnerMovesAlone DEF Exits
  <1>4. CASE Refused(r)
    <2>1. Busy(r) = {} BY <1>4, <1>h DEF Refused, InSession
    <2> QED BY <1>3, <1>4, <2>1 DEF Refused
  <1>5. CASE BeginSession(r)
    <2>1. /\ Busy(r) = {} /\ lock = Nobody /\ lock' = r
      BY <1>5, <1>h DEF BeginSession, Lock, InSession
    <2>2. "looping" \in Places \cap InSession \cap Holding
      BY DEF Places, Holding, InSession
    <2>3. \A q \in Runners : lock # q BY <2>1, BatchAssumption
    <2>4. \A a \in All : Try(a).at \in {"over", "lost"}
      <3> SUFFICES ASSUME NEW a \in All PROVE Try(a).at \in {"over", "lost"} OBVIOUS
      <3>1. Try(a).by \in Runners BY <1>0, TryTyped DEF Attempts
      <3>2. Busy(Try(a).by) = {} BY <2>3, <3>1, OneHolder DEF Holding
      <3> QED BY <3>1, <3>2, OneHolder
    <2>5. Planned(r) \in SUBSET (Cases \X Nat) /\ \A a \in Planned(r) : Ready(r, a)
      <3> SUFFICES ASSUME NEW c \in Scheduled(r)
                   PROVE  /\ <<c, Len(tries[c]) + 1>> \in Cases \X Nat
                          /\ Ready(r, <<c, Len(tries[c]) + 1>>)
        BY DEF Planned
      <3>1. c \in Cases /\ Wanted(r, c) BY DEF Scheduled, Undecided, Wanted
      <3>2. Len(tries[c]) \in Nat BY <1>0, <3>1 DEF BatchTypes
      <3>3. \A n \in Numbers(c) : tries[c][n].at \in {"over", "lost"}
        <4> SUFFICES ASSUME NEW n \in Numbers(c)
                     PROVE  tries[c][n].at \in {"over", "lost"}
          OBVIOUS
        <4>1. <<c, n>> \in All BY <3>1, InAll
        <4> QED BY <2>4, <4>1 DEF Try
      <3> QED BY <3>1, <3>2, <3>3 DEF Ready
    <2> QED BY <1>0, <1>5, <2>1, <2>2, <2>3, <2>5, RunnerMovesAlone DEF BeginSession
  <1>6. CASE Summarize(r)
    <2>1. /\ Busy(r) = {} /\ todo[r] = {} /\ lock = Nobody /\ lock' = r
      BY <1>6, <1>h DEF Summarize, Lock, InSession
    <2>2. "packaging" \in Places \cap Holding BY DEF Places, Holding
    <2>3. \A q \in Runners : lock # q BY <2>1, BatchAssumption
    <2> QED BY <1>0, <1>6, <2>1, <2>2, <2>3, RunnerMovesAlone DEF Summarize
  <1>7. CASE Interrupt(r)
    <2>1. "interrupted" \in Places \cap InSession \cap Holding
      BY DEF Places, Holding, InSession
    <2>2. lock = r BY <1>7, <1>h, <2>1 DEF Interrupt, Holding, InSession
    <2> QED BY <1>0, <1>7, <2>1, <2>2, RunnerMovesAlone DEF Interrupt
  <1>8. CASE CancelQueued(r)
    <2>1. "draining" \in Places \cap InSession \cap Holding
      BY DEF Places, Holding, InSession
    <2>2. lock = r /\ stop[r]
      BY <1>0, <1>8, <1>h DEF CancelQueued, Holding, InSession, RunnersSound
    <2> DEFINE T == {}
    <2>3. /\ T \in SUBSET (Cases \X Nat) /\ todo' = [todo EXCEPT ![r] = T]
          /\ main' = [main EXCEPT ![r] = "draining"] /\ main[r] \in {"stopping", "draining"}
          /\ UNCHANGED <<lock, tries, command, stop, faults>>
      BY <1>8 DEF CancelQueued
    <2>4. /\ lock' \in Runners \cup {Nobody} /\ faults' \in Nat
          /\ command' \in [Runners -> {"new", "resume", "rerun", "summarize"}]
          /\ stop \in [Runners -> BOOLEAN]
      BY <1>0, <2>3 DEF BatchTypes
    <2>5. stop' = [stop EXCEPT ![r] = TRUE] BY <2>2, <2>3, <2>4
    <2>6. \/ Busy(r) = {}
          \/ "draining" \in InSession /\ (stop[r] => TRUE) /\ main[r] \in {"stopping", "draining"}
      BY <2>1, <2>3
    <2>7. /\ lock' = r <=> "draining" \in Holding
          /\ \A q \in Runners \ {r} : lock' = q <=> lock = q
          /\ \A a \in T : Ready(r, a)
      BY <2>1, <2>2, <2>3
    <2> HIDE DEF T
    <2> QED BY <2>1, <2>3, <2>4, <2>5, <2>6, <2>7, RunnerMovesAlone
  <1>9. CASE LoopFails(r)
    <2>1. "unwinding" \in Places \cap InSession \cap Holding
      BY DEF Places, Holding, InSession
    <2>2. lock = r BY <1>9, <1>h DEF LoopFails, Holding, InSession
    <2> DEFINE T == {}
    <2>3. /\ T \in SUBSET (Cases \X Nat) /\ todo' = [todo EXCEPT ![r] = T]
          /\ main' = [main EXCEPT ![r] = "unwinding"] /\ faults' \in Nat
          /\ UNCHANGED <<lock, tries, command, stop>>
      BY <1>0, <1>9 DEF LoopFails, Fault
    <2> QED BY <1>0, <2>1, <2>2, <2>3, RunnerMovesAlone
  <1>10. CASE EndSession(r)
    <2>1. "packaging" \in Places \cap Holding BY DEF Places, Holding
    <2>2. lock = r /\ Busy(r) = {} /\ todo[r] = {}
      BY <1>10, <1>h DEF EndSession, Drained, Holding, InSession
    <2> QED BY <1>0, <1>10, <2>1, <2>2, RunnerMovesAlone DEF EndSession
  <1>11. CASE Package(r)
    <2>1. Busy(r) = {} BY <1>11, <1>h DEF Package, InSession
    <2> QED BY <1>3, <1>11, <2>1 DEF Package
  <1>12. CASE Unwound(r)
    BY <1>3, <1>12 DEF Unwound, Drained
  <1> QED
    BY <1>1, <1>2, <1>4, <1>5, <1>6, <1>7, <1>8, <1>9, <1>10, <1>11, <1>12

-----------------------------------------------------------------------------
(* The main thread tells its children, or dies and leaves them behind.     *)

\* What Tell makes of one attempt.
Told(r, a, what) ==
    IF a \in Alive(r) /\ Try(a).told # "kill" THEN [Try(a) EXCEPT !.told = what] ELSE Try(a)

LEMMA TellStep ==
    ASSUME BatchInv, NEW r \in Runners, NEW what \in {"stop", "kill"}, Tell(r, what)
    PROVE  /\ tries' \in [Cases -> Seq(Attempts)]
           /\ \A c \in Cases : Len(tries'[c]) = Len(tries[c])
           /\ \A c \in Cases : \A n \in Numbers(c) : tries'[c][n] = Told(r, <<c, n>>, what)
           /\ \A a \in All : tries'[a[1]][a[2]] = Told(r, a, what)
  <1>0. BatchTypes BY DEF BatchInv
  <1> DEFINE g == [a \in All |-> Told(r, a, what)]
  <1>1. g \in [All -> Attempts]
    <2> SUFFICES ASSUME NEW a \in All PROVE Told(r, a, what) \in Attempts OBVIOUS
    <2>1. Try(a) \in Attempts BY <1>0, TryTyped
    <2>2. [Try(a) EXCEPT !.told = what] \in Attempts BY <2>1 DEF Attempts
    <2> QED BY <2>1, <2>2 DEF Told
  <1>2. \A c \in Cases : \A n \in Numbers(c) :
           <<c, n>> \in All /\ g[<<c, n>>] = Told(r, <<c, n>>, what)
    BY InAll
  <1>3. tries' = [c \in Cases |-> [n \in Numbers(c) |-> g[<<c, n>>]]]
    <2> DEFINE f(c, n) == IF <<c, n>> \in Alive(r) /\ tries[c][n].told # "kill"
                          THEN [tries[c][n] EXCEPT !.told = what] ELSE tries[c][n]
    <2>1. tries' = [c \in Cases |-> [n \in Numbers(c) |-> f(c, n)]]
      BY DEF Tell
    <2>2. \A c \in Cases : \A n \in Numbers(c) : f(c, n) = g[<<c, n>>]
      BY <1>2 DEF Told, Try
    <2> HIDE DEF f, g
    <2> QED BY <2>1, <2>2
  <1>4. /\ tries' \in [Cases -> Seq(Attempts)]
        /\ \A c \in Cases : Len(tries'[c]) = Len(tries[c])
        /\ \A c \in Cases : \A n \in Numbers(c) : tries'[c][n] = g[<<c, n>>]
    <2> HIDE DEF g
    <2> QED BY <1>0, <1>1, <1>3, SetEach
  <1>5. \A c \in Cases : \A n \in Numbers(c) : tries'[c][n] = Told(r, <<c, n>>, what)
    BY <1>2, <1>4
  <1>6. \A a \in All : tries'[a[1]][a[2]] = Told(r, a, what)
    <2> SUFFICES ASSUME NEW a \in All PROVE tries'[a[1]][a[2]] = Told(r, a, what) OBVIOUS
    <2>1. a[1] \in Cases /\ a[2] \in Numbers(a[1]) /\ a = <<a[1], a[2]>>
      BY <1>0, TryTyped DEF Numbers
    <2>2. tries'[a[1]][a[2]] = Told(r, <<a[1], a[2]>>, what) BY <1>5, <2>1
    <2> QED BY <2>1, <2>2
  <1> QED BY <1>4, <1>5, <1>6

LEMMA TellingStep ==
    ASSUME BatchInv, NEW r \in Runners, RequestStop(r) \/ KillAll(r)
    PROVE  BatchInv'
  <1>0. /\ BatchTypes /\ RunnersSound /\ AttemptsSound /\ TodoSound
        /\ stop[r] \in BOOLEAN /\ faults \in Nat /\ lock \in Runners \cup {Nobody}
        /\ todo[r] \in SUBSET (Cases \X Nat)
        /\ command \in [Runners -> {"new", "resume", "rerun", "summarize"}]
        /\ stop = [stop EXCEPT ![r] = stop[r]] /\ todo = [todo EXCEPT ![r] = todo[r]]
        /\ main = [main EXCEPT ![r] = main[r]]
        /\ \A a \in todo[r] : Ready(r, a)
    BY DEF BatchInv, BatchTypes, TodoSound
  <1>1. PICK p \in {"interrupted", "stopping", "draining"},
             what \in {"stop", "kill"} :
           /\ main' = [main EXCEPT ![r] = p] /\ Tell(r, what) /\ ~ContextLocked(r)
           /\ UNCHANGED <<lock, command, todo, stop, faults>>
           /\ p \in {"stopping", "draining"} => main[r] = p \/ what = "stop"
           /\ main[r] \in {"interrupted", "stopping", "draining"}
    <2>1. CASE RequestStop(r) BY <2>1 DEF RequestStop
    <2>2. CASE KillAll(r) BY <1>0, <2>2 DEF KillAll, mainVars
    <2> QED BY <2>1, <2>2
  <1>2. p \in Places \cap Holding \cap InSession BY DEF Places, Holding, InSession
  <1>3. lock = r /\ stop[r]
    BY <1>0, <1>1 DEF RunnersSound, Holding, InSession
  <1>4. /\ tries' \in [Cases -> Seq(Attempts)]
        /\ \A c \in Cases : Len(tries'[c]) = Len(tries[c])
        /\ \A c \in Cases : \A n \in Numbers(c) : tries'[c][n] = Told(r, <<c, n>>, what)
        /\ \A a \in All : tries'[a[1]][a[2]] = Told(r, a, what)
    BY <1>1, TellStep
  <1>5. \A c \in Cases : \A n \in Numbers(c) :
           <<c, n>> \notin Busy(r) => tries'[c][n] = tries[c][n]
    BY <1>4 DEF Told, Alive, Try
  <1>6. \A a \in Busy(r) : /\ tries'[a[1]][a[2]].by = r
                           /\ SoundAt(tries'[a[1]][a[2]], p, stop[r])
    <2> SUFFICES ASSUME NEW a \in Busy(r)
                 PROVE  Told(r, a, what).by = r /\ SoundAt(Told(r, a, what), p, stop[r])
      BY <1>4 DEF Busy
    <2> DEFINE t == Try(a)
    <2>1. a \in All /\ t.by = r /\ t.at \in AtWork BY OneHolder DEF Busy
    <2>2. t \in Attempts /\ SoundAt(t, main[r], stop[r])
      BY <1>0, <2>1, TryTyped DEF AttemptsSound, AttemptSound
    <2>3. t.at # "spawning" BY <1>1 DEF ContextLocked
    <2> HIDE DEF t
    <2>4. CASE t.proc = "alive" /\ t.told # "kill"
      <3> DEFINE u == [t EXCEPT !.told = what]
      <3>1. /\ u.by = t.by /\ u.at = t.at /\ u.status = t.status /\ u.proc = t.proc
            /\ u.stopSeen = t.stopSeen /\ u.child = t.child /\ u.told = what
        BY <2>2 DEF Attempts
      <3>2. Told(r, a, what) = u BY <2>4 DEF Told, Alive, t
      <3>3. t.at = "waiting" BY <2>1, <2>2, <2>4 DEF SoundAt, AtWork
      <3> HIDE DEF u
      <3>4. SoundAt(u, p, stop[r])
        BY <1>2, <1>3, <2>1, <2>2, <2>3, <3>1, <3>3 DEF SoundAt
      <3> QED BY <2>1, <3>1, <3>2, <3>4
    <2>5. CASE ~(t.proc = "alive" /\ t.told # "kill")
      <3>1. Told(r, a, what) = t BY <2>5 DEF Told, Alive, t
      <3>2. SoundAt(t, p, stop[r])
        BY <1>2, <1>3, <2>2, <2>3, <2>5 DEF SoundAt
      <3> QED BY <2>1, <3>1, <3>2
    <2> QED BY <2>4, <2>5
  <1> DEFINE s == stop[r]
             T == todo[r]
  <1>7. /\ s \in BOOLEAN /\ T \in SUBSET (Cases \X Nat) /\ s /\ p \in Places
        /\ main' = [main EXCEPT ![r] = p] /\ stop' = [stop EXCEPT ![r] = s]
        /\ todo' = [todo EXCEPT ![r] = T]
        /\ \A a \in T : Ready(r, a)
        /\ \A a \in Busy(r) : /\ tries'[a[1]][a[2]].by = r
                              /\ SoundAt(tries'[a[1]][a[2]], p, s)
    BY <1>0, <1>1, <1>2, <1>3, <1>6
  <1>8. lock' = lock /\ command' = command /\ faults' = faults BY <1>1
  <1> HIDE DEF s, T
  <1>9. /\ lock' \in Runners \cup {Nobody} /\ faults' \in Nat
        /\ command' \in [Runners -> {"new", "resume", "rerun", "summarize"}]
        /\ lock' = r <=> p \in Holding
        /\ T # {} => p \in InSession
    BY <1>0, <1>2, <1>3, <1>7, <1>8 DEF BatchTypes
  <1> QED BY <1>4, <1>5, <1>7, <1>8, <1>9, RunnerMoves

\* What a kill leaves of one attempt.
Left(r, a) == IF a \in Busy(r) THEN Orphaned(Try(a)) ELSE Try(a)

LEMMA KillLeaves ==
    ASSUME BatchInv, NEW r \in Runners, Kill(r)
    PROVE  /\ tries' \in [Cases -> Seq(Attempts)]
           /\ \A c \in Cases : Len(tries'[c]) = Len(tries[c])
           /\ \A c \in Cases : \A n \in Numbers(c) : tries'[c][n] = Left(r, <<c, n>>)
           /\ \A a \in All : tries'[a[1]][a[2]] = Left(r, a)
  <1>0. BatchTypes BY DEF BatchInv
  <1> DEFINE g == [a \in All |-> Left(r, a)]
  <1>1. g \in [All -> Attempts]
    <2> SUFFICES ASSUME NEW a \in All PROVE Left(r, a) \in Attempts OBVIOUS
    <2>1. Try(a) \in Attempts BY <1>0, TryTyped
    <2> QED BY <2>1, Leaves DEF Left
  <1>2. \A c \in Cases : \A n \in Numbers(c) :
           <<c, n>> \in All /\ g[<<c, n>>] = Left(r, <<c, n>>)
    BY InAll
  <1>3. tries' = [c \in Cases |-> [n \in Numbers(c) |-> g[<<c, n>>]]]
    <2> DEFINE f(c, n) == IF <<c, n>> \in Busy(r) THEN Orphaned(tries[c][n]) ELSE tries[c][n]
    <2>1. tries' = [c \in Cases |-> [n \in Numbers(c) |-> f(c, n)]]
      BY DEF Kill
    <2>2. \A c \in Cases : \A n \in Numbers(c) : f(c, n) = g[<<c, n>>]
      BY <1>2 DEF Left, Try
    <2> HIDE DEF f, g
    <2> QED BY <2>1, <2>2
  <1>4. /\ tries' \in [Cases -> Seq(Attempts)]
        /\ \A c \in Cases : Len(tries'[c]) = Len(tries[c])
        /\ \A c \in Cases : \A n \in Numbers(c) : tries'[c][n] = g[<<c, n>>]
    <2> HIDE DEF g
    <2> QED BY <1>0, <1>1, <1>3, SetEach
  <1>5. \A c \in Cases : \A n \in Numbers(c) : tries'[c][n] = Left(r, <<c, n>>)
    BY <1>2, <1>4
  <1>6. \A a \in All : tries'[a[1]][a[2]] = Left(r, a)
    <2> SUFFICES ASSUME NEW a \in All PROVE tries'[a[1]][a[2]] = Left(r, a) OBVIOUS
    <2>1. a[1] \in Cases /\ a[2] \in Numbers(a[1]) /\ a = <<a[1], a[2]>>
      BY <1>0, TryTyped DEF Numbers
    <2>2. tries'[a[1]][a[2]] = Left(r, <<a[1], a[2]>>) BY <1>5, <2>1
    <2> QED BY <2>1, <2>2
  <1> QED BY <1>4, <1>5, <1>6

LEMMA KillStep ==
    ASSUME BatchInv, NEW r \in Runners, Kill(r)
    PROVE  BatchInv'
  <1>0. /\ BatchTypes /\ RunnersSound /\ AttemptsSound /\ TodoSound /\ faults \in Nat
        /\ lock \in Runners \cup {Nobody}
        /\ command \in [Runners -> {"new", "resume", "rerun", "summarize"}]
    BY DEF BatchInv, BatchTypes
  <1>4. /\ tries' \in [Cases -> Seq(Attempts)]
        /\ \A c \in Cases : Len(tries'[c]) = Len(tries[c])
        /\ \A c \in Cases : \A n \in Numbers(c) : tries'[c][n] = Left(r, <<c, n>>)
        /\ \A a \in All : tries'[a[1]][a[2]] = Left(r, a)
    BY KillLeaves
  <1>5. \A c \in Cases : \A n \in Numbers(c) :
           <<c, n>> \notin Busy(r) => tries'[c][n] = tries[c][n]
    BY <1>4 DEF Left, Try
  <1>6. \A a \in Busy(r) : /\ tries'[a[1]][a[2]].by = r
                           /\ SoundAt(tries'[a[1]][a[2]], "gone", FALSE)
    <2> SUFFICES ASSUME NEW a \in Busy(r)
                 PROVE  /\ tries'[a[1]][a[2]].by = r
                        /\ SoundAt(tries'[a[1]][a[2]], "gone", FALSE)
      OBVIOUS
    <2> DEFINE t == Try(a)
    <2>1. a \in All /\ t.by = r /\ t.at \in AtWork BY OneHolder DEF Busy
    <2>2. t \in Attempts /\ a[1] \in Cases /\ a[2] \in Numbers(a[1]) /\ a = <<a[1], a[2]>>
      BY <1>0, <2>1, TryTyped DEF Numbers
    <2>3. tries'[a[1]][a[2]] = Orphaned(t) BY <1>4, <2>1 DEF Left
    <2>4. t.status = "running"
      BY <1>0, <2>1 DEF AttemptsSound, AttemptSound, SoundAt, AtWork
    <2>5. Orphaned(t).by = t.by BY DEF Orphaned, NewTry
    <2>6. SoundAt(Orphaned(t), "gone", FALSE)
      BY <2>2, <2>4 DEF SoundAt, Orphaned, NewTry, AtWork, Attempts
    <2> QED BY <2>1, <2>3, <2>5, <2>6
  <1>7. /\ "gone" \in Places \ Holding /\ "gone" \notin InSession
        /\ {} \in SUBSET (Cases \X Nat) /\ FALSE \in BOOLEAN
    BY DEF Places, Holding, InSession
  <1>8. /\ lock' \in Runners \cup {Nobody} /\ lock' # r
        /\ \A q \in Runners \ {r} : lock' = q <=> lock = q
        /\ main' = [main EXCEPT ![r] = "gone"] /\ todo' = [todo EXCEPT ![r] = {}]
        /\ stop' = [stop EXCEPT ![r] = FALSE] /\ command' = command /\ faults' \in Nat
    BY <1>0, BatchAssumption DEF Kill, Exits, Fault
  <1> QED BY <1>0, <1>4, <1>5, <1>6, <1>7, <1>8, RunnerMoves

-----------------------------------------------------------------------------
(* A thread takes a future: an attempt is added.                           *)

LEMMA StartAdds ==
    ASSUME BatchInv, NEW r \in Runners, NEW a \in todo[r],
           tries' = IF a[2] \in Numbers(a[1]) THEN tries
                    ELSE [tries EXCEPT ![a[1]] = Append(@, NewTry(r))]
    PROVE  /\ a[1] \in Cases /\ a = <<a[1], Len(tries[a[1]]) + 1>>
           /\ Ready(r, a)
           /\ tries' \in [Cases -> Seq(Attempts)]
           /\ Len(tries'[a[1]]) = Len(tries[a[1]]) + 1
           /\ tries'[a[1]][Len(tries[a[1]]) + 1] = NewTry(r)
           /\ \A n \in Numbers(a[1]) : tries'[a[1]][n] = tries[a[1]][n]
           /\ \A c \in Cases \ {a[1]} : tries'[c] = tries[c]
  <1>0. BatchTypes /\ TodoSound BY DEF BatchInv
  <1>1. a \in Cases \X Nat BY <1>0 DEF BatchTypes
  <1>2. Ready(r, a) BY <1>0 DEF TodoSound
  <1>3. tries[a[1]] \in Seq(Attempts) /\ tries \in [Cases -> Seq(Attempts)]
    BY <1>0, <1>1 DEF BatchTypes
  <1>4. a[2] \notin Numbers(a[1]) BY <1>2, <1>3 DEF Ready, Numbers
  <1>5. NewTry(r) \in Attempts BY NewTryTyped
  <1>6. tries' = [tries EXCEPT ![a[1]] = Append(tries[a[1]], NewTry(r))]
    BY <1>4
  <1>7. /\ Append(tries[a[1]], NewTry(r)) \in Seq(Attempts)
        /\ Len(Append(tries[a[1]], NewTry(r))) = Len(tries[a[1]]) + 1
        /\ Append(tries[a[1]], NewTry(r))[Len(tries[a[1]]) + 1] = NewTry(r)
        /\ \A n \in 1..Len(tries[a[1]]) :
              Append(tries[a[1]], NewTry(r))[n] = tries[a[1]][n]
    BY <1>3, <1>5, AppendProperties
  <1>8. a = <<a[1], Len(tries[a[1]]) + 1>> BY <1>1, <1>2 DEF Ready
  <1>9. a[1] \in Cases BY <1>1
  <1>10. tries'[a[1]] = Append(tries[a[1]], NewTry(r)) BY <1>3, <1>6, <1>9
  <1>11. \A c \in Cases \ {a[1]} : tries'[c] = tries[c] BY <1>3, <1>6
  <1>12. tries' \in [Cases -> Seq(Attempts)] BY <1>3, <1>6, <1>7
  <1> QED
    BY <1>2, <1>7, <1>8, <1>9, <1>10, <1>11, <1>12 DEF Numbers

LEMMA StartStep ==
    ASSUME BatchInv, NEW r \in Runners, StartAttempt(r)
    PROVE  BatchInv'
  <1>0. BatchTypes /\ RunnersSound /\ AttemptsSound /\ TodoSound BY DEF BatchInv
  <1>1. PICK a \in todo[r] :
           /\ todo' = [todo EXCEPT ![r] = @ \ {a}]
           /\ tries' = IF a[2] \in Numbers(a[1]) THEN tries
                       ELSE [tries EXCEPT ![a[1]] = Append(@, NewTry(r))]
           /\ UNCHANGED <<manifest, lock, main, command, copy, stop, faults>>
    BY DEF StartAttempt
  <1>2. /\ a[1] \in Cases /\ a = <<a[1], Len(tries[a[1]]) + 1>>
        /\ Ready(r, a)
        /\ tries' \in [Cases -> Seq(Attempts)]
        /\ Len(tries'[a[1]]) = Len(tries[a[1]]) + 1
        /\ tries'[a[1]][Len(tries[a[1]]) + 1] = NewTry(r)
        /\ \A n \in Numbers(a[1]) : tries'[a[1]][n] = tries[a[1]][n]
        /\ \A c \in Cases \ {a[1]} : tries'[c] = tries[c]
    BY <1>1, StartAdds
  <1>3. /\ todo'[r] = todo[r] \ {a} /\ \A q \in Runners \ {r} : todo'[q] = todo[q]
        /\ todo' \in [Runners -> SUBSET (Cases \X Nat)]
    BY <1>0, <1>1 DEF BatchTypes
  <1>4. main[r] \in InSession /\ lock = r
    BY <1>1, OneHolder DEF Holding
  <1>5. BatchTypes' BY <1>0, <1>1, <1>2, <1>3 DEF BatchTypes
  <1>6. RunnersSound'
    <2> SUFFICES ASSUME NEW q \in Runners
                 PROVE  /\ lock = q <=> main[q] \in Holding
                        /\ todo'[q] # {} => main[q] \in InSession
                        /\ main[q] \in {"interrupted", "stopping", "draining"} => stop[q]
      BY <1>1 DEF RunnersSound
    <2>1. CASE q = r BY <1>0, <1>4, <2>1 DEF RunnersSound
    <2>2. CASE q # r BY <1>0, <1>3, <2>2 DEF RunnersSound
    <2> QED BY <2>1, <2>2
  <1>7. AttemptsSound'
    <2> SUFFICES ASSUME NEW b \in All' PROVE AttemptSound(Try(b))'
      BY DEF AttemptsSound
    <2>1. PICK c \in Cases : \E n \in 1..Len(tries'[c]) : b = <<c, n>> BY DEF All, Numbers
    <2>2. PICK n \in 1..Len(tries'[c]) : b = <<c, n>> BY <2>1
    <2>3. Try(b)' = tries'[c][n] BY <2>2 DEF Try
    <2>4. CASE n \in Numbers(c)
      <3>1. b \in All BY <2>2, <2>4, InAll
      <3>2. tries'[c][n] = tries[c][n] BY <1>2, <2>4
      <3>3. Try(b)' = Try(b) BY <2>2, <2>3, <3>2 DEF Try
      <3>4. AttemptSound(Try(b)) BY <1>0, <3>1 DEF AttemptsSound
      <3> QED BY <1>1, <3>3, <3>4 DEF AttemptSound
    <2>5. CASE n \notin Numbers(c)
      <3>0. Len(tries[a[1]]) \in Nat BY <1>0, <1>2 DEF BatchTypes
      <3>1. c = a[1] /\ n = Len(tries[a[1]]) + 1
        BY <1>2, <2>5, <3>0 DEF Numbers
      <3>2. Try(b)' = NewTry(r) BY <1>2, <2>3, <3>1
      <3>3. SoundAt(NewTry(r), main[r], stop[r]) BY <1>4 DEF SoundAt, NewTry
      <3>4. NewTry(r).by = r BY DEF NewTry
      <3> QED BY <1>1, <3>2, <3>3, <3>4 DEF AttemptSound
    <2> QED BY <2>4, <2>5
  <1>8. TodoSound'
    <2> SUFFICES ASSUME NEW q \in Runners, NEW b \in todo'[q] PROVE Ready(q, b)'
      BY DEF TodoSound
    <2>1. q = r
      <3>1. CASE q # r
        <4>1. todo[q] # {} BY <1>3, <3>1
        <4> QED BY <1>4, <3>1, <4>1, OneHolder DEF Holding
      <3> QED BY <3>1
    <2>2. b \in todo[r] /\ b # a BY <1>3, <2>1
    <2>3. b \in Cases \X Nat /\ Ready(r, b) BY <1>0, <2>2 DEF BatchTypes, TodoSound
    <2>4. b[1] # a[1] BY <1>2, <2>2, <2>3 DEF Ready
    <2>5. tries'[b[1]] = tries[b[1]] BY <1>2, <2>3, <2>4
    <2>6. CaseStatus(b[1])' = CaseStatus(b[1])
      BY <2>5 DEF CaseStatus
    <2> QED BY <1>1, <2>1, <2>3, <2>5, <2>6 DEF Ready, Wanted, Numbers
  <1> QED BY <1>5, <1>6, <1>7, <1>8 DEF BatchInv

-----------------------------------------------------------------------------
THEOREM BatchAlways == BatchSpec => []BatchInv
  <1>1. BatchInit => BatchInv
    <2> SUFFICES ASSUME BatchInit PROVE BatchInv OBVIOUS
    <2>1. \A c \in Cases : Numbers(c) = {} BY DEF BatchInit, Numbers
    <2>2. All = {} BY <2>1 DEF All
    <2>3. BatchTypes BY DEF BatchInit, BatchTypes
    <2>4. RunnersSound
      BY BatchAssumption DEF BatchInit, RunnersSound, Holding, InSession
    <2> QED BY <2>2, <2>3, <2>4 DEF BatchInit, BatchInv, AttemptsSound, TodoSound
  <1>2. BatchInv /\ [BatchNext]_batchVars => BatchInv'
    <2> SUFFICES ASSUME BatchInv, [BatchNext]_batchVars PROVE BatchInv' OBVIOUS
    <2>1. ASSUME NEW r \in Runners,
                 \/ Create(r) \/ LoadBatch(r) \/ MainSteps(r)
                 \/ Interrupt(r) \/ KillAll(r) \/ LoopFails(r) \/ Kill(r)
                 \/ StartAttempt(r)
          PROVE  BatchInv'
      BY <2>1, MainStep, TellingStep, KillStep, StartStep DEF MainSteps
    <2>2. ASSUME NEW a \in All, ThreadSteps(a) \/ ChildEnds(a) \/ Damage(a)
          PROVE  BatchInv'
      BY <2>2, ThreadStep
    <2>3. CASE UNCHANGED batchVars
      BY <2>3
      DEF batchVars, BatchInv, BatchTypes, RunnersSound, AttemptsSound, AttemptSound, TodoSound,
          Ready, Wanted, CaseStatus, Revalidated, All, Try, Numbers
    <2> QED BY <2>1, <2>2, <2>3 DEF BatchNext
  <1> QED BY <1>1, <1>2, PTL DEF BatchSpec

-----------------------------------------------------------------------------
(* What a step does to the attempts' number and status.                    *)

LEMMA SetKeeps ==
    ASSUME BatchInv, NEW a \in All, NEW t, Set(a, t)
    PROVE  /\ \A c \in Cases : Len(tries'[c]) = Len(tries[c])
           /\ tries'[a[1]][a[2]] = t
           /\ \A b \in All \ {a} : tries'[b[1]][b[2]] = Try(b)
  <1>0. BatchTypes BY DEF BatchInv
  <1>1. \A b \in All : /\ b[1] \in Cases /\ b[2] \in 1..Len(tries[b[1]])
                       /\ b = <<b[1], b[2]>>
    BY <1>0, TryTyped
  <1>2. tries \in [Cases -> Seq(Attempts)] BY <1>0 DEF BatchTypes
  <1>3. tries' = [tries EXCEPT ![a[1]] = [tries[a[1]] EXCEPT ![a[2]] = t]]
    BY DEF Set
  <1>4. Len([tries[a[1]] EXCEPT ![a[2]] = t]) = Len(tries[a[1]])
    <2>1. tries[a[1]] \in Seq(Attempts \cup {t}) /\ a[2] \in 1..Len(tries[a[1]])
      BY <1>1, <1>2, SeqDef
    <2> QED BY <2>1
  <1>5. \A c \in Cases : Len(tries'[c]) = Len(tries[c]) BY <1>1, <1>2, <1>3, <1>4
  <1>6. tries'[a[1]][a[2]] = t BY <1>1, <1>2, <1>3
  <1>7. ASSUME NEW b \in All \ {a} PROVE tries'[b[1]][b[2]] = Try(b)
    <2>1. CASE b[1] = a[1]
      <3>1. b[2] # a[2] BY <1>1, <2>1
      <3> QED BY <1>1, <1>2, <1>3, <2>1, <3>1 DEF Try
    <2>2. CASE b[1] # a[1] BY <1>1, <1>2, <1>3, <2>2 DEF Try
    <2> QED BY <2>1, <2>2
  <1> QED BY <1>5, <1>6, <1>7

\* Attempts are only added by the threads that start them, and their status
\* only set by those that end them.
LEMMA StatusStep ==
    ASSUME BatchInv, BatchNext
    PROVE  /\ \/ \E r \in Runners : StartAttempt(r)
              \/ \A c \in Cases : Len(tries'[c]) = Len(tries[c])
           /\ \A a \in All :
                 \/ tries'[a[1]][a[2]].status = Try(a).status
                 \/ Record(a) \/ AttemptRaises(a)
  <1>0. BatchTypes /\ AttemptsSound BY DEF BatchInv
  <1> DEFINE Kept == /\ \A c \in Cases : Len(tries'[c]) = Len(tries[c])
                     /\ \A a \in All : tries'[a[1]][a[2]].status = Try(a).status
  <1>1. ASSUME UNCHANGED tries PROVE Kept BY <1>1 DEF Try
  <1>2. ASSUME NEW r \in Runners,
               \/ Create(r) \/ LoadBatch(r) \/ Refused(r) \/ BeginSession(r)
               \/ Summarize(r) \/ Interrupt(r) \/ CancelQueued(r) \/ LoopFails(r)
               \/ EndSession(r) \/ Package(r) \/ Unwound(r)
        PROVE  Kept
    <2>1. UNCHANGED tries
      BY <1>2
      DEF Create, LoadBatch, Refused, BeginSession, Summarize, Interrupt, CancelQueued,
          LoopFails, EndSession, Package, Unwound
    <2> QED BY <1>1, <2>1
  <1>3. ASSUME NEW r \in Runners, NEW what \in {"stop", "kill"}, Tell(r, what)
        PROVE  Kept
    <2>1. /\ \A c \in Cases : Len(tries'[c]) = Len(tries[c])
          /\ \A a \in All : tries'[a[1]][a[2]] = Told(r, a, what)
      BY <1>3, TellStep
    <2>2. ASSUME NEW a \in All PROVE Told(r, a, what).status = Try(a).status
      <3>1. Try(a) \in Attempts BY <1>0, TryTyped
      <3> QED BY <3>1 DEF Told, Attempts
    <2> QED BY <2>1, <2>2
  <1>4. ASSUME NEW r \in Runners, Kill(r) PROVE Kept
    <2>1. /\ \A c \in Cases : Len(tries'[c]) = Len(tries[c])
          /\ \A a \in All : tries'[a[1]][a[2]] = Left(r, a)
      BY <1>4, KillLeaves
    <2>2. ASSUME NEW a \in All PROVE Left(r, a).status = Try(a).status
      BY <1>0, TryTyped, Leaves DEF Left
    <2> QED BY <2>1, <2>2
  <1>5. ASSUME NEW r \in Runners, StartAttempt(r)
        PROVE  \A a \in All : tries'[a[1]][a[2]].status = Try(a).status
    <2>1. PICK a \in todo[r] :
             tries' = IF a[2] \in Numbers(a[1]) THEN tries
                      ELSE [tries EXCEPT ![a[1]] = Append(@, NewTry(r))]
      BY <1>5 DEF StartAttempt
    <2>2. /\ \A n \in Numbers(a[1]) : tries'[a[1]][n] = tries[a[1]][n]
          /\ \A c \in Cases \ {a[1]} : tries'[c] = tries[c]
      BY <2>1, StartAdds
    <2>3. \A b \in All : b[1] \in Cases /\ b[2] \in Numbers(b[1])
      BY <1>0, TryTyped DEF Numbers
    <2> QED BY <2>2, <2>3 DEF Try
  <1>6. ASSUME NEW a \in All, ThreadSteps(a) \/ ChildEnds(a) \/ Damage(a)
        PROVE  /\ \A c \in Cases : Len(tries'[c]) = Len(tries[c])
               /\ \A b \in All : \/ tries'[b[1]][b[2]].status = Try(b).status
                                 \/ b = a /\ (Record(a) \/ AttemptRaises(a))
    <2> DEFINE t == Try(a)
    <2>0. t \in Attempts BY <1>0, TryTyped
    <2>1. ASSUME NEW u, Set(a, u), u.status = t.status \/ Record(a) \/ AttemptRaises(a)
          PROVE  /\ \A c \in Cases : Len(tries'[c]) = Len(tries[c])
                 /\ \A b \in All : \/ tries'[b[1]][b[2]].status = Try(b).status
                                   \/ b = a /\ (Record(a) \/ AttemptRaises(a))
      <3>1. /\ \A c \in Cases : Len(tries'[c]) = Len(tries[c])
            /\ tries'[a[1]][a[2]] = u
            /\ \A b \in All \ {a} : tries'[b[1]][b[2]] = Try(b)
        BY <2>1, SetKeeps
      <3> QED BY <2>1, <3>1
    <2>2. \E u : Set(a, u) /\ (u.status = t.status \/ Record(a) \/ AttemptRaises(a))
      <3>1. CASE EnterSpawn(a) BY <2>0, <3>1 DEF EnterSpawn, Attempts
      <3>2. CASE Spawn(a)
        <4> DEFINE u == [t EXCEPT !.at = "waiting", !.proc = "alive", !.told = "nothing"]
        <4>1. u.status = t.status BY <2>0 DEF Attempts
        <4>2. Set(a, u) BY <3>2 DEF Spawn
        <4> QED BY <4>1, <4>2
      <3>3. CASE SpawnRefused(a)
        <4> DEFINE u == [t EXCEPT !.at = "reaped", !.stopSeen = TRUE, !.proc = "none"]
        <4>1. u.status = t.status BY <2>0 DEF Attempts
        <4>2. Set(a, u) BY <3>3 DEF SpawnRefused
        <4> QED BY <4>1, <4>2
      <3>4. CASE Reap(a)
        <4> DEFINE seen == [t EXCEPT !.stopSeen = stop[t.by]]
                   u == IF t.child = "git" /\ t.proc = "ok"
                        THEN [t EXCEPT !.child = "run", !.at = "free", !.proc = "none"]
                        ELSE [seen EXCEPT !.at = "reaped"]
        <4>1. u.status = t.status BY <2>0 DEF Attempts
        <4>2. Set(a, u) BY <3>4 DEF Reap
        <4> QED BY <4>1, <4>2
      <3>5. CASE Record(a) BY <3>5 DEF Record
      <3>6. CASE RecordFails(a) BY <2>0, <3>6, Leaves DEF RecordFails
      <3>7. CASE AttemptRaises(a) BY <3>7 DEF AttemptRaises
      <3>8. CASE ChildEnds(a)
        <4>1. PICK p \in {"ok", "failed"}, w \in Outcomes \cup {"none"} :
                 Set(a, IF t.at = "lost"
                        THEN Orphaned([t EXCEPT !.proc = "none", !.trace = w])
                        ELSE [t EXCEPT !.proc = p, !.trace = w])
          BY <3>8 DEF ChildEnds
        <4>2. /\ [t EXCEPT !.proc = "none", !.trace = w] \in Attempts
              /\ [t EXCEPT !.proc = "none", !.trace = w].status = t.status
              /\ [t EXCEPT !.proc = p, !.trace = w].status = t.status
          BY <2>0 DEF Attempts
        <4>3. Orphaned([t EXCEPT !.proc = "none", !.trace = w]).status = t.status
          BY <4>2, Leaves
        <4> QED BY <4>1, <4>2, <4>3
      <3>9. CASE Damage(a) BY <2>0, <3>9 DEF Damage, Attempts
      <3> QED
        BY <1>6, <3>1, <3>2, <3>3, <3>4, <3>5, <3>6, <3>7, <3>8, <3>9 DEF ThreadSteps
    <2> QED BY <2>1, <2>2
  <1>7. CASE \E r \in Runners :
               \/ Create(r) \/ LoadBatch(r) \/ MainSteps(r) \/ Interrupt(r)
               \/ KillAll(r) \/ LoopFails(r) \/ Kill(r) \/ StartAttempt(r)
    <2>1. PICK r \in Runners :
               \/ Create(r) \/ LoadBatch(r) \/ MainSteps(r) \/ Interrupt(r)
               \/ KillAll(r) \/ LoopFails(r) \/ Kill(r) \/ StartAttempt(r)
      BY <1>7
    <2>2. CASE RequestStop(r) \/ KillAll(r) BY <1>3, <2>2 DEF RequestStop, KillAll
    <2> QED BY <1>2, <1>4, <1>5, <2>1, <2>2 DEF MainSteps
  <1>8. CASE \E a \in All : ThreadSteps(a) \/ ChildEnds(a) \/ Damage(a)
    BY <1>6, <1>8
  <1> QED BY <1>7, <1>8 DEF BatchNext

-----------------------------------------------------------------------------
\* Among any number of runners of one directory, only the lock's holder has
\* threads at work, or futures that no thread has taken.
OnlyHolderWorks ==
    \A r \in Runners : Busy(r) # {} \/ todo[r] # {} => lock = r

\* run_cve_batch's flock does what it is there for: two runners never work on
\* one batch at once, also when one of them was killed or fails.
THEOREM HolderWorks == BatchSpec => []OnlyHolderWorks
  <1>1. BatchInv => OnlyHolderWorks
    BY OneHolder DEF OnlyHolderWorks, Holding
  <1> QED BY <1>1, BatchAlways, PTL

\* A case with an outcome is not run again, unless the command says so: the
\* schedule was drawn up under the lock, and nobody but its own threads could
\* change what it rests on before they came to the case.
THEOREM CasesDecidedOnce == BatchSpec => DecidedOnce
  <1> DEFINE Decided ==
        \A c \in Cases : Len(tries'[c]) > Len(tries[c]) =>
          LET by == command[tries'[c][Len(tries'[c])].by]
          IN  by # "new" => CaseStatus(c) # "completed"
                            /\ (CaseStatus(c) = "failed" => by = "rerun")
  <1>1. BatchInv /\ [BatchNext]_batchVars => [Decided]_batchVars
    <2> SUFFICES ASSUME BatchInv, BatchNext PROVE Decided OBVIOUS
    <2>0. \A c \in Cases : Len(tries[c]) \in Nat BY DEF BatchInv, BatchTypes
    <2>1. CASE \A c \in Cases : Len(tries'[c]) = Len(tries[c])
      BY <2>0, <2>1
    <2>2. CASE \E r \in Runners : StartAttempt(r)
      <3>1. PICK r \in Runners : StartAttempt(r) BY <2>2
      <3>2. PICK a \in todo[r] :
               tries' = IF a[2] \in Numbers(a[1]) THEN tries
                        ELSE [tries EXCEPT ![a[1]] = Append(@, NewTry(r))]
        BY <3>1 DEF StartAttempt
      <3>3. /\ Ready(r, a)
            /\ Len(tries'[a[1]]) = Len(tries[a[1]]) + 1
            /\ tries'[a[1]][Len(tries[a[1]]) + 1] = NewTry(r)
            /\ \A c \in Cases \ {a[1]} : tries'[c] = tries[c]
        BY <3>2, StartAdds
      <3> SUFFICES ASSUME NEW c \in Cases, Len(tries'[c]) > Len(tries[c])
                   PROVE  LET by == command[tries'[c][Len(tries'[c])].by]
                          IN  by # "new" => /\ CaseStatus(c) # "completed"
                                            /\ CaseStatus(c) = "failed" => by = "rerun"
        OBVIOUS
      <3>4. c = a[1] BY <2>0, <3>3
      <3>5. tries'[c][Len(tries'[c])].by = r BY <3>3, <3>4 DEF NewTry
      <3> QED BY <3>3, <3>4, <3>5 DEF Ready, Wanted
    <2> QED BY <2>1, <2>2, StatusStep
  <1>2. [][Decided]_batchVars => DecidedOnce BY PTL DEF DecidedOnce
  <1> QED BY <1>1, <1>2, BatchAlways, PTL DEF BatchSpec

\* A stop reaches every child before the runner waits for them; what it ends is
\* recorded as interrupted and what ended well is not.
THEOREM StopsClean == BatchSpec => StopIsClean
  <1> DEFINE Reached ==
               \A r \in Runners : main[r] \in {"stopping", "draining"} =>
                  \A a \in Alive(r) : Try(a).told # "nothing"
             Fair(a) ==
               LET was == Try(a)
                   is  == tries'[a[1]][a[2]].status
               IN  /\ is = "failed" /\ was.told # "nothing" /\ faults' = faults
                         => was.status = "failed" \/ was.proc = "ok"
                   /\ is = "interrupted" => ~RanOk(was)
             Clean == Reached /\ \A a \in All : Fair(a)
  <1>1. BatchInv /\ [BatchNext]_batchVars => [Clean]_batchVars
    <2> SUFFICES ASSUME BatchInv, BatchNext PROVE Clean OBVIOUS
    <2>0. BatchTypes /\ AttemptsSound BY DEF BatchInv
    <2>1. Reached
      <3> SUFFICES ASSUME NEW r \in Runners, main[r] \in {"stopping", "draining"},
                          NEW a \in Alive(r)
                   PROVE  Try(a).told # "nothing"
        OBVIOUS
      <3>1. a \in Busy(r) /\ a \in All /\ Try(a).by = r /\ Try(a).proc = "alive"
        BY DEF Alive, Busy
      <3>2. AttemptSound(Try(a)) /\ Try(a).at \in AtWork
        BY <2>0, <3>1, OneHolder DEF AttemptsSound
      <3> QED BY <3>1, <3>2 DEF AttemptSound, SoundAt, AtWork
    <2>2. ASSUME NEW a \in All PROVE Fair(a)
      <3> DEFINE t == Try(a)
      <3>0. t \in Attempts /\ SoundAt(t, main[t.by], stop[t.by]) /\ faults \in Nat
        BY <2>0, TryTyped DEF AttemptsSound, AttemptSound, BatchTypes
      <3>1. CASE tries'[a[1]][a[2]].status = t.status
        BY <3>0, <3>1 DEF SoundAt, RanOk
      <3>2. CASE Record(a)
        <4>1. tries'[a[1]][a[2]] = Recorded(t) BY <3>2, SetKeeps DEF Record
        <4>2. tries'[a[1]][a[2]].status = Classified(t) BY <3>0, <4>1, Leaves
        <4>3. t.told # "nothing" => t.stopSeen BY <3>0, <3>2 DEF SoundAt, Record
        <4> QED BY <4>2, <4>3 DEF Classified, RanOk
      <3>3. CASE AttemptRaises(a)
        <4>1. faults' # faults BY <3>0, <3>3 DEF AttemptRaises, Fault
        <4>2. tries'[a[1]][a[2]] = [NewTry(t.by) EXCEPT !.at = "over", !.status = "failed"]
          BY <3>3, SetKeeps DEF AttemptRaises
        <4>3. tries'[a[1]][a[2]].status = "failed" BY <4>2 DEF NewTry
        <4> QED BY <4>1, <4>3
      <3> QED BY <3>1, <3>2, <3>3, StatusStep
    <2> QED BY <2>1, <2>2
  <1>2. [][Clean]_batchVars => StopIsClean BY PTL DEF StopIsClean
  <1> QED BY <1>1, <1>2, BatchAlways, PTL DEF BatchSpec

-----------------------------------------------------------------------------
(* The replays of a lineage.  First a least number, and induction without  *)
(* an operator of its own.                                                 *)

LEMMA Least == ASSUME NEW S, S \subseteq Nat, S # {}
               PROVE  \E n \in S : \A m \in S : n <= m
  <1> DEFINE R == OpToRel(<, Nat)
  <1>1. IsWellFoundedOn(R, Nat) BY NatLessThanWellFounded
  <1>2. \E n \in S : \A m \in S : <<m, n>> \notin R
    <2> HIDE DEF R
    <2> QED BY <1>1, WFMin
  <1>3. PICK n \in S : \A m \in S : <<m, n>> \notin R BY <1>2
  <1>4. \A m \in S : ~(m < n) BY <1>3 DEF OpToRel
  <1> HIDE DEF R
  <1>5. \A m \in S : n <= m BY <1>4
  <1> QED BY <1>5

LEMMA Inductive == ASSUME NEW S, 0 \in S, \A n \in S \cap Nat : n + 1 \in S
                   PROVE  \A n \in Nat : n \in S
  <1> SUFFICES ASSUME NEW k \in Nat, k \notin S PROVE FALSE OBVIOUS
  <1> DEFINE T == {n \in Nat : n \notin S}
  <1>1. PICK n \in T : \A m \in T : n <= m
    <2>1. T \subseteq Nat /\ T # {} OBVIOUS
    <2> HIDE DEF T
    <2> QED BY <2>1, Least
  <1>2. n # 0 /\ n \in Nat /\ n - 1 \in Nat /\ (n - 1) + 1 = n OBVIOUS
  <1>3. n - 1 \in S BY <1>1, <1>2
  <1> QED BY <1>2, <1>3

-----------------------------------------------------------------------------
(* The order of the stages.                                                *)

\* The place of a stage in ReadOrder.
Place(s) == CASE s = Planning -> 1 [] s = Strategy -> 2 [] s = Context -> 3
              [] s = Generation -> 4 [] s = Challenger -> 5 [] s = PatchRepair -> 6
              [] s = TestPlan -> 7 [] s = Comparison -> 8 [] s = Review -> 9
              [] s = Confidence -> 10 [] s = Impact -> 11 [] s = Report -> 12

StageNames == {Planning, Strategy, Context, Generation, Challenger, PatchRepair, TestPlan,
          Comparison, Review, Confidence, Impact, Report}

LEMMA RunOrderIs ==
    /\ Len(RunOrder(TRUE)) = 11 /\ DOMAIN RunOrder(TRUE) = 1..11
    /\ Len(RunOrder(FALSE)) = 9 /\ DOMAIN RunOrder(FALSE) = 1..9
    /\ RunOrder(TRUE) \in Seq(StageNames) /\ RunOrder(FALSE) \in Seq(StageNames)
    /\ \A c \in BOOLEAN :
          /\ RunOrder(c)[1] = Planning /\ RunOrder(c)[2] = Strategy /\ RunOrder(c)[3] = Context
          /\ RunOrder(c)[4] = Generation /\ RunOrder(c)[5] = Challenger
          /\ RunOrder(c)[6] = PatchRepair
    /\ RunOrder(TRUE)[7] = TestPlan /\ RunOrder(TRUE)[8] = Comparison
    /\ RunOrder(TRUE)[9] = Review /\ RunOrder(TRUE)[10] = Confidence
    /\ RunOrder(TRUE)[11] = Impact
    /\ RunOrder(FALSE)[7] = Review /\ RunOrder(FALSE)[8] = Confidence
    /\ RunOrder(FALSE)[9] = Impact
  <1> DEFINE A == <<Planning, Strategy, Context, Generation, Challenger, PatchRepair>>
             B == <<TestPlan, Comparison>>
             C == <<Review, Confidence, Impact>>
  <1>1. /\ A \in Seq(StageNames) /\ Len(A) = 6 /\ A[1] = Planning /\ A[2] = Strategy
        /\ A[3] = Context /\ A[4] = Generation /\ A[5] = Challenger /\ A[6] = PatchRepair
    BY DEF StageNames
  <1>2. B \in Seq(StageNames) /\ Len(B) = 2 /\ B[1] = TestPlan /\ B[2] = Comparison
    BY DEF StageNames
  <1>3. /\ C \in Seq(StageNames) /\ Len(C) = 3 /\ C[1] = Review /\ C[2] = Confidence
        /\ C[3] = Impact
    BY DEF StageNames
  <1>4. RunOrder(TRUE) = (A \o B) \o C /\ RunOrder(FALSE) = (A \o <<>>) \o C BY DEF RunOrder
  <1> HIDE DEF A, B, C
  <1>5. A \o <<>> = A BY <1>1, ConcatEmptySeq
  <1>6. /\ A \o B \in Seq(StageNames) /\ Len(A \o B) = 8
        /\ \A i \in 1..8 : (A \o B)[i] = IF i <= 6 THEN A[i] ELSE B[i - 6]
    <2>1. /\ A \o B \in Seq(StageNames) /\ Len(A \o B) = Len(A) + Len(B)
          /\ \A i \in 1..(Len(A) + Len(B)) :
                (A \o B)[i] = IF i <= Len(A) THEN A[i] ELSE B[i - Len(A)]
      BY <1>1, <1>2, ConcatProperties
    <2> QED BY <1>1, <1>2, <2>1
  <1>7. /\ (A \o B) \o C \in Seq(StageNames) /\ Len((A \o B) \o C) = 11
        /\ \A i \in 1..11 : ((A \o B) \o C)[i] = IF i <= 8 THEN (A \o B)[i] ELSE C[i - 8]
    <2> DEFINE AB == A \o B
    <2>1. AB \in Seq(StageNames) /\ Len(AB) = 8 BY <1>6
    <2> HIDE DEF AB
    <2>2. /\ AB \o C \in Seq(StageNames) /\ Len(AB \o C) = Len(AB) + Len(C)
          /\ \A i \in 1..(Len(AB) + Len(C)) :
                (AB \o C)[i] = IF i <= Len(AB) THEN AB[i] ELSE C[i - Len(AB)]
      BY <1>3, <2>1, ConcatProperties
    <2>3. /\ AB \o C \in Seq(StageNames) /\ Len(AB \o C) = 11
          /\ \A i \in 1..11 : (AB \o C)[i] = IF i <= 8 THEN AB[i] ELSE C[i - 8]
      <3>1. Len(AB) = 8 /\ Len(C) = 3 /\ Len(AB) + Len(C) = 11 BY <1>3, <2>1
      <3> DEFINE ABC == AB \o C
      <3>2. ABC \in Seq(StageNames) /\ Len(ABC) = 11 BY <2>2, <3>1
      <3>3. \A i \in 1..(Len(AB) + Len(C)) :
              ABC[i] = IF i <= Len(AB) THEN AB[i] ELSE C[i - Len(AB)]
        BY <2>2
      <3> HIDE DEF ABC
      <3>4. \A i \in 1..11 : ABC[i] = IF i <= 8 THEN AB[i] ELSE C[i - 8]
        BY ONLY <3>1, <3>3
      <3> QED BY <3>2, <3>4 DEF ABC
    <2> QED BY <2>3 DEF AB
  <1>8. /\ A \o C \in Seq(StageNames) /\ Len(A \o C) = 9
        /\ \A i \in 1..9 : (A \o C)[i] = IF i <= 6 THEN A[i] ELSE C[i - 6]
    <2>1. /\ A \o C \in Seq(StageNames) /\ Len(A \o C) = Len(A) + Len(C)
          /\ \A i \in 1..(Len(A) + Len(C)) :
                (A \o C)[i] = IF i <= Len(A) THEN A[i] ELSE C[i - Len(A)]
      BY <1>1, <1>3, ConcatProperties
    <2> QED BY <1>1, <1>3, <2>1
  <1>9. /\ RunOrder(TRUE) \in Seq(StageNames) /\ Len(RunOrder(TRUE)) = 11
        /\ \A i \in 1..11 : RunOrder(TRUE)[i] = IF i <= 6 THEN A[i]
                                               ELSE IF i <= 8 THEN B[i - 6] ELSE C[i - 8]
    <2> DEFINE ABC == (A \o B) \o C
               AB == A \o B
    <2>1. /\ ABC \in Seq(StageNames) /\ Len(ABC) = 11
          /\ \A i \in 1..11 : ABC[i] = IF i <= 8 THEN AB[i] ELSE C[i - 8]
      BY <1>7
    <2>2. \A i \in 1..8 : AB[i] = IF i <= 6 THEN A[i] ELSE B[i - 6] BY <1>6
    <2>3. RunOrder(TRUE) = ABC BY <1>4
    <2> HIDE DEF ABC, AB
    <2>4. \A i \in 1..11 : i <= 8 => i \in 1..8 OBVIOUS
    <2>5. \A i \in 1..11 : ABC[i] = IF i <= 6 THEN A[i]
                                     ELSE IF i <= 8 THEN B[i - 6] ELSE C[i - 8]
      <3> TAKE i \in 1..11
      <3>1. CASE i <= 6
        <4>1. i <= 8 /\ i \in 1..8 BY <3>1
        <4> QED BY <2>1, <2>2, <3>1, <4>1
      <3>2. CASE ~(i <= 6) /\ i <= 8 BY <2>1, <2>2, <2>4, <3>2
      <3>3. CASE ~(i <= 8)
        <4>1. ~(i <= 6) BY <3>3
        <4> QED BY <2>1, <3>3, <4>1
      <3> QED BY <3>1, <3>2, <3>3
    <2> QED BY <2>1, <2>3, <2>5
  <1>10. /\ RunOrder(FALSE) \in Seq(StageNames) /\ Len(RunOrder(FALSE)) = 9
         /\ \A i \in 1..9 : RunOrder(FALSE)[i] = IF i <= 6 THEN A[i] ELSE C[i - 6]
    <2>1. RunOrder(FALSE) = A \o C BY <1>4, <1>5
    <2> DEFINE AC == A \o C
    <2>2. RunOrder(FALSE) = AC BY <2>1
    <2>3. /\ AC \in Seq(StageNames) /\ Len(AC) = 9
          /\ \A i \in 1..9 : AC[i] = IF i <= 6 THEN A[i] ELSE C[i - 6]
      BY <1>8
    <2> HIDE DEF AC
    <2> QED BY <2>2, <2>3
  <1>11. DOMAIN RunOrder(TRUE) = 1..11 /\ DOMAIN RunOrder(FALSE) = 1..9
    BY <1>9, <1>10, LenProperties
  <1> HIDE DEF StageNames
  <1>12. /\ RunOrder(TRUE)[1] = A[1] /\ RunOrder(TRUE)[2] = A[2] /\ RunOrder(TRUE)[3] = A[3]
         /\ RunOrder(TRUE)[4] = A[4] /\ RunOrder(TRUE)[5] = A[5] /\ RunOrder(TRUE)[6] = A[6]
         /\ RunOrder(TRUE)[7] = B[1] /\ RunOrder(TRUE)[8] = B[2]
         /\ RunOrder(TRUE)[9] = C[1] /\ RunOrder(TRUE)[10] = C[2] /\ RunOrder(TRUE)[11] = C[3]
    <2> DEFINE O == RunOrder(TRUE)
    <2>1. \A i \in 1..11 : O[i] = IF i <= 6 THEN A[i] ELSE IF i <= 8 THEN B[i - 6] ELSE C[i - 8]
      BY <1>9
    <2> HIDE DEF O
    <2>a. \A i \in 1..6 : O[i] = A[i] BY <2>1
    <2>2. /\ O[1] = A[1] /\ O[2] = A[2] /\ O[3] = A[3]
          /\ O[4] = A[4] /\ O[5] = A[5] /\ O[6] = A[6]
      <3>1. /\ 1 \in 1..6 /\ 2 \in 1..6 /\ 3 \in 1..6
            /\ 4 \in 1..6 /\ 5 \in 1..6 /\ 6 \in 1..6
        OBVIOUS
      <3> QED BY <2>a, <3>1
    <2>3. \A i \in 1..2 : O[i + 6] = B[i]
      <3> TAKE i \in 1..2
      <3>1. i + 6 \in 1..11 /\ ~(i + 6 <= 6) /\ i + 6 <= 8 /\ (i + 6) - 6 = i OBVIOUS
      <3> QED BY <2>1, <3>1
    <2>4. \A i \in 1..3 : O[i + 8] = C[i]
      <3> TAKE i \in 1..3
      <3>1. i + 8 \in 1..11 /\ ~(i + 8 <= 6) /\ ~(i + 8 <= 8) /\ (i + 8) - 8 = i OBVIOUS
      <3> QED BY <2>1, <3>1
    <2>5. O[7] = B[1] /\ O[8] = B[2]
      <3>1. 1 + 6 = 7 /\ 2 + 6 = 8 /\ 1 \in 1..2 /\ 2 \in 1..2 OBVIOUS
      <3> QED BY <2>3, <3>1
    <2>6. O[9] = C[1] /\ O[10] = C[2] /\ O[11] = C[3]
      <3>1. 1 + 8 = 9 /\ 2 + 8 = 10 /\ 3 + 8 = 11 OBVIOUS
      <3>2. 1 \in 1..3 /\ 2 \in 1..3 /\ 3 \in 1..3 OBVIOUS
      <3> QED BY <2>4, <3>1, <3>2
    <2> QED BY <2>2, <2>5, <2>6 DEF O
  <1>13. /\ RunOrder(FALSE)[1] = A[1] /\ RunOrder(FALSE)[2] = A[2] /\ RunOrder(FALSE)[3] = A[3]
         /\ RunOrder(FALSE)[4] = A[4] /\ RunOrder(FALSE)[5] = A[5] /\ RunOrder(FALSE)[6] = A[6]
         /\ RunOrder(FALSE)[7] = C[1] /\ RunOrder(FALSE)[8] = C[2] /\ RunOrder(FALSE)[9] = C[3]
    <2> DEFINE O == RunOrder(FALSE)
    <2>1. \A i \in 1..9 : O[i] = IF i <= 6 THEN A[i] ELSE C[i - 6] BY <1>10
    <2> HIDE DEF O
    <2>a. \A i \in 1..6 : O[i] = A[i] BY <2>1
    <2>2. /\ O[1] = A[1] /\ O[2] = A[2] /\ O[3] = A[3]
          /\ O[4] = A[4] /\ O[5] = A[5] /\ O[6] = A[6]
      <3>1. /\ 1 \in 1..6 /\ 2 \in 1..6 /\ 3 \in 1..6
            /\ 4 \in 1..6 /\ 5 \in 1..6 /\ 6 \in 1..6
        OBVIOUS
      <3> QED BY <2>a, <3>1
    <2>3. \A i \in 1..3 : O[i + 6] = C[i]
      <3> TAKE i \in 1..3
      <3>1. i + 6 \in 1..9 /\ ~(i + 6 <= 6) /\ (i + 6) - 6 = i OBVIOUS
      <3> QED BY <2>1, <3>1
    <2>4. O[7] = C[1] /\ O[8] = C[2] /\ O[9] = C[3]
      <3>1. 1 + 6 = 7 /\ 2 + 6 = 8 /\ 3 + 6 = 9 OBVIOUS
      <3>2. 1 \in 1..3 /\ 2 \in 1..3 /\ 3 \in 1..3 OBVIOUS
      <3> QED BY <2>3, <3>1, <3>2
    <2> QED BY <2>2, <2>4 DEF O
  <1> QED BY <1>1, <1>2, <1>3, <1>9, <1>10, <1>11, <1>12, <1>13

LEMMA PlaceIs ==
    /\ Place(Planning) = 1 /\ Place(Strategy) = 2 /\ Place(Context) = 3
    /\ Place(Generation) = 4 /\ Place(Challenger) = 5 /\ Place(PatchRepair) = 6
    /\ Place(TestPlan) = 7 /\ Place(Comparison) = 8 /\ Place(Review) = 9
    /\ Place(Confidence) = 10 /\ Place(Impact) = 11 /\ Place(Report) = 12
  BY DEF Place, Planning, Strategy, Context, Generation, Challenger, PatchRepair, TestPlan,
         Comparison, Review, Confidence, Impact, Report

LEMMA ReadOrderIs ==
    /\ Len(ReadOrder) = 12 /\ DOMAIN ReadOrder = 1..12
    /\ Stages = StageNames
    /\ \A s \in Stages : Place(s) \in 1..12 /\ ReadOrder[Place(s)] = s
    /\ \A n \in 1..12 : ReadOrder[n] \in Stages /\ Place(ReadOrder[n]) = n
  <1>1. /\ ReadOrder = Append(RunOrder(TRUE), Report) /\ RunOrder(TRUE) \in Seq(StageNames)
        /\ Report \in StageNames /\ Len(RunOrder(TRUE)) = 11
    BY RunOrderIs DEF ReadOrder, StageNames
  <1>2. /\ Len(ReadOrder) = 12 /\ DOMAIN ReadOrder = 1..12 /\ ReadOrder[12] = Report
        /\ \A i \in 1..11 : ReadOrder[i] = RunOrder(TRUE)[i]
    <2> DEFINE O == RunOrder(TRUE)
    <2>1. O \in Seq(StageNames) /\ Len(O) = 11 /\ ReadOrder = Append(O, Report) BY <1>1
    <2> HIDE DEF O
    <2>2. /\ Append(O, Report) \in Seq(StageNames) /\ Len(Append(O, Report)) = 12
          /\ \A i \in 1..11 : Append(O, Report)[i] = O[i]
          /\ Append(O, Report)[12] = Report
      <3>1. /\ Append(O, Report) \in Seq(StageNames) /\ Len(Append(O, Report)) = Len(O) + 1
            /\ \A i \in 1..Len(O) : Append(O, Report)[i] = O[i]
            /\ Append(O, Report)[Len(O) + 1] = Report
        <4> DEFINE e == Report
        <4>1. e \in StageNames BY <1>1
        <4> HIDE DEF e
        <4>2. O \in Seq(StageNames) BY <2>1
        <4>3. Append(O, e) \in Seq(StageNames) BY <4>1, <4>2, AppendProperties
        <4>4. Len(Append(O, e)) = Len(O) + 1 BY <4>1, <4>2, AppendProperties
        <4>5. \A i \in 1..Len(O) : Append(O, e)[i] = O[i] BY <4>1, <4>2, AppendProperties
        <4>6. Append(O, e)[Len(O) + 1] = e BY <4>1, <4>2, AppendProperties
        <4> QED BY <4>3, <4>4, <4>5, <4>6 DEF e
      <3> QED BY <2>1, <3>1
    <2>3. DOMAIN Append(O, Report) = 1..12 BY <2>2, LenProperties
    <2>4. /\ Len(ReadOrder) = 12 /\ DOMAIN ReadOrder = 1..12 /\ ReadOrder[12] = Report
          /\ \A i \in 1..11 : ReadOrder[i] = O[i]
      BY <2>1, <2>2, <2>3
    <2> QED BY <2>4 DEF O
  <1>3. /\ ReadOrder[1] = Planning /\ ReadOrder[2] = Strategy /\ ReadOrder[3] = Context
        /\ ReadOrder[4] = Generation /\ ReadOrder[5] = Challenger /\ ReadOrder[6] = PatchRepair
        /\ ReadOrder[7] = TestPlan /\ ReadOrder[8] = Comparison /\ ReadOrder[9] = Review
        /\ ReadOrder[10] = Confidence /\ ReadOrder[11] = Impact /\ ReadOrder[12] = Report
    <2>1. \A i \in {1, 2, 3, 4, 5, 6, 7, 8, 9, 10, 11} : ReadOrder[i] = RunOrder(TRUE)[i]
      <3>1. {1, 2, 3, 4, 5, 6, 7, 8, 9, 10, 11} \subseteq 1..11 OBVIOUS
      <3> QED BY <1>2, <3>1
    <2> QED BY <1>2, <2>1, RunOrderIs
  <1>4. \A n \in 1..12 : n \in {1, 2, 3, 4, 5, 6, 7, 8, 9, 10, 11, 12} OBVIOUS
  <1>5. \A n \in 1..12 : ReadOrder[n] \in StageNames /\ Place(ReadOrder[n]) = n
    BY <1>3, <1>4, PlaceIs DEF StageNames
  <1>6. \A s \in StageNames : Place(s) \in 1..12 /\ ReadOrder[Place(s)] = s
    BY <1>3, PlaceIs DEF StageNames
  <1>7. Stages = StageNames
    <2>1. \A s \in Stages : s \in StageNames BY <1>2, <1>5 DEF Stages, Range
    <2>2. \A s \in StageNames : s \in Stages BY <1>2, <1>6 DEF Stages, Range
    <2> QED BY <2>1, <2>2
  <1> QED BY <1>2, <1>5, <1>6, <1>7


-----------------------------------------------------------------------------
(* The recursions of the model, as functions of the manifests: each is     *)
(* defined, since it goes up from a first step by one at a time.           *)

\* One directory further up.
Up(m, below) == LET parent == m[Last(below).dir].parent
                IN  IF parent = None THEN below ELSE Append(below, parent)

Walks(f, m, path, k) ==
  f = [n \in 0..k |-> IF n = 0 THEN <<path>> ELSE Up(m, f[n - 1])]

WalkIn(m, path) == (CHOOSE f : Walks(f, m, path, MaxDirs))[MaxDirs]

CandidateIn(m, chain, s) ==
  LET has == {i \in DOMAIN chain : s \in DOMAIN m[chain[i].dir].executions}
  IN  IF has = {} THEN None
      ELSE chain[CHOOSE i \in has : \A j \in has : i <= j]

IdentityIn(m, path, s) == [run |-> path, seq |-> m[path.dir].executions[s].seq]

\* One stage more.
Resolve(m, chain, before, n) ==
  LET s == ReadOrder[n]
      path == CandidateIn(m, chain, s)
      consumed == m[path.dir].executions[s].consumed
  IN  IF path # None /\ \A dep \in DOMAIN consumed : consumed[dep] = before[dep]
      THEN [before EXCEPT ![s] = IdentityIn(m, path, s)]
      ELSE before

Resolves(f, m, chain, k) ==
  f = [n \in 0..k |-> IF n = 0 THEN [s \in Stages |-> None]
                      ELSE Resolve(m, chain, f[n - 1], n)]

ResolutionIn(m, chain) ==
  (CHOOSE f : Resolves(f, m, chain, Len(ReadOrder)))[Len(ReadOrder)]

AtIn(m, id, s) == m[id.run.dir].executions[s]

\* What those of one stage consumed.
Further(m, found, n) ==
  found \union
    UNION {LET consumed == AtIn(m, x[1], x[2]).consumed
           IN  {<<consumed[dep], dep>> : dep \in DOMAIN consumed} :
             x \in {y \in found : y[2] = ReadOrder[Len(ReadOrder) + 1 - n]}}

Reads(f, m, id, stage, k) ==
  f = [n \in 0..k |-> IF n = 0 THEN {<<id, stage>>} ELSE Further(m, f[n - 1], n)]

BehindIn(m, id, stage) ==
  (CHOOSE f : Reads(f, m, id, stage, Len(ReadOrder)))[Len(ReadOrder)]

LEMMA MirrorsAre ==
  /\ \A path : Walk(path) = WalkIn(manifests, path)
  /\ \A chain : Resolution(chain) = ResolutionIn(manifests, chain)
  /\ \A id, s : ReadBehind(id, s) = BehindIn(manifests, id, s)
  <1>1. ASSUME NEW path PROVE Walk(path) = WalkIn(manifests, path)
    BY DEF Walk, WalkIn, Walks, Up
  <1>2. ASSUME NEW chain PROVE Resolution(chain) = ResolutionIn(manifests, chain)
    BY DEF Resolution, ResolutionIn, Resolves, Resolve, Candidate, CandidateIn, Identity,
           IdentityIn, Executions
  <1>3. ASSUME NEW id, NEW s PROVE ReadBehind(id, s) = BehindIn(manifests, id, s)
    BY DEF ReadBehind, BehindIn, Reads, Further, At, AtIn, Executions
  <1> QED BY <1>1, <1>2, <1>3

LEMMA WalksStart == ASSUME NEW m, NEW path PROVE \E f : Walks(f, m, path, 0)
  <1> DEFINE f == [n \in 0..0 |-> <<path>>]
  <1>1. \A n \in 0..0 : n = 0 OBVIOUS
  <1>2. f = [n \in 0..0 |-> IF n = 0 THEN <<path>> ELSE Up(m, f[n - 1])] BY <1>1
  <1> QED BY <1>2 DEF Walks

LEMMA WalksGrow ==
  ASSUME NEW m, NEW path, NEW k \in Nat, NEW g, Walks(g, m, path, k)
  PROVE  \E f : Walks(f, m, path, k + 1)
  <1> DEFINE E(n) == IF n = 0 THEN <<path>> ELSE Up(m, g[n - 1])
             f == [n \in 0..(k + 1) |-> E(n)]
  <1>1. g = [n \in 0..k |-> E(n)] BY DEF Walks
  <1>2. \A n \in 0..k : g[n] = E(n)
    <2> HIDE DEF E
    <2> QED BY <1>1
  <1>3. \A n \in 0..(k + 1) : n # 0 => n - 1 \in 0..k /\ n - 1 \in 0..(k + 1) OBVIOUS
  <1>4. \A n \in 0..k : n \in 0..(k + 1) OBVIOUS
  <1>5. \A n \in 0..k : f[n] = g[n]
    <2> HIDE DEF E
    <2> QED BY <1>2, <1>4
  <1>6. \A n \in 0..(k + 1) : E(n) = IF n = 0 THEN <<path>> ELSE Up(m, f[n - 1])
    <2> HIDE DEF f
    <2> QED BY <1>3, <1>5
  <1>7. f = [n \in 0..(k + 1) |-> IF n = 0 THEN <<path>> ELSE Up(m, f[n - 1])]
    <2> HIDE DEF E
    <2> SUFFICES ASSUME NEW n \in 0..(k + 1)
                 PROVE  E(n) = IF n = 0 THEN <<path>> ELSE Up(m, f[n - 1])
      OBVIOUS
    <2> QED BY <1>6
  <1> QED BY <1>7 DEF Walks


LEMMA WalksDefined ==
  ASSUME NEW m, NEW path, MaxDirs \in Nat
  PROVE  LET f == CHOOSE f : Walks(f, m, path, MaxDirs)
         IN  Walks(f, m, path, MaxDirs) /\ WalkIn(m, path) = f[MaxDirs]
  <1> DEFINE S == {k \in Nat : \E f : Walks(f, m, path, k)}
  <1>1. 0 \in S BY WalksStart
  <1>2. \A k \in S \cap Nat : k + 1 \in S BY WalksGrow
  <1> HIDE DEF S
  <1>3. MaxDirs \in S BY <1>1, <1>2, Inductive
  <1>4. \E f : Walks(f, m, path, MaxDirs) BY <1>3 DEF S
  <1> QED BY <1>4 DEF WalkIn

LEMMA ResolvesStart == ASSUME NEW m, NEW chain PROVE \E f : Resolves(f, m, chain, 0)
  <1> DEFINE none == [s \in Stages |-> None]
             f == [n \in 0..0 |-> none]
  <1>1. \A n \in 0..0 : n = 0 OBVIOUS
  <1> HIDE DEF none
  <1>2. f = [n \in 0..0 |-> IF n = 0 THEN none ELSE Resolve(m, chain, f[n - 1], n)] BY <1>1
  <1> QED BY <1>2 DEF Resolves, none

LEMMA ResolvesGrow ==
  ASSUME NEW m, NEW chain, NEW k \in Nat, NEW g, Resolves(g, m, chain, k)
  PROVE  \E f : Resolves(f, m, chain, k + 1)
  <1> DEFINE none == [s \in Stages |-> None]
             E(n) == IF n = 0 THEN none ELSE Resolve(m, chain, g[n - 1], n)
             f == [n \in 0..(k + 1) |-> E(n)]
  <1>1. g = [n \in 0..k |-> E(n)] BY DEF Resolves
  <1> HIDE DEF none
  <1>2. \A n \in 0..k : g[n] = E(n)
    <2> HIDE DEF E
    <2> QED BY <1>1
  <1>3. \A n \in 0..(k + 1) : n # 0 => n - 1 \in 0..k /\ n - 1 \in 0..(k + 1) OBVIOUS
  <1>4. \A n \in 0..k : n \in 0..(k + 1) OBVIOUS
  <1>5. \A n \in 0..k : f[n] = g[n]
    <2> HIDE DEF E
    <2> QED BY <1>2, <1>4
  <1>6. \A n \in 0..(k + 1) : E(n) = IF n = 0 THEN none ELSE Resolve(m, chain, f[n - 1], n)
    <2> HIDE DEF f
    <2> QED BY <1>3, <1>5
  <1>7. f = [n \in 0..(k + 1) |-> IF n = 0 THEN none ELSE Resolve(m, chain, f[n - 1], n)]
    <2> HIDE DEF E
    <2> SUFFICES ASSUME NEW n \in 0..(k + 1)
                 PROVE  E(n) = IF n = 0 THEN none ELSE Resolve(m, chain, f[n - 1], n)
      OBVIOUS
    <2> QED BY <1>6
  <1> QED BY <1>7 DEF Resolves, none

LEMMA ResolvesDefined ==
  ASSUME NEW m, NEW chain
  PROVE  LET f == CHOOSE f : Resolves(f, m, chain, 12)
         IN  Resolves(f, m, chain, 12) /\ ResolutionIn(m, chain) = f[12]
  <1> DEFINE S == {k \in Nat : \E f : Resolves(f, m, chain, k)}
  <1>1. 0 \in S BY ResolvesStart
  <1>2. \A k \in S \cap Nat : k + 1 \in S BY ResolvesGrow
  <1> HIDE DEF S
  <1>3. 12 \in S BY <1>1, <1>2, Inductive
  <1>4. \E f : Resolves(f, m, chain, 12) BY <1>3 DEF S
  <1>5. Len(ReadOrder) = 12 BY ReadOrderIs
  <1> QED BY <1>4, <1>5 DEF ResolutionIn

LEMMA ReadsStart == ASSUME NEW m, NEW id, NEW stage PROVE \E f : Reads(f, m, id, stage, 0)
  <1> DEFINE f == [n \in 0..0 |-> {<<id, stage>>}]
  <1>1. \A n \in 0..0 : n = 0 OBVIOUS
  <1>2. f = [n \in 0..0 |-> IF n = 0 THEN {<<id, stage>>} ELSE Further(m, f[n - 1], n)]
    BY <1>1
  <1> QED BY <1>2 DEF Reads

LEMMA ReadsGrow ==
  ASSUME NEW m, NEW id, NEW stage, NEW k \in Nat, NEW g, Reads(g, m, id, stage, k)
  PROVE  \E f : Reads(f, m, id, stage, k + 1)
  <1> DEFINE first == {<<id, stage>>}
             E(n) == IF n = 0 THEN first ELSE Further(m, g[n - 1], n)
             f == [n \in 0..(k + 1) |-> E(n)]
  <1>1. g = [n \in 0..k |-> E(n)] BY DEF Reads
  <1> HIDE DEF first
  <1>2. \A n \in 0..k : g[n] = E(n)
    <2> HIDE DEF E
    <2> QED BY <1>1
  <1>3. \A n \in 0..(k + 1) : n # 0 => n - 1 \in 0..k /\ n - 1 \in 0..(k + 1) OBVIOUS
  <1>4. \A n \in 0..k : n \in 0..(k + 1) OBVIOUS
  <1>5. \A n \in 0..k : f[n] = g[n]
    <2> HIDE DEF E
    <2> QED BY <1>2, <1>4
  <1>6. \A n \in 0..(k + 1) : E(n) = IF n = 0 THEN first ELSE Further(m, f[n - 1], n)
    <2> HIDE DEF f
    <2> QED BY <1>3, <1>5
  <1>7. f = [n \in 0..(k + 1) |-> IF n = 0 THEN first ELSE Further(m, f[n - 1], n)]
    <2> HIDE DEF E
    <2> SUFFICES ASSUME NEW n \in 0..(k + 1)
                 PROVE  E(n) = IF n = 0 THEN first ELSE Further(m, f[n - 1], n)
      OBVIOUS
    <2> QED BY <1>6
  <1> QED BY <1>7 DEF Reads, first

LEMMA ReadsDefined ==
  ASSUME NEW m, NEW id, NEW stage
  PROVE  LET f == CHOOSE f : Reads(f, m, id, stage, 12)
         IN  Reads(f, m, id, stage, 12) /\ BehindIn(m, id, stage) = f[12]
  <1> DEFINE S == {k \in Nat : \E f : Reads(f, m, id, stage, k)}
  <1>1. 0 \in S BY ReadsStart
  <1>2. \A k \in S \cap Nat : k + 1 \in S BY ReadsGrow
  <1> HIDE DEF S
  <1>3. 12 \in S BY <1>1, <1>2, Inductive
  <1>4. \E f : Reads(f, m, id, stage, 12) BY <1>3 DEF S
  <1>5. Len(ReadOrder) = 12 BY ReadOrderIs
  <1> QED BY <1>4, <1>5 DEF BehindIn

-----------------------------------------------------------------------------
(* Manifests whose references lead somewhere.                              *)

LEMMA ManifestIs ==
  ASSUME NEW M \in Manifests
  PROVE  /\ M.parent \in Paths \union {None}
         /\ DOMAIN M.executions \subseteq Stages
         /\ \A s \in DOMAIN M.executions :
              /\ M.executions[s].seq \in Nat
              /\ DOMAIN M.executions[s].consumed \subseteq Stages
              /\ \A dep \in DOMAIN M.executions[s].consumed :
                    M.executions[s].consumed[dep] \in Identities
              /\ M.executions[s].patch \in Patches \union {None}
  <1>1. M.parent \in Paths \union {None} BY DEF Manifests
  <1>2. PICK S \in SUBSET Stages : M.executions \in [S -> Records] BY DEF Manifests
  <1>3. ASSUME NEW s \in S
        PROVE  /\ M.executions[s].seq \in Nat
               /\ DOMAIN M.executions[s].consumed \subseteq Stages
               /\ \A dep \in DOMAIN M.executions[s].consumed :
                     M.executions[s].consumed[dep] \in Identities
               /\ M.executions[s].patch \in Patches \union {None}
    <2>1. M.executions[s] \in Records BY <1>2
    <2> DEFINE r == M.executions[s]
    <2>2. r \in Records BY <2>1
    <2> HIDE DEF r
    <2>3. /\ r.seq \in Nat /\ r.patch \in Patches \union {None}
          /\ r.consumed \in UNION {[D -> Identities] : D \in SUBSET Stages}
      BY <2>2 DEF Records
    <2>4. PICK D \in SUBSET Stages : r.consumed \in [D -> Identities] BY <2>3
    <2>5. DOMAIN r.consumed \subseteq Stages
          /\ \A dep \in DOMAIN r.consumed : r.consumed[dep] \in Identities
      BY <2>4
    <2> QED BY <2>3, <2>5 DEF r
  <1> QED BY <1>1, <1>2, <1>3

LEMMA IdentityIs ==
  ASSUME NEW id \in Identities
  PROVE  id.run \in Paths /\ id.run.dir \in Dirs /\ id.seq \in Nat
  BY DEF Identities, Paths

\* What a stage consumed comes before it, and lies in directories with a
\* manifest; so does the parent.
Sound(m) ==
  /\ m \in [Dirs -> Manifests \union {NoManifest}]
  /\ \A d \in Dirs : m[d] # NoManifest =>
       /\ m[d].parent # None => m[m[d].parent.dir] # NoManifest
       /\ \A s \in DOMAIN m[d].executions : \A dep \in DOMAIN m[d].executions[s].consumed :
            /\ Place(dep) < Place(s)
            /\ m[m[d].executions[s].consumed[dep].run.dir] # NoManifest

\* A chain of directories, from one to its parent, as far as it goes.
Chained(m, w) ==
  /\ w \in Seq(Paths) /\ Len(w) \in Nat \ {0}
  /\ \A i \in 1..Len(w) : m[w[i].dir] # NoManifest
  /\ \A i \in 1..Len(w) : i + 1 \in 1..Len(w) => m[w[i].dir].parent = w[i + 1]

Ends(m, w) == m[w[Len(w)].dir].parent = None

LEMMA UpChained ==
  ASSUME ReplayAssumption, NEW m, Sound(m), NEW w, Chained(m, w)
  PROVE  Chained(m, Up(m, w)) /\ Up(m, w)[1] = w[1]
  <1> DEFINE n == Len(w)
             p == m[w[n].dir].parent
  <1>1. w \in Seq(Paths) /\ n \in Nat \ {0} BY DEF Chained
  <1>2. w[n] \in Paths /\ w[n].dir \in Dirs
    <2>1. n \in 1..Len(w) BY <1>1
    <2> HIDE DEF n
    <2>2. w[n] \in Paths BY <1>1, <2>1, ElementOfSeq
    <2> QED BY <2>2 DEF Paths
  <1>3. m[w[n].dir] # NoManifest /\ n \in 1..n BY <1>1 DEF Chained
  <1>4. m[w[n].dir] \in Manifests BY <1>2, <1>3 DEF Sound
  <1>5. p \in Paths \union {None} BY <1>4, ManifestIs
  <1>6. p # None => m[p.dir] # NoManifest BY <1>2, <1>3 DEF Sound
  <1>7. Up(m, w) = IF p = None THEN w ELSE Append(w, p) BY DEF Up, Last
  <1>8. CASE p = None BY <1>7, <1>8
  <1>9. CASE p # None
    <2> DEFINE v == Append(w, p)
    <2>1. p \in Paths BY <1>5, <1>9
    <2> HIDE DEF p, n
    <2>2. v \in Seq(Paths) BY <1>1, <2>1, AppendProperties
    <2>3. Len(v) = n + 1 BY <1>1, <2>1, AppendProperties DEF n
    <2>4. \A i \in 1..n : v[i] = w[i] BY <1>1, <2>1, AppendProperties DEF n
    <2>5. v[n + 1] = p BY <1>1, <2>1, AppendProperties DEF n
    <2>6. 1 \in 1..n BY <1>1
    <2> HIDE DEF v
    <2>7. \A i \in 1..n : /\ m[w[i].dir] # NoManifest
                          /\ i + 1 \in 1..n => m[w[i].dir].parent = w[i + 1]
      BY DEF Chained, n
    <2>8. p = m[w[n].dir].parent BY DEF p
    <2>9. ASSUME NEW i \in 1..(n + 1) PROVE m[v[i].dir] # NoManifest
      <3>1. CASE i = n + 1 BY <1>6, <1>9, <2>5, <3>1
      <3>2. CASE i # n + 1
        <4>1. i \in 1..n BY <1>1, <3>2
        <4> QED BY <2>4, <2>7, <4>1
      <3> QED BY <3>1, <3>2
    <2>10. ASSUME NEW i \in 1..(n + 1), i + 1 \in 1..(n + 1) PROVE m[v[i].dir].parent = v[i + 1]
      <3>1. i \in 1..n BY <1>1, <2>10
      <3>2. CASE i = n BY <2>4, <2>5, <2>8, <3>1, <3>2
      <3>3. CASE i # n
        <4>1. i + 1 \in 1..n BY <1>1, <3>1, <3>3
        <4> QED BY <2>4, <2>7, <3>1, <4>1
      <3> QED BY <3>2, <3>3
    <2>11. Chained(m, v)
      <3>1. Len(v) \in Nat \ {0} BY <1>1, <2>3
      <3> QED BY <2>2, <2>3, <2>9, <2>10, <3>1 DEF Chained
    <2> QED BY <1>7, <1>9, <2>4, <2>6, <2>11 DEF v
  <1> QED BY <1>8, <1>9

LEMMA WalkChained ==
  ASSUME ReplayAssumption, NEW m, Sound(m), NEW path \in Paths, m[path.dir] # NoManifest
  PROVE  Chained(m, WalkIn(m, path)) /\ WalkIn(m, path)[1] = path
  <1> DEFINE f == CHOOSE f : Walks(f, m, path, MaxDirs)
             S == {n \in Nat : n <= MaxDirs => Chained(m, f[n]) /\ f[n][1] = path}
  <1>0. MaxDirs \in Nat BY DEF ReplayAssumption
  <1>1. Walks(f, m, path, MaxDirs) /\ WalkIn(m, path) = f[MaxDirs] BY <1>0, WalksDefined
  <1> HIDE DEF f
  <1>2. f[0] = <<path>> BY <1>0, <1>1 DEF Walks
  <1>3. \A n \in Nat : n + 1 <= MaxDirs => f[n + 1] = Up(m, f[n])
    <2> SUFFICES ASSUME NEW n \in Nat, n + 1 <= MaxDirs PROVE f[n + 1] = Up(m, f[n])
      OBVIOUS
    <2>1. n + 1 \in 0..MaxDirs /\ n + 1 # 0 /\ (n + 1) - 1 = n BY <1>0
    <2> QED BY <1>1, <2>1 DEF Walks
  <1>4. 0 \in S
    <2>1. /\ <<path>> \in Seq(Paths) /\ Len(<<path>>) = 1 /\ <<path>>[1] = path OBVIOUS
    <2> DEFINE w == <<path>>
    <2>2. w \in Seq(Paths) /\ Len(w) = 1 /\ w[1] = path BY <2>1
    <2> HIDE DEF w
    <2>3. \A i \in 1..1 : i = 1 /\ i + 1 \notin 1..1 OBVIOUS
    <2>4. Chained(m, w) BY <2>2, <2>3 DEF Chained
    <2> QED BY <1>2, <2>2, <2>4 DEF w
  <1>5. \A n \in S \cap Nat : n + 1 \in S
    <2> SUFFICES ASSUME NEW n \in S, n + 1 <= MaxDirs
                 PROVE  Chained(m, f[n + 1]) /\ f[n + 1][1] = path
      OBVIOUS
    <2>1. n \in Nat /\ n <= MaxDirs BY <1>0
    <2>2. Chained(m, f[n]) /\ f[n][1] = path BY <2>1
    <2>3. f[n + 1] = Up(m, f[n]) BY <1>3, <2>1
    <2> QED BY <2>2, <2>3, UpChained
  <1> HIDE DEF S
  <1>6. MaxDirs \in S BY <1>0, <1>4, <1>5, Inductive
  <1> QED BY <1>0, <1>1, <1>6 DEF S

\* Two chains from one directory are one, as far as both go.
LEMMA ChainPrefix ==
  ASSUME ReplayAssumption, NEW m, NEW w, NEW v, Chained(m, w), Chained(m, v), Ends(m, v),
         w[1] = v[1]
  PROVE  Len(w) <= Len(v) /\ \A i \in 1..Len(w) : w[i] = v[i]
  <1> DEFINE S == {n \in Nat : n + 1 <= Len(w) => n + 1 <= Len(v) /\ w[n + 1] = v[n + 1]}
  <1>1. /\ w \in Seq(Paths) /\ v \in Seq(Paths)
        /\ Len(w) \in Nat \ {0} /\ Len(v) \in Nat \ {0}
    BY DEF Chained
  <1>2. 0 \in S BY <1>1
  <1>3. \A n \in S \cap Nat : n + 1 \in S
    <2> SUFFICES ASSUME NEW n \in S, (n + 1) + 1 <= Len(w)
                 PROVE  (n + 1) + 1 <= Len(v) /\ w[(n + 1) + 1] = v[(n + 1) + 1]
      OBVIOUS
    <2>1. n \in Nat /\ n + 1 <= Len(v) /\ w[n + 1] = v[n + 1] BY <1>1
    <2>2. n + 1 \in 1..Len(w) /\ (n + 1) + 1 \in 1..Len(w) /\ n + 1 \in 1..Len(v)
      BY <1>1, <2>1
    <2>3. m[w[n + 1].dir].parent = w[(n + 1) + 1] BY <2>2 DEF Chained
    <2>4. w[(n + 1) + 1] \in Paths BY <1>1, <2>2, ElementOfSeq
    <2>5. m[v[n + 1].dir].parent # None BY <2>1, <2>3, <2>4 DEF ReplayAssumption
    <2>6. n + 1 # Len(v) BY <2>5 DEF Ends
    <2>7. (n + 1) + 1 \in 1..Len(v) BY <1>1, <2>1, <2>6
    <2>8. m[v[n + 1].dir].parent = v[(n + 1) + 1] BY <2>2, <2>7 DEF Chained
    <2> QED BY <1>1, <2>1, <2>3, <2>7, <2>8
  <1> HIDE DEF S
  <1>4. \A n \in Nat : n \in S BY <1>2, <1>3, Inductive
  <1>5. ASSUME NEW i \in 1..Len(w) PROVE i <= Len(v) /\ w[i] = v[i]
    <2>1. i - 1 \in Nat /\ (i - 1) + 1 = i /\ i <= Len(w) BY <1>1
    <2>2. i - 1 \in S BY <1>4, <2>1
    <2> QED BY <2>1, <2>2 DEF S
  <1>6. Len(w) \in 1..Len(w) BY <1>1
  <1> QED BY <1>5, <1>6


-----------------------------------------------------------------------------
(* What a chain resolves.                                                  *)

Has(m, path, s) == s \in DOMAIN m[path.dir].executions

LEMMA CandidateIs ==
  ASSUME NEW m, NEW chain \in Seq(Paths), NEW s
  PROVE  /\ (\A i \in 1..Len(chain) : ~Has(m, chain[i], s)) => CandidateIn(m, chain, s) = None
         /\ \A i \in 1..Len(chain) :
              Has(m, chain[i], s) /\ (\A j \in 1..Len(chain) : Has(m, chain[j], s) => i <= j)
                => CandidateIn(m, chain, s) = chain[i]
         /\ \/ /\ CandidateIn(m, chain, s) = None
               /\ \A i \in 1..Len(chain) : ~Has(m, chain[i], s)
            \/ \E i \in 1..Len(chain) :
                 /\ CandidateIn(m, chain, s) = chain[i] /\ Has(m, chain[i], s)
                 /\ \A j \in 1..Len(chain) : Has(m, chain[j], s) => i <= j
  <1> DEFINE has == {i \in DOMAIN chain : s \in DOMAIN m[chain[i].dir].executions}
             least == CHOOSE i \in has : \A j \in has : i <= j
  <1>1. DOMAIN chain = 1..Len(chain) /\ Len(chain) \in Nat BY LenProperties
  <1>2. \A i : i \in has <=> i \in 1..Len(chain) /\ Has(m, chain[i], s) BY <1>1 DEF Has
  <1>3. CandidateIn(m, chain, s) = IF has = {} THEN None ELSE chain[least] BY DEF CandidateIn
  <1>4. has \subseteq Nat BY <1>1
  <1>5. has # {} => \E i \in has : \A j \in has : i <= j BY <1>4, Least
  <1>6. has # {} => least \in has /\ \A j \in has : least <= j BY <1>5
  <1> HIDE DEF has, least
  <1>7. \A i \in has : (\A j \in has : i <= j) => i = least
    <2> SUFFICES ASSUME NEW i \in has, \A j \in has : i <= j PROVE i = least OBVIOUS
    <2>1. least \in has /\ i <= least /\ least <= i BY <1>6
    <2>2. i \in Nat /\ least \in Nat BY <1>4, <2>1
    <2> QED BY <2>1, <2>2
  <1>8. (\A i \in 1..Len(chain) : ~Has(m, chain[i], s)) => has = {} BY <1>2
  <1>9. CASE has = {} BY <1>2, <1>3, <1>9
  <1>10. CASE has # {}
    <2>1. least \in 1..Len(chain) /\ Has(m, chain[least], s)
          /\ \A j \in 1..Len(chain) : Has(m, chain[j], s) => least <= j
      BY <1>2, <1>6, <1>10
    <2>2. CandidateIn(m, chain, s) = chain[least] BY <1>3, <1>10
    <2>3. \A i \in 1..Len(chain) :
            Has(m, chain[i], s) /\ (\A j \in 1..Len(chain) : Has(m, chain[j], s) => i <= j)
              => i = least
      BY <1>2, <1>7
    <2> QED BY <1>8, <1>10, <2>1, <2>2, <2>3
  <1> QED BY <1>9, <1>10

\* The candidate of a stage is fresh: what it consumed is what resolves.
Fresh(m, chain, R, s) ==
  LET path == CandidateIn(m, chain, s)
      consumed == m[path.dir].executions[s].consumed
  IN  path # None /\ \A dep \in DOMAIN consumed : consumed[dep] = R[dep]

\* What resolve_effective computes, without the order it goes by.
Settles(m, chain, R) ==
  /\ R \in [Stages -> Identities \union {None}]
  /\ \A s \in Stages : R[s] = IF Fresh(m, chain, R, s)
                              THEN IdentityIn(m, CandidateIn(m, chain, s), s)
                              ELSE None

\* A candidate, if there is one, is in a directory of the chain.
LEMMA CandidateTyped ==
  ASSUME NEW m, Sound(m), NEW chain, Chained(m, chain), NEW s \in Stages,
         CandidateIn(m, chain, s) # None
  PROVE  LET path == CandidateIn(m, chain, s)
         IN  /\ path \in Paths /\ m[path.dir] \in Manifests
             /\ m[path.dir] # NoManifest /\ Has(m, path, s)
             /\ IdentityIn(m, path, s) \in Identities
             /\ \E i \in 1..Len(chain) : path = chain[i]
  <1> DEFINE path == CandidateIn(m, chain, s)
  <1>1. chain \in Seq(Paths) BY DEF Chained
  <1>2. PICK i \in 1..Len(chain) : path = chain[i] /\ Has(m, chain[i], s) BY <1>1, CandidateIs
  <1> HIDE DEF path
  <1>3. path \in Paths BY <1>1, <1>2, ElementOfSeq
  <1>4. path.dir \in Dirs BY <1>3 DEF Paths
  <1>5. m[path.dir] # NoManifest BY <1>2 DEF Chained
  <1>6. m[path.dir] \in Manifests BY <1>4, <1>5 DEF Sound
  <1>7. Has(m, path, s) BY <1>2
  <1>8. m[path.dir].executions[s].seq \in Nat BY <1>6, <1>7, ManifestIs DEF Has
  <1>9. IdentityIn(m, path, s) \in Identities BY <1>3, <1>8 DEF IdentityIn, Identities
  <1> QED BY <1>2, <1>3, <1>5, <1>6, <1>7, <1>9 DEF path

\* What a candidate consumed comes before its stage.
LEMMA CandidateBefore ==
  ASSUME NEW m, Sound(m), NEW chain, Chained(m, chain), NEW s \in Stages,
         CandidateIn(m, chain, s) # None,
         NEW dep \in DOMAIN m[CandidateIn(m, chain, s).dir].executions[s].consumed
  PROVE  /\ dep \in Stages /\ Place(dep) < Place(s)
         /\ LET id == m[CandidateIn(m, chain, s).dir].executions[s].consumed[dep]
            IN  id \in Identities /\ m[id.run.dir] # NoManifest
  <1> DEFINE path == CandidateIn(m, chain, s)
  <1>1. path \in Paths /\ m[path.dir] \in Manifests /\ m[path.dir] # NoManifest
        /\ Has(m, path, s)
    BY CandidateTyped
  <1>2. path.dir \in Dirs BY <1>1 DEF Paths
  <1>3. s \in DOMAIN m[path.dir].executions BY <1>1 DEF Has
  <1>4. dep \in DOMAIN m[path.dir].executions[s].consumed OBVIOUS
  <1> HIDE DEF path
  <1>5. dep \in Stages /\ m[path.dir].executions[s].consumed[dep] \in Identities
    BY <1>1, <1>3, <1>4, ManifestIs
  <1>6. Place(dep) < Place(s) /\ m[m[path.dir].executions[s].consumed[dep].run.dir] # NoManifest
    BY <1>1, <1>2, <1>3, <1>4 DEF Sound
  <1> QED BY <1>5, <1>6 DEF path

LEMMA ResolutionSettles ==
  ASSUME NEW m, Sound(m), NEW chain, Chained(m, chain)
  PROVE  Settles(m, chain, ResolutionIn(m, chain))
  <1> DEFINE f == CHOOSE f : Resolves(f, m, chain, 12)
             Upto(n) ==
               /\ f[n] \in [Stages -> Identities \union {None}]
               /\ \A s \in Stages :
                    f[n][s] = IF Place(s) <= n /\ Fresh(m, chain, f[n], s)
                              THEN IdentityIn(m, CandidateIn(m, chain, s), s) ELSE None
             S == {n \in Nat : n <= 12 => Upto(n)}
  <1>1. Resolves(f, m, chain, 12) /\ ResolutionIn(m, chain) = f[12] BY ResolvesDefined
  <1> HIDE DEF f
  <1>2. f[0] = [s \in Stages |-> None] BY <1>1 DEF Resolves
  <1>3. \A n \in Nat : n + 1 <= 12 => f[n + 1] = Resolve(m, chain, f[n], n + 1)
    <2> SUFFICES ASSUME NEW n \in Nat, n + 1 <= 12
                 PROVE  f[n + 1] = Resolve(m, chain, f[n], n + 1)
      OBVIOUS
    <2>1. n + 1 \in 0..12 /\ n + 1 # 0 /\ (n + 1) - 1 = n OBVIOUS
    <2> QED BY <1>1, <2>1 DEF Resolves
  <1>4. 0 \in S
    <2>1. \A s \in Stages : ~(Place(s) <= 0) BY ReadOrderIs
    <2> QED BY <1>2, <2>1
  <1>5. \A n \in S \cap Nat : n + 1 \in S
    <2> SUFFICES ASSUME NEW n \in S, n + 1 <= 12 PROVE Upto(n + 1) OBVIOUS
    <2>1. n \in Nat /\ Upto(n) /\ n + 1 \in 1..12 OBVIOUS
    <2> DEFINE t == ReadOrder[n + 1]
               path == CandidateIn(m, chain, t)
               b == f[n]
               a == f[n + 1]
    <2>2. t \in Stages /\ Place(t) = n + 1 BY <2>1, ReadOrderIs
    <2>3. \A s \in Stages : Place(s) = n + 1 => s = t BY <2>1, ReadOrderIs
    <2>4. a = IF Fresh(m, chain, b, t) THEN [b EXCEPT ![t] = IdentityIn(m, path, t)] ELSE b
      BY <1>3, <2>1 DEF Resolve, Fresh
    <2>5. /\ b \in [Stages -> Identities \union {None}]
          /\ \A s \in Stages : b[s] = IF Place(s) <= n /\ Fresh(m, chain, b, s)
                                      THEN IdentityIn(m, CandidateIn(m, chain, s), s) ELSE None
      BY <2>1
    <2>6. Fresh(m, chain, b, t) => IdentityIn(m, path, t) \in Identities
      BY <2>2, CandidateTyped DEF Fresh
    <2> HIDE DEF t, a, b
    <2>7. a \in [Stages -> Identities \union {None}] BY <2>2, <2>4, <2>5, <2>6
    <2>8. \A s \in Stages : s # t => a[s] = b[s] BY <2>4, <2>5
    <2>9. ~(n + 1 <= n) BY <2>1
    <2>10. a[t] = IF Fresh(m, chain, b, t) THEN IdentityIn(m, path, t) ELSE None
      <3>1. b[t] = None BY <2>2, <2>5, <2>9
      <3> QED BY <2>2, <2>4, <2>5, <3>1
    <2>11. ASSUME NEW s \in Stages, Place(s) <= n + 1
           PROVE  Fresh(m, chain, a, s) <=> Fresh(m, chain, b, s)
      <3>1. CASE CandidateIn(m, chain, s) = None BY <3>1 DEF Fresh
      <3>2. CASE CandidateIn(m, chain, s) # None
        <4> DEFINE consumed == m[CandidateIn(m, chain, s).dir].executions[s].consumed
        <4>1. ASSUME NEW dep \in DOMAIN consumed PROVE a[dep] = b[dep]
          <5>1. dep \in Stages /\ Place(dep) < Place(s) BY <3>2, CandidateBefore
          <5>2. Place(dep) \in 1..12 /\ Place(s) \in 1..12 BY <5>1, ReadOrderIs
          <5>3. Place(dep) # n + 1 BY <2>1, <2>11, <5>1, <5>2
          <5> QED BY <2>2, <2>8, <5>1, <5>3
        <4> QED BY <4>1 DEF Fresh
      <3> QED BY <3>1, <3>2
    <2>12. ASSUME NEW s \in Stages
           PROVE  a[s] = IF Place(s) <= n + 1 /\ Fresh(m, chain, a, s)
                         THEN IdentityIn(m, CandidateIn(m, chain, s), s) ELSE None
      <3>1. CASE s = t
        <4>1. Place(s) <= n + 1 BY <2>1, <2>2, <3>1
        <4> QED BY <2>10, <2>11, <3>1, <4>1
      <3>2. CASE s # t
        <4>1. Place(s) # n + 1 BY <2>3, <3>2
        <4>2. Place(s) \in 1..12 BY ReadOrderIs
        <4>3. Place(s) <= n + 1 <=> Place(s) <= n BY <2>1, <4>1, <4>2
        <4> QED BY <2>5, <2>8, <2>11, <3>2, <4>3
      <3> QED BY <3>1, <3>2
    <2> QED BY <2>7, <2>12 DEF a
  <1> HIDE DEF S, Upto
  <1>6. 12 \in S BY <1>4, <1>5, Inductive
  <1>7. Upto(12) BY <1>6 DEF S
  <1>8. \A s \in Stages : Place(s) <= 12
    <2>1. \A s \in Stages : Place(s) \in 1..12 BY ReadOrderIs
    <2>2. \A i \in 1..12 : i <= 12 OBVIOUS
    <2> QED BY <2>1, <2>2
  <1> QED BY <1>1, <1>7, <1>8 DEF Upto, Settles


-----------------------------------------------------------------------------
(* What was read behind an execution.                                      *)

\* What one execution consumed.
Consumes(m, y) ==
  {<<AtIn(m, y[1], y[2]).consumed[dep], dep>> : dep \in DOMAIN AtIn(m, y[1], y[2]).consumed}

Closed(m, C) == \A y \in C : Consumes(m, y) \subseteq C

\* What the executions of a set consumed comes before them.
Ordered(m, C) ==
  \A y \in C : /\ y[2] \in Stages
               /\ \A dep \in DOMAIN AtIn(m, y[1], y[2]).consumed : Place(dep) < Place(y[2])

LEMMA FurtherIs ==
  ASSUME NEW m, NEW found, NEW n \in Nat
  PROVE  Further(m, found, n) =
           found \union UNION {Consumes(m, x) : x \in {y \in found : y[2] = ReadOrder[13 - n]}}
  <1>1. Len(ReadOrder) + 1 - n = 13 - n
    <2>1. Len(ReadOrder) = 12 BY ReadOrderIs
    <2>2. 12 + 1 - n = 13 - n OBVIOUS
    <2> QED BY <2>1, <2>2
  <1> DEFINE at == {y \in found : y[2] = ReadOrder[13 - n]}
  <1>2. at = {y \in found : y[2] = ReadOrder[Len(ReadOrder) + 1 - n]} BY <1>1
  <1>3. Further(m, found, n) = found \union UNION {Consumes(m, x) : x \in at}
    BY <1>2, Zenon DEF Further, Consumes
  <1> QED BY <1>3

LEMMA BehindSteps ==
  ASSUME NEW m, NEW id, NEW stage
  PROVE  \E f : /\ BehindIn(m, id, stage) = f[12] /\ f[0] = {<<id, stage>>}
                /\ \A n \in Nat : n + 1 <= 12 => f[n + 1] = Further(m, f[n], n + 1)
  <1> DEFINE f == CHOOSE f : Reads(f, m, id, stage, 12)
  <1>1. Reads(f, m, id, stage, 12) /\ BehindIn(m, id, stage) = f[12] BY ReadsDefined
  <1> HIDE DEF f
  <1>2. f[0] = {<<id, stage>>} BY <1>1 DEF Reads
  <1>3. \A n \in Nat : n + 1 <= 12 => f[n + 1] = Further(m, f[n], n + 1)
    <2> SUFFICES ASSUME NEW n \in Nat, n + 1 <= 12
                 PROVE  f[n + 1] = Further(m, f[n], n + 1)
      OBVIOUS
    <2>1. n + 1 \in 0..12 /\ n + 1 # 0 /\ (n + 1) - 1 = n OBVIOUS
    <2> QED BY <1>1, <2>1 DEF Reads
  <1> QED BY <1>1, <1>2, <1>3

\* What was read behind an execution is in every closed set with it, ...
LEMMA BehindWithin ==
  ASSUME NEW m, NEW id, NEW stage, NEW C, Closed(m, C), <<id, stage>> \in C
  PROVE  BehindIn(m, id, stage) \subseteq C
  <1>1. PICK f : /\ BehindIn(m, id, stage) = f[12] /\ f[0] = {<<id, stage>>}
                 /\ \A n \in Nat : n + 1 <= 12 => f[n + 1] = Further(m, f[n], n + 1)
    BY BehindSteps
  <1> DEFINE S == {n \in Nat : n <= 12 => f[n] \subseteq C}
  <1>2. 0 \in S BY <1>1
  <1>3. \A n \in S \cap Nat : n + 1 \in S
    <2> SUFFICES ASSUME NEW n \in S, n + 1 <= 12 PROVE f[n + 1] \subseteq C OBVIOUS
    <2>1. n \in Nat /\ f[n] \subseteq C OBVIOUS
    <2>2. f[n + 1] = Further(m, f[n], n + 1) BY <1>1, <2>1
    <2> QED BY <2>1, <2>2, FurtherIs DEF Closed
  <1> HIDE DEF S
  <1>4. 12 \in S BY <1>2, <1>3, Inductive
  <1>5. f[12] \subseteq C BY <1>4 DEF S
  <1> QED BY <1>1, <1>5

\* ... and is one itself.
LEMMA BehindCloses ==
  ASSUME NEW m, NEW id, NEW stage, NEW C, Closed(m, C), Ordered(m, C), <<id, stage>> \in C
  PROVE  Closed(m, BehindIn(m, id, stage)) /\ <<id, stage>> \in BehindIn(m, id, stage)
  <1>1. PICK f : /\ BehindIn(m, id, stage) = f[12] /\ f[0] = {<<id, stage>>}
                 /\ \A n \in Nat : n + 1 <= 12 => f[n + 1] = Further(m, f[n], n + 1)
    BY BehindSteps
  <1> DEFINE Done(n) == /\ f[n] \subseteq C /\ <<id, stage>> \in f[n]
                        /\ \A y \in f[n] : Place(y[2]) > 12 - n => Consumes(m, y) \subseteq f[n]
             S == {n \in Nat : n <= 12 => Done(n)}
  <1>2. 0 \in S
    <2>1. f[0] = {<<id, stage>>} BY <1>1
    <2>2. stage \in Stages BY DEF Ordered
    <2>3. Place(stage) \in 1..12 BY <2>2, ReadOrderIs
    <2>4. ~(Place(stage) > 12 - 0) BY <2>3
    <2> QED BY <2>1, <2>4
  <1>3. \A n \in S \cap Nat : n + 1 \in S
    <2> SUFFICES ASSUME NEW n \in S, n + 1 <= 12 PROVE Done(n + 1) OBVIOUS
    <2>1. n \in Nat /\ Done(n) /\ 12 - n \in 1..12 /\ 13 - (n + 1) = 12 - n OBVIOUS
    <2> DEFINE t == ReadOrder[12 - n]
               b == f[n]
               a == f[n + 1]
    <2>2. t \in Stages /\ Place(t) = 12 - n BY <2>1, ReadOrderIs
    <2>3. \A s \in Stages : Place(s) = 12 - n => s = t BY <2>1, ReadOrderIs
    <2>4. a = b \union UNION {Consumes(m, x) : x \in {y \in b : y[2] = t}}
      BY <1>1, <2>1, FurtherIs
    <2>5. /\ b \subseteq C /\ <<id, stage>> \in b
          /\ \A y \in b : Place(y[2]) > 12 - n => Consumes(m, y) \subseteq b
      BY <2>1
    <2> HIDE DEF t, a, b
    <2>6. a \subseteq C /\ <<id, stage>> \in a BY <2>4, <2>5 DEF Closed
    <2>7. ASSUME NEW y \in a, Place(y[2]) > 12 - (n + 1) PROVE Consumes(m, y) \subseteq a
      <3>1. y \in C /\ y[2] \in Stages BY <2>6 DEF Ordered
      <3>2. Place(y[2]) \in 1..12 BY <3>1, ReadOrderIs
      <3>3. CASE y \in b /\ y[2] = t BY <2>4, <3>3
      <3>4. CASE y \in b /\ y[2] # t
        <4>1. Place(y[2]) # 12 - n BY <2>3, <3>1, <3>4
        <4>2. Place(y[2]) > 12 - n BY <2>1, <2>7, <3>2, <4>1
        <4> QED BY <2>4, <2>5, <3>4, <4>2
      <3>5. CASE y \notin b
        <4>1. PICK x \in b : x[2] = t /\ y \in Consumes(m, x) BY <2>4, <3>5
        <4>2. PICK dep \in DOMAIN AtIn(m, x[1], x[2]).consumed : y[2] = dep
          BY <4>1 DEF Consumes
        <4>3. x \in C BY <2>5, <4>1
        <4>4. Place(dep) < Place(t) BY <4>1, <4>2, <4>3 DEF Ordered
        <4>5. Place(y[2]) < 12 - n BY <2>2, <4>2, <4>4
        <4> QED BY <2>1, <2>7, <3>2, <4>5
      <3> QED BY <3>3, <3>4, <3>5
    <2> QED BY <2>6, <2>7 DEF a
  <1> HIDE DEF S
  <1>4. 12 \in S BY <1>2, <1>3, Inductive
  <1>5. Done(12) BY <1>4 DEF S
  <1>6. \A y \in f[12] : Place(y[2]) > 12 - 12
    <2> SUFFICES ASSUME NEW y \in f[12] PROVE Place(y[2]) > 12 - 12 OBVIOUS
    <2>1. y[2] \in Stages BY <1>5 DEF Ordered
    <2>2. Place(y[2]) \in 1..12 BY <2>1, ReadOrderIs
    <2> QED BY <2>2
  <1>7. \A y \in f[12] : Consumes(m, y) \subseteq f[12] BY <1>5, <1>6
  <1> QED BY <1>1, <1>5, <1>7 DEF Closed


LEMMA StagesFinite == IsFiniteSet(Stages)
  <1> DEFINE f == [s \in Stages |-> Place(s)]
  <1>1. \A s \in Stages : Place(s) \in 1..12 /\ ReadOrder[Place(s)] = s BY ReadOrderIs
  <1>2. f \in [Stages -> 1..12] BY <1>1
  <1>3. \A s, t \in Stages : f[s] = f[t] => s = t BY <1>1
  <1> HIDE DEF f
  <1>4. f \in Injection(Stages, 1..12) BY <1>2, <1>3 DEF Injection, IsInjective
  <1>5. IsFiniteSet(1..12)
    <2>1. 1 \in Int /\ 12 \in Int OBVIOUS
    <2> QED BY <2>1, FS_Interval
  <1> QED BY <1>4, <1>5, FS_Injection

\* Of each stage one: as many executions as stages.
LEMMA OneOfEach ==
  ASSUME NEW B, \A x \in B : x[2] \in Stages, \A x, y \in B : x[2] = y[2] => x = y
  PROVE  Cardinality(B) = Cardinality({x[2] : x \in B})
  <1> DEFINE T == {x[2] : x \in B}
             f == [x \in B |-> x[2]]
  <1>1. T \subseteq Stages OBVIOUS
  <1>2. IsFiniteSet(T) BY <1>1, StagesFinite, FS_Subset
  <1>3. f \in [B -> T] OBVIOUS
  <1>4. \A x, y \in B : f[x] = f[y] => x = y OBVIOUS
  <1>5. \A t \in T : \E x \in B : f[x] = t OBVIOUS
  <1> HIDE DEF f, T
  <1>6. f \in Injection(B, T) BY <1>3, <1>4 DEF Injection, IsInjective
  <1>7. f \in Surjection(B, T) BY <1>3, <1>5 DEF Surjection
  <1>8. Cardinality(B) = Cardinality(T) BY <1>2, <1>6, <1>7, FS_Injection
  <1> QED BY <1>8 DEF T

\* An execution that resolves consumed what resolves.
LEMMA ResolvedIs ==
  ASSUME ReplayAssumption, NEW m, Sound(m), NEW chain, Chained(m, chain), NEW R,
         Settles(m, chain, R), NEW t \in Stages, R[t] # None
  PROVE  /\ R[t] = IdentityIn(m, CandidateIn(m, chain, t), t)
         /\ CandidateIn(m, chain, t) # None
         /\ R[t] \in Identities
         /\ R[t].run.dir \in Dirs
         /\ \E i \in 1..Len(chain) : R[t].run = chain[i]
         /\ t \in DOMAIN m[R[t].run.dir].executions
         /\ m[R[t].run.dir] \in Manifests
         /\ m[R[t].run.dir] # NoManifest
         /\ AtIn(m, R[t], t) = m[CandidateIn(m, chain, t).dir].executions[t]
         /\ \A dep \in DOMAIN AtIn(m, R[t], t).consumed :
              /\ dep \in Stages /\ Place(dep) < Place(t)
              /\ AtIn(m, R[t], t).consumed[dep] = R[dep]
              /\ R[dep] # None
  <1> DEFINE path == CandidateIn(m, chain, t)
  <1>1. /\ R[t] = IdentityIn(m, path, t) /\ path # None
        /\ \A dep \in DOMAIN m[path.dir].executions[t].consumed :
              m[path.dir].executions[t].consumed[dep] = R[dep]
    BY DEF Settles, Fresh
  <1>2. /\ path \in Paths /\ m[path.dir] \in Manifests /\ m[path.dir] # NoManifest
        /\ Has(m, path, t) /\ \E i \in 1..Len(chain) : path = chain[i]
    BY <1>1, CandidateTyped
  <1>3. R[t] \in Identities BY <1>1 DEF Settles
  <1>4. R[t].run = path BY <1>1 DEF IdentityIn
  <1>5. AtIn(m, R[t], t) = m[path.dir].executions[t] BY <1>4 DEF AtIn
  <1>6. path.dir \in Dirs BY <1>2 DEF Paths
  <1>7. ASSUME NEW dep \in DOMAIN m[path.dir].executions[t].consumed
        PROVE  dep \in Stages /\ Place(dep) < Place(t)
               /\ m[path.dir].executions[t].consumed[dep] \in Identities
    BY <1>1, CandidateBefore
  <1>8. \A x \in Identities : x # None BY DEF ReplayAssumption
  <1> HIDE DEF path
  <1>9. \A dep \in DOMAIN m[path.dir].executions[t].consumed : R[dep] # None
    BY <1>1, <1>7, <1>8
  <1>10. t \in DOMAIN m[path.dir].executions BY <1>2 DEF Has
  <1>11. \A dep \in DOMAIN AtIn(m, R[t], t).consumed :
              /\ dep \in Stages /\ Place(dep) < Place(t)
              /\ AtIn(m, R[t], t).consumed[dep] = R[dep]
              /\ R[dep] # None
    BY <1>1, <1>5, <1>7, <1>9
  <1>12. /\ R[t].run.dir \in Dirs
         /\ t \in DOMAIN m[R[t].run.dir].executions
         /\ m[R[t].run.dir] \in Manifests
         /\ m[R[t].run.dir] # NoManifest
    BY <1>2, <1>4, <1>6, <1>10
  <1>13. \E i \in 1..Len(chain) : R[t].run = chain[i] BY <1>2, <1>4
  <1>14. path = CandidateIn(m, chain, t) BY DEF path
  <1>15. R[t] = IdentityIn(m, path, t) /\ path # None BY <1>1
  <1> QED BY <1>3, <1>5, <1>11, <1>12, <1>13, <1>14, <1>15


-----------------------------------------------------------------------------
(* A replay into a directory without a manifest.                           *)

Tip(d) == [dir |-> d, as |-> "recorded"]

\* From m to n, a replay of stage s adds directory out to the chain of source.
Grows(m, n, out, source, s) ==
  /\ out \in Dirs /\ s \in Stages /\ source \in Paths
  /\ Sound(m) /\ Sound(n)
  /\ m[out] = NoManifest /\ n[out] # NoManifest /\ m[source.dir] # NoManifest
  /\ \A d \in Dirs : d # out => n[d] = m[d]
  /\ n[out].parent = source /\ DOMAIN n[out].executions = {s}
  /\ Ends(m, WalkIn(m, source)) /\ Ends(n, WalkIn(n, Tip(out)))

LEMMA SameInterval == ASSUME NEW k \in Nat, NEW l \in Nat, 1..l = 1..(k + 1) PROVE l = k + 1
  <1>1. k + 1 \in 1..l OBVIOUS
  <1>2. k + 1 <= l BY <1>1
  <1>3. l \in 1..l BY <1>2
  <1>4. l \in 1..(k + 1) BY <1>3
  <1> QED BY <1>2, <1>4

LEMMA GrownChain ==
  ASSUME ReplayAssumption, NEW m, NEW n, NEW out, NEW source, NEW s,
         Grows(m, n, out, source, s)
  PROVE  LET W == WalkIn(m, source)
             V == WalkIn(n, Tip(out))
         IN  /\ Chained(m, W) /\ Chained(n, V) /\ V[1] = Tip(out)
             /\ Len(V) = Len(W) + 1
             /\ \A i \in 1..Len(W) : V[i + 1] = W[i] /\ W[i].dir \in Dirs /\ W[i].dir # out
  <1> DEFINE W == WalkIn(m, source)
             V == WalkIn(n, Tip(out))
             k == Len(W)
             U == [i \in 1..(k + 1) |-> IF i = 1 THEN Tip(out) ELSE W[i - 1]]
  <1>1. Chained(m, W) /\ W[1] = source /\ Ends(m, W) BY WalkChained DEF Grows
  <1>2. Tip(out) \in Paths BY DEF Grows, Tip, Paths
  <1>3. Chained(n, V) /\ V[1] = Tip(out) /\ Ends(n, V)
    <2>1. Tip(out).dir = out BY DEF Tip
    <2> QED BY <1>2, <2>1, WalkChained DEF Grows
  <1> HIDE DEF V, W
  <1>4. W \in Seq(Paths) /\ k \in Nat \ {0} BY <1>1 DEF Chained
  <1>5. \A i \in 1..k : /\ W[i] \in Paths /\ W[i].dir \in Dirs /\ W[i].dir # out
                        /\ m[W[i].dir] # NoManifest /\ n[W[i].dir] = m[W[i].dir]
    <2> TAKE i \in 1..k
    <2>1. W[i] \in Paths BY <1>4, ElementOfSeq
    <2>2. W[i].dir \in Dirs BY <2>1 DEF Paths
    <2>3. m[W[i].dir] # NoManifest BY <1>1 DEF Chained
    <2> QED BY <2>1, <2>2, <2>3 DEF Grows
  <1> HIDE DEF k
  <1>6. \A i \in 1..(k + 1) : i # 1 => i - 1 \in 1..k BY <1>4
  <1>7. U \in [1..(k + 1) -> Paths] BY <1>2, <1>5, <1>6
  <1>8. /\ U[1] = Tip(out) /\ DOMAIN U = 1..(k + 1)
        /\ \A i \in 1..k : i + 1 \in 1..(k + 1) /\ U[i + 1] = W[i]
    <2>1. 1 \in 1..(k + 1) BY <1>4
    <2>2. \A i \in 1..k : i + 1 \in 1..(k + 1) /\ i + 1 # 1 /\ (i + 1) - 1 = i BY <1>4
    <2> QED BY <2>1, <2>2
  <1> HIDE DEF U
  <1>9. U \in Seq(Paths)
    <2>1. k + 1 \in Nat BY <1>4
    <2> QED BY <1>7, <2>1, SeqDef
  <1>10. Len(U) = k + 1
    <2> DEFINE l == Len(U)
    <2>1. l \in Nat /\ DOMAIN U = 1..l BY <1>9, LenProperties
    <2>2. 1..l = 1..(k + 1) BY <1>8, <2>1
    <2> HIDE DEF l
    <2>3. l = k + 1 BY <1>4, <2>1, <2>2, SameInterval
    <2> QED BY <2>3 DEF l
  <1>11. ASSUME NEW i \in 1..(k + 1) PROVE n[U[i].dir] # NoManifest
    <2>1. CASE i = 1
      <3>1. Tip(out).dir = out BY DEF Tip
      <3> QED BY <1>8, <2>1, <3>1 DEF Grows
    <2>2. CASE i # 1
      <3>1. i - 1 \in 1..k /\ (i - 1) + 1 = i BY <1>6, <2>2
      <3>2. U[i] = W[i - 1] BY <1>8, <3>1
      <3> QED BY <1>5, <3>1, <3>2
    <2> QED BY <2>1, <2>2
  <1>12. ASSUME NEW i \in 1..(k + 1), i + 1 \in 1..(k + 1) PROVE n[U[i].dir].parent = U[i + 1]
    <2>1. i \in 1..k /\ U[i + 1] = W[i] BY <1>4, <1>8, <1>12
    <2>2. CASE i = 1
      <3>1. Tip(out).dir = out BY DEF Tip
      <3> QED BY <1>1, <1>8, <2>1, <2>2, <3>1 DEF Grows
    <2>3. CASE i # 1
      <3>1. i - 1 \in 1..k /\ (i - 1) + 1 = i BY <1>6, <2>3
      <3>2. U[i] = W[i - 1] BY <1>8, <3>1
      <3>3. m[W[i - 1].dir].parent = W[i]
        <4>1. (i - 1) + 1 \in 1..Len(W) BY <2>1, <3>1 DEF k
        <4>2. i - 1 \in 1..Len(W) BY <3>1 DEF k
        <4> DEFINE j == i - 1
        <4>3. j + 1 = i BY <3>1
        <4>4. j \in 1..Len(W) /\ j + 1 \in 1..Len(W) BY <4>1, <4>2
        <4> HIDE DEF j
        <4>5. m[W[j].dir].parent = W[j + 1] BY <1>1, <4>4 DEF Chained
        <4> QED BY <4>3, <4>5 DEF j
      <3> QED BY <1>5, <2>1, <3>1, <3>2, <3>3
    <2> QED BY <2>2, <2>3
  <1>13. Chained(n, U)
    <2>1. Len(U) \in Nat \ {0} BY <1>4, <1>10
    <2> QED BY <1>9, <1>10, <1>11, <1>12, <2>1 DEF Chained
  <1>14. Ends(n, U)
    <2>1. k \in 1..k /\ U[k + 1] = W[k] BY <1>4, <1>8
    <2>2. m[W[k].dir].parent = None BY <1>1 DEF Ends, k
    <2> QED BY <1>5, <1>10, <2>1, <2>2 DEF Ends
  <1>15. U[1] = V[1] BY <1>3, <1>8
  <1>16. Len(U) <= Len(V) /\ \A i \in 1..Len(U) : U[i] = V[i]
    BY <1>3, <1>13, <1>15, ChainPrefix
  <1>17. Len(V) <= Len(U) BY <1>3, <1>13, <1>14, <1>15, ChainPrefix
  <1>18. Len(V) \in Nat BY <1>3 DEF Chained
  <1>19. Len(V) = k + 1 BY <1>4, <1>10, <1>16, <1>17, <1>18
  <1>20. \A i \in 1..k : V[i + 1] = W[i] BY <1>8, <1>10, <1>16
  <1> QED BY <1>1, <1>3, <1>5, <1>19, <1>20 DEF V, W, k

\* Its candidate is the stage replayed; of the others the one it was.
LEMMA GrownCandidate ==
  ASSUME ReplayAssumption, NEW m, NEW n, NEW out, NEW source, NEW s,
         Grows(m, n, out, source, s)
  PROVE  LET W == WalkIn(m, source)
             V == WalkIn(n, Tip(out))
         IN  /\ CandidateIn(n, V, s) = Tip(out)
             /\ \A t \in Stages : t # s => CandidateIn(n, V, t) = CandidateIn(m, W, t)
  <1> DEFINE W == WalkIn(m, source)
             V == WalkIn(n, Tip(out))
             k == Len(W)
  <1>1. /\ Chained(m, W) /\ Chained(n, V) /\ V[1] = Tip(out) /\ Len(V) = k + 1
        /\ \A i \in 1..k : V[i + 1] = W[i] /\ W[i].dir \in Dirs /\ W[i].dir # out
    BY GrownChain
  <1> HIDE DEF W, V
  <1>2. W \in Seq(Paths) /\ V \in Seq(Paths) /\ k \in Nat BY <1>1 DEF Chained
  <1> HIDE DEF k
  <1>3. \A t : Has(n, Tip(out), t) <=> t = s
    <2>1. Tip(out).dir = out BY DEF Tip
    <2> QED BY <2>1 DEF Has, Grows
  <1>4. 1 \in 1..Len(V) /\ \A j \in 1..Len(V) : 1 <= j BY <1>1, <1>2
  <1>5. CandidateIn(n, V, s) = Tip(out)
    <2>1. Has(n, V[1], s) BY <1>1, <1>3
    <2> QED BY <1>1, <1>2, <1>4, <2>1, CandidateIs
  <1>6. ASSUME NEW t \in Stages, t # s PROVE CandidateIn(n, V, t) = CandidateIn(m, W, t)
    <2>1. ~Has(n, V[1], t) BY <1>1, <1>3, <1>6
    <2>2. \A i \in 1..k : Has(n, V[i + 1], t) <=> Has(m, W[i], t) BY <1>1 DEF Has, Grows
    <2>3. \A j \in 1..Len(V) : j = 1 \/ (j - 1 \in 1..k /\ (j - 1) + 1 = j) BY <1>1, <1>2
    <2>4. \A j \in 1..Len(V) : Has(n, V[j], t) => j - 1 \in 1..k /\ Has(m, W[j - 1], t)
      BY <2>1, <2>2, <2>3
    <2>5. CASE \A i \in 1..k : ~Has(m, W[i], t)
      <3>1. \A j \in 1..Len(V) : ~Has(n, V[j], t) BY <2>4, <2>5
      <3>2. CandidateIn(n, V, t) = None BY <1>2, <3>1, CandidateIs
      <3>3. CandidateIn(m, W, t) = None BY <1>2, <2>5, CandidateIs DEF k
      <3> QED BY <3>2, <3>3
    <2>6. CASE ~ \A i \in 1..k : ~Has(m, W[i], t)
      <3>1. PICK i \in 1..k : /\ CandidateIn(m, W, t) = W[i] /\ Has(m, W[i], t)
                              /\ \A j \in 1..k : Has(m, W[j], t) => i <= j
        BY <1>2, <2>6, CandidateIs DEF k
      <3>2. i + 1 \in 1..Len(V) /\ Has(n, V[i + 1], t) /\ V[i + 1] = W[i]
        BY <1>1, <1>2, <2>2, <3>1
      <3>3. ASSUME NEW j \in 1..Len(V), Has(n, V[j], t) PROVE i + 1 <= j
        <4>1. j - 1 \in 1..k /\ Has(m, W[j - 1], t) BY <2>4, <3>3
        <4>2. i <= j - 1 BY <3>1, <4>1
        <4> QED BY <1>1, <1>2, <4>2
      <3> DEFINE h == i + 1
      <3>4. h \in 1..Len(V) /\ Has(n, V[h], t) /\ \A j \in 1..Len(V) : Has(n, V[j], t) => h <= j
        BY <3>2, <3>3
      <3> HIDE DEF h
      <3>5. CandidateIn(n, V, t) = V[h] BY <1>2, <3>4, CandidateIs
      <3> QED BY <3>1, <3>2, <3>5 DEF h
    <2> QED BY <2>5, <2>6
  <1> QED BY <1>5, <1>6 DEF V, W


\* What the replay consumed is what the chain of its source resolves.
ReadsResolved(m, n, out, source, s) ==
  \A dep \in DOMAIN n[out].executions[s].consumed :
    /\ n[out].executions[s].consumed[dep] = ResolutionIn(m, WalkIn(m, source))[dep]
    /\ n[out].executions[s].consumed[dep] # None

\* What resolved before is still as it was.
LEMMA GrownKeeps ==
  ASSUME ReplayAssumption, NEW m, NEW n, NEW out, NEW source, NEW s,
         Grows(m, n, out, source, s),
         NEW t \in Stages, ResolutionIn(m, WalkIn(m, source))[t] # None
  PROVE  LET id == ResolutionIn(m, WalkIn(m, source))[t]
         IN  /\ id.run.dir # out /\ n[id.run.dir] = m[id.run.dir]
             /\ AtIn(n, id, t) = AtIn(m, id, t)
  <1> DEFINE W == WalkIn(m, source)
             R == ResolutionIn(m, W)
  <1>1. /\ Chained(m, W)
        /\ \A i \in 1..Len(W) : W[i].dir \in Dirs /\ W[i].dir # out
    BY GrownChain
  <1> HIDE DEF W
  <1>2. Sound(m) BY DEF Grows
  <1>3. Settles(m, W, R) BY <1>1, <1>2, ResolutionSettles
  <1>4. R[t] # None BY DEF W
  <1> HIDE DEF R
  <1>5. \E i \in 1..Len(W) : R[t].run = W[i] BY <1>1, <1>2, <1>3, <1>4, ResolvedIs
  <1>6. R[t].run.dir \in Dirs /\ R[t].run.dir # out BY <1>1, <1>5
  <1>7. n[R[t].run.dir] = m[R[t].run.dir] BY <1>6 DEF Grows
  <1>8. AtIn(n, R[t], t) = AtIn(m, R[t], t) BY <1>7 DEF AtIn
  <1> QED BY <1>6, <1>7, <1>8 DEF R, W

LEMMA TipIs ==
  ASSUME ReplayAssumption, NEW m, NEW n, NEW out, NEW source, NEW s,
         Grows(m, n, out, source, s)
  PROVE  LET id == IdentityIn(n, Tip(out), s)
         IN  /\ AtIn(n, id, s) = n[out].executions[s]
             /\ \A dep \in DOMAIN n[out].executions[s].consumed :
                  dep \in Stages /\ Place(dep) < Place(s)
  <1>1. Tip(out).dir = out BY DEF Tip
  <1> DEFINE id == IdentityIn(n, Tip(out), s)
  <1>2. id.run = Tip(out) BY DEF IdentityIn
  <1> HIDE DEF id
  <1>3. AtIn(n, id, s) = n[out].executions[s] BY <1>1, <1>2 DEF AtIn
  <1>4. n[out] \in Manifests /\ s \in DOMAIN n[out].executions BY DEF Grows, Sound
  <1>5. DOMAIN n[out].executions[s].consumed \subseteq Stages BY <1>4, ManifestIs
  <1>6. \A dep \in DOMAIN n[out].executions[s].consumed : Place(dep) < Place(s)
    BY <1>4 DEF Grows, Sound
  <1> QED BY <1>3, <1>5, <1>6 DEF id

LEMMA ReplayMixesNothing ==
  ASSUME ReplayAssumption, NEW m, NEW n, NEW out, NEW source, NEW s,
         Grows(m, n, out, source, s), ReadsResolved(m, n, out, source, s)
  PROVE  LET behind == BehindIn(n, IdentityIn(n, Tip(out), s), s)
         IN  Cardinality(behind) = Cardinality({x[2] : x \in behind})
  <1> DEFINE W == WalkIn(m, source)
             R == ResolutionIn(m, W)
             id == IdentityIn(n, Tip(out), s)
             T == {t \in Stages : R[t] # None /\ Place(t) < Place(s)}
             C == {<<id, s>>} \union {<<R[t], t>> : t \in T}
             behind == BehindIn(n, id, s)
             c == n[out].executions[s].consumed
  <1>1. Chained(m, W) BY GrownChain
  <1>2. s \in Stages /\ Sound(m) BY DEF Grows
  <1>3. Settles(m, W, R) BY <1>1, <1>2, ResolutionSettles
  <1>4. /\ AtIn(n, id, s).consumed = c
        /\ \A dep \in DOMAIN c : dep \in Stages /\ Place(dep) < Place(s)
    BY TipIs
  <1>5. \A dep \in DOMAIN c : c[dep] = R[dep] /\ R[dep] # None BY DEF ReadsResolved
  <1>6. \A t \in T : AtIn(n, R[t], t) = AtIn(m, R[t], t) BY GrownKeeps
  <1> HIDE DEF W, c, id
  <1>7. \A t \in T : \A dep \in DOMAIN AtIn(m, R[t], t).consumed :
          dep \in Stages /\ Place(dep) < Place(t) /\ AtIn(m, R[t], t).consumed[dep] = R[dep]
          /\ R[dep] # None
    <2> HIDE DEF R
    <2> QED BY <1>1, <1>2, <1>3, ResolvedIs
  <1> HIDE DEF R
  <1>8. \A t \in Stages : Place(t) \in Nat
    <2>1. \A t \in Stages : Place(t) \in 1..12 BY ReadOrderIs
    <2>2. 1..12 \subseteq Nat OBVIOUS
    <2> QED BY <2>1, <2>2
  <1>9. \A t \in T : \A dep \in DOMAIN AtIn(m, R[t], t).consumed : dep \in T
    <2> SUFFICES ASSUME NEW t \in T, NEW dep \in DOMAIN AtIn(m, R[t], t).consumed
                 PROVE  dep \in T
      OBVIOUS
    <2>1. dep \in Stages /\ R[dep] # None /\ Place(dep) < Place(t) /\ Place(t) < Place(s)
      BY <1>7
    <2>2. Place(dep) \in Nat /\ Place(t) \in Nat /\ Place(s) \in Nat BY <1>2, <1>8, <2>1
    <2>3. Place(dep) < Place(s) BY <2>1, <2>2
    <2> QED BY <2>1, <2>3
  <1>10. \A dep \in DOMAIN c : dep \in T BY <1>4, <1>5
  <1>11. Closed(n, C)
    <2>1. ASSUME NEW y \in C PROVE Consumes(n, y) \subseteq C
      <3>1. CASE y = <<id, s>>
        <4>1. y[1] = id /\ y[2] = s BY <3>1
        <4>2. Consumes(n, y) = {<<c[dep], dep>> : dep \in DOMAIN c} BY <1>4, <4>1 DEF Consumes
        <4>3. \A dep \in DOMAIN c : <<c[dep], dep>> = <<R[dep], dep>> BY <1>5
        <4> QED BY <1>10, <4>2, <4>3
      <3>2. CASE y \in {<<R[t], t>> : t \in T}
        <4>1. PICK t \in T : y = <<R[t], t>> BY <3>2
        <4>2. y[1] = R[t] /\ y[2] = t BY <4>1
        <4> DEFINE d == AtIn(m, R[t], t).consumed
        <4>3. Consumes(n, y) = {<<d[dep], dep>> : dep \in DOMAIN d}
          BY <1>6, <4>2 DEF Consumes
        <4>4. \A dep \in DOMAIN d : <<d[dep], dep>> = <<R[dep], dep>> /\ dep \in T
          BY <1>7, <1>9
        <4> HIDE DEF d
        <4> QED BY <4>3, <4>4
      <3> QED BY <3>1, <3>2
    <2> QED BY <2>1 DEF Closed
  <1>12. behind \subseteq C BY <1>11, BehindWithin
  <1>13. \A x \in C : x[2] \in Stages BY <1>2
  <1>14. \A x, y \in C : x[2] = y[2] => x = y
    <2>1. s \notin T
      <3>1. Place(s) \in Nat BY <1>2, <1>8
      <3>2. ~(Place(s) < Place(s)) BY <3>1
      <3> QED BY <3>2
    <2> HIDE DEF T
    <2>2. \A x \in C : (x = <<id, s>> /\ x[2] = s) \/ (x[2] \in T /\ x = <<R[x[2]], x[2]>>)
      OBVIOUS
    <2> QED BY <2>1, <2>2
  <1> HIDE DEF C, behind
  <1>15. Cardinality(behind) = Cardinality({x[2] : x \in behind})
    BY <1>12, <1>13, <1>14, OneOfEach
  <1> QED BY <1>15 DEF behind, id


LEMMA PlacesNatural == \A t \in Stages : Place(t) \in Nat
  <1>1. \A t \in Stages : Place(t) \in 1..12 BY ReadOrderIs
  <1>2. 1..12 \subseteq Nat OBVIOUS
  <1> QED BY <1>1, <1>2

\* A candidate p that is q after a write of out, and whose record is what it was.
SameRecord(m, n, out, p, q, t) ==
  /\ q = p
  /\ p # None =>
       /\ n[p.dir] = m[p.dir] /\ IdentityIn(n, p, t) = IdentityIn(m, p, t)
       /\ IdentityIn(m, p, t) \in Identities
       /\ \A dep \in DOMAIN m[p.dir].executions[t].consumed :
            /\ dep \in Stages /\ Place(dep) < Place(t)
            /\ m[p.dir].executions[t].consumed[dep] \in Identities
            /\ m[p.dir].executions[t].consumed[dep].run.dir # out

\* Of a stage not replayed, the candidate and its record are what they were.
LEMMA GrownRecord ==
  ASSUME ReplayAssumption, NEW m, NEW n, NEW out, NEW source, NEW s,
         Grows(m, n, out, source, s), NEW t \in Stages, t # s
  PROVE  SameRecord(m, n, out, CandidateIn(m, WalkIn(m, source), t),
                    CandidateIn(n, WalkIn(n, Tip(out)), t), t)
  <1> DEFINE W == WalkIn(m, source)
             V == WalkIn(n, Tip(out))
             p == CandidateIn(m, W, t)
  <1>1. /\ Chained(m, W)
        /\ \A i \in 1..Len(W) : W[i].dir \in Dirs /\ W[i].dir # out
    BY GrownChain
  <1>2. CandidateIn(n, V, t) = p BY GrownCandidate
  <1> HIDE DEF W, V
  <1>3. Sound(m) BY DEF Grows
  <1>4. ASSUME p # None
        PROVE  /\ n[p.dir] = m[p.dir] /\ IdentityIn(n, p, t) = IdentityIn(m, p, t)
               /\ IdentityIn(m, p, t) \in Identities
               /\ \A dep \in DOMAIN m[p.dir].executions[t].consumed :
                       /\ dep \in Stages /\ Place(dep) < Place(t)
                       /\ m[p.dir].executions[t].consumed[dep] \in Identities
                       /\ m[p.dir].executions[t].consumed[dep].run.dir # out
    <2>1. (\E i \in 1..Len(W) : p = W[i]) /\ IdentityIn(m, p, t) \in Identities
      BY <1>1, <1>3, <1>4, CandidateTyped
    <2>2. \A dep \in DOMAIN m[p.dir].executions[t].consumed :
            /\ dep \in Stages /\ Place(dep) < Place(t)
            /\ m[p.dir].executions[t].consumed[dep] \in Identities
            /\ m[m[p.dir].executions[t].consumed[dep].run.dir] # NoManifest
      BY <1>1, <1>3, <1>4, CandidateBefore
    <2> HIDE DEF p
    <2>3. p.dir \in Dirs /\ p.dir # out BY <1>1, <2>1
    <2>4. n[p.dir] = m[p.dir] BY <2>3 DEF Grows
    <2>5. IdentityIn(n, p, t) = IdentityIn(m, p, t) BY <2>4 DEF IdentityIn
    <2>6. m[out] = NoManifest BY DEF Grows
    <2> QED BY <2>1, <2>2, <2>4, <2>5, <2>6
  <1> DEFINE q == CandidateIn(n, V, t)
  <1>5. q = p BY <1>2
  <1> HIDE DEF p, q
  <1>6. SameRecord(m, n, out, p, q, t) BY <1>4, <1>5 DEF SameRecord
  <1> QED BY <1>6 DEF W, V, p, q

\* The stages before the one replayed resolve as they did.
LEMMA GrownBelow ==
  ASSUME ReplayAssumption, NEW m, NEW n, NEW out, NEW source, NEW s,
         Grows(m, n, out, source, s),
         NEW R, R = ResolutionIn(m, WalkIn(m, source)),
         NEW Q, Q = ResolutionIn(n, WalkIn(n, Tip(out)))
  PROVE  /\ Settles(m, WalkIn(m, source), R) /\ Settles(n, WalkIn(n, Tip(out)), Q)
         /\ \A t \in Stages : Place(t) < Place(s) => Q[t] = R[t]
  <1> DEFINE W == WalkIn(m, source)
             V == WalkIn(n, Tip(out))
             S == {k \in Nat : \A t \in Stages : Place(t) < k /\ Place(t) < Place(s) => Q[t] = R[t]}
  <1>1. Sound(m) /\ Sound(n) /\ s \in Stages BY DEF Grows
  <1>2. Chained(m, W) /\ Chained(n, V) BY GrownChain
  <1>3. Settles(m, W, R) /\ Settles(n, V, Q) BY <1>1, <1>2, ResolutionSettles
  <1>4. 0 \in S
    <2>1. \A t \in Stages : ~(Place(t) < 0)
      <3> SUFFICES ASSUME NEW t \in Stages PROVE ~(Place(t) < 0) OBVIOUS
      <3>1. Place(t) \in Nat BY PlacesNatural
      <3> QED BY <3>1
    <2> QED BY <2>1
  <1>5. \A k \in S \cap Nat : k + 1 \in S
    <2> SUFFICES ASSUME NEW k \in S, NEW t \in Stages, Place(t) < k + 1, Place(t) < Place(s)
                 PROVE  Q[t] = R[t]
      OBVIOUS
    <2>1. k \in Nat /\ \A u \in Stages : Place(u) < k /\ Place(u) < Place(s) => Q[u] = R[u]
      OBVIOUS
    <2> HIDE DEF S
    <2>2. Place(t) \in Nat /\ Place(s) \in Nat BY <1>1, PlacesNatural
    <2>3. t # s BY <2>2
    <2> DEFINE p == CandidateIn(m, W, t)
               c == m[p.dir].executions[t].consumed
    <2>4. /\ CandidateIn(n, V, t) = p
          /\ p # None => /\ n[p.dir] = m[p.dir] /\ IdentityIn(n, p, t) = IdentityIn(m, p, t)
                         /\ \A dep \in DOMAIN c : dep \in Stages /\ Place(dep) < Place(t)
      <3>1. SameRecord(m, n, out, p, CandidateIn(n, V, t), t) BY <2>3, GrownRecord
      <3> QED BY <3>1 DEF SameRecord
    <2> HIDE DEF p, W, V
    <2>5. p # None => n[p.dir].executions[t].consumed = c BY <2>4
    <2>6. ASSUME p # None, NEW dep \in DOMAIN c PROVE Q[dep] = R[dep]
      <3>1. dep \in Stages /\ Place(dep) < Place(t) BY <2>4, <2>6
      <3>2. Place(dep) \in Nat BY <3>1, PlacesNatural
      <3>3. Place(dep) < k /\ Place(dep) < Place(s) BY <2>1, <2>2, <3>1, <3>2
      <3> QED BY <2>1, <3>1, <3>3
    <2> HIDE DEF c
    <2>7. Fresh(m, W, R, t) <=> p # None /\ \A dep \in DOMAIN c : c[dep] = R[dep]
      BY DEF Fresh, p, c
    <2>8. Fresh(n, V, Q, t) <=> p # None /\ \A dep \in DOMAIN c : c[dep] = Q[dep]
      BY <2>4, <2>5 DEF Fresh
    <2>9. Fresh(m, W, R, t) <=> Fresh(n, V, Q, t) BY <2>6, <2>7, <2>8
    <2>10. R[t] = IF Fresh(m, W, R, t) THEN IdentityIn(m, p, t) ELSE None
      BY <1>3 DEF Settles, p
    <2>11. Q[t] = IF Fresh(n, V, Q, t) THEN IdentityIn(n, p, t) ELSE None
      BY <1>3, <2>4 DEF Settles
    <2> QED BY <2>4, <2>7, <2>9, <2>10, <2>11
  <1> HIDE DEF S
  <1>6. \A k \in Nat : k \in S BY <1>4, <1>5, Inductive
  <1>7. ASSUME NEW t \in Stages, Place(t) < Place(s) PROVE Q[t] = R[t]
    <2>1. Place(s) \in S BY <1>1, <1>6, PlacesNatural
    <2> QED BY <1>7, <2>1 DEF S
  <1> QED BY <1>3, <1>7

\* The replay is what its own directory resolves.
LEMMA TipResolves ==
  ASSUME ReplayAssumption, NEW m, NEW n, NEW out, NEW source, NEW s,
         Grows(m, n, out, source, s), ReadsResolved(m, n, out, source, s)
  PROVE  ResolutionIn(n, WalkIn(n, Tip(out)))[s] = IdentityIn(n, Tip(out), s)
  <1> DEFINE V == WalkIn(n, Tip(out))
             R == ResolutionIn(m, WalkIn(m, source))
             Q == ResolutionIn(n, V)
             c == n[out].executions[s].consumed
  <1>1. Settles(n, V, Q) /\ \A t \in Stages : Place(t) < Place(s) => Q[t] = R[t] BY GrownBelow
  <1>2. \A dep \in DOMAIN c : c[dep] = R[dep] BY DEF ReadsResolved
  <1>3. \A dep \in DOMAIN c : dep \in Stages /\ Place(dep) < Place(s) BY TipIs
  <1>4. CandidateIn(n, V, s) = Tip(out) BY GrownCandidate
  <1>5. s \in Stages /\ out \in Dirs BY DEF Grows
  <1> HIDE DEF V, R, Q
  <1>6. \A dep \in DOMAIN c : c[dep] = Q[dep] BY <1>1, <1>2, <1>3
  <1>7. Tip(out).dir = out BY DEF Tip
  <1>8. Tip(out) # None
    <2>1. Tip(out) \in Paths BY <1>5 DEF Tip, Paths
    <2> QED BY <2>1 DEF ReplayAssumption
  <1>9. Fresh(n, V, Q, s) BY <1>4, <1>6, <1>7, <1>8 DEF Fresh
  <1>10. Q[s] = IdentityIn(n, Tip(out), s) BY <1>1, <1>4, <1>5, <1>9 DEF Settles
  <1> QED BY <1>10 DEF Q, V

\* It makes stale only what rests on the stage replayed.
LEMMA GrownAbove ==
  ASSUME ReplayAssumption, NEW m, NEW n, NEW out, NEW source, NEW s,
         Grows(m, n, out, source, s), ReadsResolved(m, n, out, source, s),
         NEW R, R = ResolutionIn(m, WalkIn(m, source)),
         NEW Q, Q = ResolutionIn(n, WalkIn(n, Tip(out))),
         NEW t \in Stages, t # s
  PROVE  \/ Q[t] = R[t]
         \/ /\ R[t] # None /\ Q[t] = None
            /\ \E x \in BehindIn(n, R[t], t) : x[2] = s
  <1> DEFINE W == WalkIn(m, source)
             V == WalkIn(n, Tip(out))
             Ahead(u) == \/ Q[u] = R[u]
                         \/ /\ R[u] # None /\ Q[u] = None
                            /\ \E x \in BehindIn(n, R[u], u) : x[2] = s
             S == {k \in Nat : \A u \in Stages : Place(u) < k /\ u # s => Ahead(u)}
  <1>1. Sound(m) /\ Sound(n) /\ s \in Stages BY DEF Grows
  <1>2. Chained(m, W) BY GrownChain
  <1>3. Settles(m, W, R) /\ Settles(n, V, Q) BY GrownBelow
  <1>4. Q[s] = IdentityIn(n, Tip(out), s) BY TipResolves
  <1>5. Q[s] # None /\ Q[s].run.dir = out
    <2>1. Tip(out).dir = out /\ Q[s].run = Tip(out) BY <1>4 DEF Tip, IdentityIn
    <2>2. CandidateIn(n, V, s) = Tip(out) BY GrownCandidate
    <2>3. Tip(out) \in Paths BY DEF Tip, Paths, Grows
    <2>4. Tip(out) # None BY <2>3 DEF ReplayAssumption
    <2>5. Chained(n, V) BY GrownChain
    <2> HIDE DEF V
    <2>6. IdentityIn(n, Tip(out), s) \in Identities BY <1>1, <2>2, <2>4, <2>5, CandidateTyped
    <2>7. Q[s] # None BY <1>4, <2>6 DEF ReplayAssumption
    <2> QED BY <2>1, <2>7
  <1> DEFINE T == {u \in Stages : R[u] # None}
             C == {<<R[u], u>> : u \in T}
  <1>6. \A u \in T : AtIn(n, R[u], u) = AtIn(m, R[u], u) BY GrownKeeps
  <1> HIDE DEF W, V
  <1>7. \A u \in T : \A dep \in DOMAIN AtIn(m, R[u], u).consumed :
          /\ dep \in Stages /\ Place(dep) < Place(u)
          /\ AtIn(m, R[u], u).consumed[dep] = R[dep] /\ R[dep] # None
    BY <1>1, <1>2, <1>3, ResolvedIs
  <1>8. Closed(n, C) /\ Ordered(n, C)
    <2>1. ASSUME NEW y \in C
          PROVE  /\ Consumes(n, y) \subseteq C
                 /\ y[2] \in Stages
                 /\ \A dep \in DOMAIN AtIn(n, y[1], y[2]).consumed : Place(dep) < Place(y[2])
      <3>1. PICK u \in T : y = <<R[u], u>> OBVIOUS
      <3>2. y[1] = R[u] /\ y[2] = u BY <3>1
      <3> DEFINE d == AtIn(m, R[u], u).consumed
      <3>3. Consumes(n, y) = {<<d[dep], dep>> : dep \in DOMAIN d} BY <1>6, <3>2 DEF Consumes
      <3>4. \A dep \in DOMAIN d : <<d[dep], dep>> = <<R[dep], dep>> /\ dep \in T BY <1>7
      <3>5. \A dep \in DOMAIN AtIn(n, y[1], y[2]).consumed : Place(dep) < Place(y[2])
        BY <1>6, <1>7, <3>2
      <3> HIDE DEF d
      <3>6. Consumes(n, y) \subseteq C BY <3>3, <3>4
      <3> QED BY <3>1, <3>2, <3>5, <3>6
    <2> HIDE DEF C
    <2> QED BY <2>1 DEF Closed, Ordered
  <1>9. 0 \in S
    <2>1. \A u \in Stages : ~(Place(u) < 0)
      <3> SUFFICES ASSUME NEW u \in Stages PROVE ~(Place(u) < 0) OBVIOUS
      <3>1. Place(u) \in Nat BY PlacesNatural
      <3> QED BY <3>1
    <2> QED BY <2>1
  <1>10. \A k \in S \cap Nat : k + 1 \in S
    <2> SUFFICES ASSUME NEW k \in S, NEW u \in Stages, Place(u) < k + 1, u # s PROVE Ahead(u)
      OBVIOUS
    <2>1. k \in Nat /\ \A v \in Stages : Place(v) < k /\ v # s => Ahead(v) OBVIOUS
    <2> HIDE DEF S
    <2>2. Place(u) \in Nat BY PlacesNatural
    <2> DEFINE p == CandidateIn(m, W, u)
               c == m[p.dir].executions[u].consumed
    <2>3. /\ CandidateIn(n, V, u) = p
          /\ p # None => /\ n[p.dir] = m[p.dir] /\ IdentityIn(n, p, u) = IdentityIn(m, p, u)
                         /\ \A dep \in DOMAIN c :
                              /\ dep \in Stages /\ Place(dep) < Place(u)
                              /\ c[dep] \in Identities /\ c[dep].run.dir # out
      <3>1. SameRecord(m, n, out, p, CandidateIn(n, V, u), u) BY GrownRecord DEF W, V
      <3> QED BY <3>1 DEF SameRecord
    <2>4. p # None => n[p.dir].executions[u].consumed = c BY <2>3
    <2>5. Fresh(m, W, R, u) <=> p # None /\ \A dep \in DOMAIN c : c[dep] = R[dep] BY DEF Fresh
    <2>6. Fresh(n, V, Q, u) <=> p # None /\ \A dep \in DOMAIN c : c[dep] = Q[dep]
      <3> HIDE DEF p, c
      <3> QED BY <2>3, <2>4 DEF Fresh
    <2>7. R[u] = IF Fresh(m, W, R, u) THEN IdentityIn(m, p, u) ELSE None BY <1>3 DEF Settles
    <2>8. Q[u] = IF Fresh(n, V, Q, u) THEN IdentityIn(n, p, u) ELSE None
      BY <1>3, <2>3 DEF Settles
    <2> DEFINE D == AtIn(m, R[u], u).consumed
    <2>9. R[u] # None => p # None /\ D = c
      <3>1. R[u] # None => Fresh(m, W, R, u) /\ R[u].run = p BY <2>7 DEF IdentityIn
      <3> QED BY <2>5, <3>1 DEF AtIn
    <2>10. ASSUME p # None, NEW dep \in DOMAIN c, dep # s PROVE Ahead(dep)
      <3>1. dep \in Stages /\ Place(dep) < Place(u) BY <2>3, <2>10
      <3>2. Place(dep) \in Nat BY <3>1, PlacesNatural
      <3>3. Place(dep) < k BY <2>1, <2>2, <3>1, <3>2
      <3> QED BY <2>1, <2>10, <3>1, <3>3
    <2> HIDE DEF p, c, Ahead
    <2>11. CASE Fresh(m, W, R, u) <=> Fresh(n, V, Q, u)
      <3>1. Q[u] = R[u] BY <2>3, <2>5, <2>7, <2>8, <2>11
      <3> QED BY <3>1 DEF Ahead
    <2>12. CASE Fresh(n, V, Q, u) /\ ~Fresh(m, W, R, u)
      <3>1. p # None /\ \A dep \in DOMAIN c : c[dep] = Q[dep] BY <2>6, <2>12
      <3>2. PICK dep \in DOMAIN c : c[dep] # R[dep] BY <2>5, <2>12, <3>1
      <3>3. dep \in Stages /\ c[dep] \in Identities /\ c[dep].run.dir # out BY <2>3, <3>1
      <3>4. dep # s BY <1>5, <3>1, <3>3
      <3>5. Q[dep] # None BY <3>1, <3>3 DEF ReplayAssumption
      <3>6. Q[dep] # R[dep] BY <3>1, <3>2
      <3> QED BY <2>10, <3>1, <3>4, <3>5, <3>6 DEF Ahead
    <2>13. CASE Fresh(m, W, R, u) /\ ~Fresh(n, V, Q, u)
      <3>1. p # None /\ \A dep \in DOMAIN c : c[dep] = R[dep] BY <2>5, <2>13
      <3>2. PICK dep \in DOMAIN c : c[dep] # Q[dep] BY <2>6, <2>13, <3>1
      <3>3. dep \in Stages /\ c[dep] \in Identities BY <2>3, <3>1
      <3>4. R[dep] # None /\ R[dep] # Q[dep] /\ c[dep] = R[dep]
        BY <3>1, <3>2, <3>3 DEF ReplayAssumption
      <3>5. Q[u] = None BY <2>8, <2>13
      <3>6. R[u] # None
        <4>1. IdentityIn(m, p, u) \in Identities
          <5>1. SameRecord(m, n, out, p, CandidateIn(n, V, u), u) BY GrownRecord DEF W, V, p
          <5> QED BY <3>1, <5>1 DEF SameRecord
        <4> QED BY <2>7, <2>13, <4>1 DEF ReplayAssumption
      <3> DEFINE B == BehindIn(n, R[u], u)
      <3>7. u \in T /\ dep \in T BY <3>3, <3>4, <3>6
      <3>8. Closed(n, B) /\ <<R[u], u>> \in B
        <4>1. <<R[u], u>> \in C BY <3>7
        <4> HIDE DEF C
        <4> QED BY <1>8, <4>1, BehindCloses
      <3> HIDE DEF B
      <3>9. <<R[dep], dep>> \in B
        <4> DEFINE y == <<R[u], u>>
        <4>1. y[1] = R[u] /\ y[2] = u /\ y \in B BY <3>8
        <4>2. AtIn(n, y[1], y[2]).consumed = c BY <1>6, <2>9, <3>6, <3>7, <4>1
        <4>3. <<c[dep], dep>> \in Consumes(n, y) BY <4>2 DEF Consumes
        <4> QED BY <3>4, <3>8, <4>1, <4>3 DEF Closed
      <3>10. \E x \in B : x[2] = s
        <4>1. CASE dep = s
          <5>1. <<R[dep], dep>>[2] = s BY <4>1
          <5> QED BY <3>9, <5>1
        <4>2. CASE dep # s
          <5>1. \E x \in BehindIn(n, R[dep], dep) : x[2] = s
            BY <2>10, <3>1, <3>4, <4>2 DEF Ahead
          <5>2. BehindIn(n, R[dep], dep) \subseteq B BY <3>8, <3>9, BehindWithin
          <5> QED BY <5>1, <5>2
        <4> QED BY <4>1, <4>2
      <3> QED BY <3>5, <3>6, <3>10 DEF Ahead, B
    <2> QED BY <2>11, <2>12, <2>13
  <1> HIDE DEF S, Ahead
  <1>11. \A k \in Nat : k \in S BY <1>9, <1>10, Inductive
  <1>12. Place(t) + 1 \in Nat /\ Place(t) < Place(t) + 1
    <2>1. Place(t) \in Nat BY PlacesNatural
    <2> QED BY <2>1
  <1>13. Place(t) + 1 \in S BY <1>11, <1>12
  <1>14. Ahead(t) BY <1>12, <1>13 DEF S
  <1> QED BY <1>14 DEF Ahead


-----------------------------------------------------------------------------
(* The patches that the manifests tell of.                                 *)

\* The amendment is of the patch of the repair read, and what is about the
\* candidate patch is of that of the comparison read, if one was, and of the
\* repair read otherwise: while the directory read is the one that was read.
PatchTold(m, wr, s, r) ==
  /\ s = Comparison /\ r.patch # None =>
       /\ PatchRepair \in DOMAIN r.consumed
       /\ wr[r.consumed[PatchRepair].run.dir] = 1 =>
            r.base = AtIn(m, r.consumed[PatchRepair], PatchRepair).patch
  /\ (/\ s \in AboutPatch /\ Comparison \in DOMAIN r.consumed
      /\ wr[r.consumed[Comparison].run.dir] = 1) =>
        r.patch # None /\ r.patch = AtIn(m, r.consumed[Comparison], Comparison).patch
  /\ s \in AboutPatch /\ Comparison \notin DOMAIN r.consumed =>
       /\ PatchRepair \in DOMAIN r.consumed
       /\ wr[r.consumed[PatchRepair].run.dir] = 1 =>
            r.patch = AtIn(m, r.consumed[PatchRepair], PatchRepair).patch

AllTold(m, wr) ==
  \A d \in Dirs : m[d] # NoManifest =>
    \A s \in DOMAIN m[d].executions : PatchTold(m, wr, s, m[d].executions[s])

\* What a report that is of one lineage of patches looks like.
Judges(m, report) ==
  LET read(s) == AtIn(m, report.consumed[s], s)
      repaired == read(PatchRepair).patch
      judged == {read(s).patch : s \in {Review, Confidence, Impact}}
  IN  IF Comparison \in DOMAIN report.consumed
      THEN /\ report.patch = read(Comparison).patch
           /\ read(Comparison).base = repaired
           /\ judged \subseteq {repaired, report.patch}
      ELSE judged \union {report.patch} = {repaired}

\* The report replayed is one.
LEMMA ReportJudges ==
  ASSUME ReplayAssumption, NEW m, NEW n, NEW out, NEW source, NEW wr,
         Grows(m, n, out, source, Report), ReadsResolved(m, n, out, source, Report),
         AllTold(n, wr), wr[out] = 1,
         \A i \in 1..Len(WalkIn(m, source)) : wr[WalkIn(m, source)[i].dir] = 1,
         NEW r, r = n[out].executions[Report],
         {PatchRepair, Review, Confidence, Impact} \subseteq DOMAIN r.consumed,
         Comparison \notin DOMAIN r.consumed =>
           LET id == ResolutionIn(m, WalkIn(m, source))[Comparison]
           IN  id = None \/ AtIn(m, id, Comparison).patch = None
  PROVE  Judges(n, r)
  <1> DEFINE W == WalkIn(m, source)
             R == ResolutionIn(m, W)
             c == r.consumed
             read(s) == AtIn(n, R[s], s)
  <1>1. Chained(m, W) BY GrownChain
  <1>2. Report \in Stages /\ Sound(m) /\ out \in Dirs BY DEF Grows
  <1>3. Settles(m, W, R) BY <1>1, <1>2, ResolutionSettles
  <1>4. \A dep \in DOMAIN c : dep \in Stages BY TipIs
  <1>5. \A dep \in DOMAIN c : c[dep] = R[dep] /\ R[dep] # None BY DEF ReadsResolved
  <1>6. \A t \in Stages : R[t] # None => AtIn(n, R[t], t) = AtIn(m, R[t], t) BY GrownKeeps
  <1>7. \A i \in 1..Len(W) : wr[W[i].dir] = 1 OBVIOUS
  <1>8. Comparison \notin DOMAIN c =>
          R[Comparison] = None \/ AtIn(m, R[Comparison], Comparison).patch = None
    OBVIOUS
  <1>9. \A t \in Stages : R[t] # None => n[R[t].run.dir] = m[R[t].run.dir] BY GrownKeeps
  <1> HIDE DEF W, R, c
  <1>10. ASSUME NEW t \in Stages, R[t] # None
         PROVE  /\ wr[R[t].run.dir] = 1
                /\ PatchTold(n, wr, t, AtIn(n, R[t], t))
                /\ \A dep \in DOMAIN AtIn(n, R[t], t).consumed :
                     AtIn(n, R[t], t).consumed[dep] = R[dep] /\ R[dep] # None /\ dep \in Stages
    <2>1. /\ \E i \in 1..Len(W) : R[t].run = W[i]
          /\ R[t].run.dir \in Dirs /\ t \in DOMAIN m[R[t].run.dir].executions
          /\ m[R[t].run.dir] # NoManifest
          /\ \A dep \in DOMAIN AtIn(m, R[t], t).consumed :
                AtIn(m, R[t], t).consumed[dep] = R[dep] /\ R[dep] # None /\ dep \in Stages
      BY <1>1, <1>2, <1>3, <1>10, ResolvedIs
    <2>2. wr[R[t].run.dir] = 1 BY <1>7, <2>1
    <2>3. PatchTold(n, wr, t, n[R[t].run.dir].executions[t]) BY <1>9, <1>10, <2>1 DEF AllTold
    <2>4. PatchTold(n, wr, t, AtIn(n, R[t], t)) BY <2>3 DEF AtIn
    <2> QED BY <1>6, <1>10, <2>1, <2>2, <2>4
  <1>11. /\ PatchRepair \in DOMAIN c /\ Review \in DOMAIN c /\ Confidence \in DOMAIN c
         /\ Impact \in DOMAIN c
    BY DEF c
  <1>12. /\ Review \in AboutPatch /\ Confidence \in AboutPatch /\ Impact \in AboutPatch
         /\ Report \in AboutPatch
    BY DEF AboutPatch
  <1>13. PatchTold(n, wr, Report, r)
    <2>1. n[out] # NoManifest /\ Report \in DOMAIN n[out].executions BY DEF Grows
    <2> QED BY <1>2, <2>1 DEF AllTold
  <1> HIDE DEF read
  <1>14. ASSUME NEW s \in {Review, Confidence, Impact}
         PROVE  \/ read(s).patch = read(PatchRepair).patch
                \/ /\ R[Comparison] # None /\ read(s).patch # None
                   /\ read(s).patch = read(Comparison).patch
    <2>1. s \in DOMAIN c /\ s \in AboutPatch /\ s \in Stages /\ R[s] # None
      BY <1>4, <1>5, <1>11, <1>12
    <2> DEFINE q == AtIn(n, R[s], s)
    <2>2. /\ PatchTold(n, wr, s, q)
          /\ \A dep \in DOMAIN q.consumed :
               q.consumed[dep] = R[dep] /\ R[dep] # None /\ dep \in Stages
      BY <1>10, <2>1
    <2>3. read(s) = q BY DEF read
    <2> HIDE DEF q
    <2>4. CASE Comparison \in DOMAIN q.consumed
      <3>1. q.consumed[Comparison] = R[Comparison] /\ R[Comparison] # None
            /\ Comparison \in Stages
        BY <2>2, <2>4
      <3>2. wr[R[Comparison].run.dir] = 1 BY <1>10, <3>1
      <3>3. q.patch # None /\ q.patch = AtIn(n, R[Comparison], Comparison).patch
        BY <2>1, <2>2, <2>4, <3>1, <3>2 DEF PatchTold
      <3> QED BY <2>3, <3>1, <3>3 DEF read
    <2>5. CASE Comparison \notin DOMAIN q.consumed
      <3>1. PatchRepair \in DOMAIN q.consumed BY <2>1, <2>2, <2>5 DEF PatchTold
      <3>2. q.consumed[PatchRepair] = R[PatchRepair] /\ R[PatchRepair] # None
            /\ PatchRepair \in Stages
        BY <2>2, <3>1
      <3>3. wr[R[PatchRepair].run.dir] = 1 BY <1>10, <3>2
      <3>4. q.patch = AtIn(n, R[PatchRepair], PatchRepair).patch
        BY <2>1, <2>2, <2>5, <3>2, <3>3 DEF PatchTold
      <3> QED BY <2>3, <3>4 DEF read
    <2> QED BY <2>4, <2>5
  <1>15. CASE Comparison \in DOMAIN c
    <2>1. R[Comparison] # None /\ Comparison \in Stages /\ c[Comparison] = R[Comparison]
      BY <1>4, <1>5, <1>15
    <2>2. wr[R[Comparison].run.dir] = 1 BY <1>10, <2>1
    <2>3. r.patch # None /\ r.patch = read(Comparison).patch
      BY <1>12, <1>13, <1>15, <2>1, <2>2 DEF PatchTold, read, c
    <2> DEFINE q == AtIn(n, R[Comparison], Comparison)
    <2>4. /\ PatchTold(n, wr, Comparison, q)
          /\ \A dep \in DOMAIN q.consumed :
               q.consumed[dep] = R[dep] /\ R[dep] # None /\ dep \in Stages
      BY <1>10, <2>1
    <2>5. read(Comparison) = q BY DEF read
    <2> HIDE DEF q
    <2>6. PatchRepair \in DOMAIN q.consumed
          /\ (wr[q.consumed[PatchRepair].run.dir] = 1 =>
                q.base = AtIn(n, q.consumed[PatchRepair], PatchRepair).patch)
      BY <2>3, <2>4, <2>5 DEF PatchTold
    <2>7. q.consumed[PatchRepair] = R[PatchRepair] /\ R[PatchRepair] # None
          /\ PatchRepair \in Stages
      BY <2>4, <2>6
    <2>8. wr[R[PatchRepair].run.dir] = 1 BY <1>10, <2>7
    <2>9. q.base = read(PatchRepair).patch BY <2>6, <2>7, <2>8 DEF read
    <2>10. \A s \in {Review, Confidence, Impact} :
             read(s).patch \in {read(PatchRepair).patch, r.patch}
      BY <1>14, <2>3
    <2>11. /\ AtIn(n, c[Comparison], Comparison) = read(Comparison)
           /\ AtIn(n, c[PatchRepair], PatchRepair) = read(PatchRepair)
           /\ \A s \in {Review, Confidence, Impact} : AtIn(n, c[s], s) = read(s)
      BY <1>5, <1>11, <1>15 DEF read
    <2> QED BY <1>15, <2>3, <2>5, <2>9, <2>10, <2>11 DEF c, Judges
  <1>16. CASE Comparison \notin DOMAIN c
    <2>1. R[PatchRepair] # None /\ PatchRepair \in Stages /\ c[PatchRepair] = R[PatchRepair]
      BY <1>4, <1>5, <1>11
    <2>2. wr[R[PatchRepair].run.dir] = 1 BY <1>10, <2>1
    <2>3. r.patch = read(PatchRepair).patch
      BY <1>12, <1>13, <1>16, <2>1, <2>2 DEF PatchTold, read, c
    <2>4. Comparison \in Stages BY ReadOrderIs DEF StageNames
    <2>5. R[Comparison] # None => read(Comparison).patch = None
      BY <1>6, <1>8, <1>16, <2>4 DEF read
    <2>6. \A s \in {Review, Confidence, Impact} : read(s).patch = read(PatchRepair).patch
      BY <1>14, <2>5
    <2>7. /\ AtIn(n, c[PatchRepair], PatchRepair) = read(PatchRepair)
          /\ \A s \in {Review, Confidence, Impact} : AtIn(n, c[s], s) = read(s)
      BY <1>5, <1>11 DEF read
    <2> QED BY <1>16, <2>3, <2>6, <2>7 DEF c, Judges
  <1> QED BY <1>15, <1>16


-----------------------------------------------------------------------------
(* What the operations write.                                              *)

LEMMA HandlerReadsIs ==
    /\ DOMAIN HandlerReads = Stages
    /\ HandlerReads[Planning] = {} /\ HandlerReads[TestPlan] = {}
    /\ HandlerReads[Strategy] = {Planning}
    /\ HandlerReads[Context] = {Planning, Strategy}
    /\ HandlerReads[Generation] = {Planning, Strategy, Context}
    /\ HandlerReads[Challenger] = {Generation}
    /\ HandlerReads[PatchRepair] = {Generation, Challenger}
    /\ HandlerReads[Review] = {PatchRepair} /\ HandlerReads[Impact] = {PatchRepair}
    /\ HandlerReads[Confidence] = {PatchRepair, Review}
    /\ HandlerReads[Comparison] = {PatchRepair, TestPlan, Strategy}
    /\ HandlerReads[Report] =
         {Planning, Strategy, Generation, PatchRepair, Review, Confidence, Impact}
  <1>1. Stages = StageNames BY ReadOrderIs
  <1> QED
    BY <1>1 DEF HandlerReads, StageNames, Planning, Strategy, Context, Generation, Challenger,
             PatchRepair, TestPlan, Comparison, Review, Confidence, Impact, Report

LEMMA HandlerReadsBefore ==
  ASSUME NEW s \in Stages
  PROVE  /\ HandlerReads[s] \subseteq Stages
         /\ \A dep \in HandlerReads[s] : Place(dep) < Place(s)
  <1>1. Stages = StageNames BY ReadOrderIs
  <1>2. HandlerReads[s] \subseteq StageNames /\ \A dep \in HandlerReads[s] : Place(dep) < Place(s)
    <2>1. s \in {Planning, TestPlan, Strategy, Context, Generation, Challenger}
          \/ s \in {PatchRepair, Review, Impact, Confidence, Comparison, Report}
      BY <1>1 DEF StageNames
    <2>2. CASE s \in {Planning, TestPlan, Strategy, Context, Generation, Challenger}
      BY <2>2, HandlerReadsIs, PlaceIs DEF StageNames
    <2>3. CASE s \in {PatchRepair, Review, Impact, Confidence, Comparison, Report}
      BY <2>3, HandlerReadsIs, PlaceIs DEF StageNames
    <2> QED BY <2>1, <2>2, <2>3
  <1> QED BY <1>1, <1>2

LEMMA AboutPatchIs ==
  /\ AboutPatch \subseteq Stages /\ Comparison \in Stages /\ PatchRepair \in Stages
  /\ Comparison \notin AboutPatch /\ PatchRepair \notin AboutPatch /\ TestPlan \notin AboutPatch
  /\ Comparison # PatchRepair /\ Comparison # TestPlan /\ PatchRepair # TestPlan
  /\ TestPlan \in Stages
  /\ \A s \in AboutPatch : /\ PatchRepair \in HandlerReads[s] /\ Place(Comparison) < Place(s)
                           /\ Comparison \notin HandlerReads[s]
  /\ PatchRepair \in HandlerReads[Comparison] /\ TestPlan \in HandlerReads[Comparison]
  <1>1. Stages = StageNames BY ReadOrderIs
  <1>2. /\ AboutPatch \subseteq StageNames /\ Comparison \in StageNames
        /\ PatchRepair \in StageNames
        /\ TestPlan \in StageNames
    BY DEF AboutPatch, StageNames
  <1>3. /\ Comparison \notin AboutPatch /\ PatchRepair \notin AboutPatch
        /\ TestPlan \notin AboutPatch
        /\ Comparison # PatchRepair /\ Comparison # TestPlan /\ PatchRepair # TestPlan
    BY PlaceIs DEF AboutPatch
  <1>4. \A s \in AboutPatch : Place(Comparison) < Place(s) BY PlaceIs DEF AboutPatch
  <1>5. \A s \in AboutPatch : PatchRepair \in HandlerReads[s] BY HandlerReadsIs DEF AboutPatch
  <1>6. /\ Comparison # Planning /\ Comparison # Strategy /\ Comparison # Generation
        /\ Comparison # Review /\ Comparison # Confidence /\ Comparison # Impact
    BY PlaceIs
  <1>7. \A s \in AboutPatch : Comparison \notin HandlerReads[s]
    BY <1>3, <1>6, HandlerReadsIs DEF AboutPatch
  <1>8. PatchRepair \in HandlerReads[Comparison] /\ TestPlan \in HandlerReads[Comparison]
    BY HandlerReadsIs
  <1> QED BY <1>1, <1>2, <1>3, <1>4, <1>5, <1>7, <1>8

\* What is known of the manifests, and of how often each was written.
LineageInv ==
  /\ Sound(manifests) /\ AllTold(manifests, written)
  /\ written \in [Dirs -> Nat] /\ last \in Dirs \union {None} /\ spent \in Nat
  /\ \A d \in Dirs : manifests[d] # NoManifest <=> written[d] # 0

\* A manifest of one record or more, put together from its parts.
LEMMA ManifestMade ==
  ASSUME NEW parent \in Paths \union {None}, NEW S \in SUBSET Stages, NEW f,
         f \in [S -> Records]
  PROVE  [parent |-> parent, executions |-> f] \in Manifests
  BY DEF Manifests

LEMMA RecordMade ==
  ASSUME NEW seq \in Nat, NEW D \in SUBSET Stages, NEW f \in [D -> Identities],
         NEW made \in Patches \union {None}, NEW base \in Patches \union {None},
         NEW planned \in BOOLEAN
  PROVE  [seq |-> seq, consumed |-> f, patch |-> made, base |-> base, planned |-> planned]
           \in Records
  BY DEF Records

\* A manifest is written: what was sound stays so, ...
LEMMA WriteSound ==
  ASSUME ReplayAssumption, NEW m, NEW n, NEW d \in Dirs, NEW M \in Manifests, Sound(m),
         n \in [Dirs -> Manifests \union {NoManifest}], n[d] = M,
         \A x \in Dirs : x # d => n[x] = m[x],
         M.parent # None => n[M.parent.dir] # NoManifest,
         \A s \in DOMAIN M.executions : \A dep \in DOMAIN M.executions[s].consumed :
            /\ Place(dep) < Place(s)
            /\ n[M.executions[s].consumed[dep].run.dir] # NoManifest
  PROVE  Sound(n)
  <1>1. n \in [Dirs -> Manifests \union {NoManifest}] OBVIOUS
  <1>2. n[d] = M /\ M # NoManifest /\ \A x \in Dirs : x # d => n[x] = m[x]
    BY DEF Sound, ReplayAssumption
  <1>3. \A x \in Dirs : m[x] # NoManifest => n[x] # NoManifest BY <1>2
  <1>4. ASSUME NEW x \in Dirs, n[x] # NoManifest
        PROVE  /\ n[x].parent # None => n[n[x].parent.dir] # NoManifest
               /\ \A s \in DOMAIN n[x].executions : \A dep \in DOMAIN n[x].executions[s].consumed :
                    /\ Place(dep) < Place(s)
                    /\ n[n[x].executions[s].consumed[dep].run.dir] # NoManifest
    <2>1. CASE x = d BY <1>2, <2>1
    <2>2. CASE x # d
      <3>1. n[x] = m[x] /\ m[x] \in Manifests /\ m[x] # NoManifest
        BY <1>2, <1>4, <2>2 DEF Sound
      <3>2. /\ m[x].parent # None => m[m[x].parent.dir] # NoManifest
            /\ \A s \in DOMAIN m[x].executions : \A dep \in DOMAIN m[x].executions[s].consumed :
                 /\ Place(dep) < Place(s)
                 /\ m[m[x].executions[s].consumed[dep].run.dir] # NoManifest
        BY <3>1 DEF Sound
      <3>3. m[x].parent # None => m[x].parent.dir \in Dirs
        <4>1. m[x].parent \in Paths \union {None} BY <3>1, ManifestIs
        <4> QED BY <4>1 DEF Paths
      <3>4. \A s \in DOMAIN m[x].executions : \A dep \in DOMAIN m[x].executions[s].consumed :
               m[x].executions[s].consumed[dep].run.dir \in Dirs
        <4>1. \A s \in DOMAIN m[x].executions : \A dep \in DOMAIN m[x].executions[s].consumed :
                m[x].executions[s].consumed[dep] \in Identities
          BY <3>1, ManifestIs
        <4> QED BY <4>1, IdentityIs
      <3>5. m[x].parent # None => n[m[x].parent.dir] # NoManifest BY <1>3, <3>2, <3>3
      <3>6. \A s \in DOMAIN m[x].executions : \A dep \in DOMAIN m[x].executions[s].consumed :
                 /\ Place(dep) < Place(s)
                 /\ n[m[x].executions[s].consumed[dep].run.dir] # NoManifest
        BY <1>3, <3>2, <3>4
      <3> QED BY <3>1, <3>5, <3>6
    <2> QED BY <2>1, <2>2
  <1> QED BY <1>1, <1>4 DEF Sound

\* How often each directory was written, and what a write of M changes.
Numbered(m, wr) ==
  wr \in [Dirs -> Nat] /\ \A x \in Dirs : m[x] # NoManifest <=> wr[x] # 0

Writes(m, n, wr, w2, d, M) ==
  /\ n[d] = M /\ \A x \in Dirs : x # d => n[x] = m[x]
  /\ w2 \in [Dirs -> Nat] /\ w2[d] = wr[d] + 1
  /\ \A x \in Dirs : x # d => w2[x] = wr[x]

Tells(n, w2, M) == \A s \in DOMAIN M.executions : PatchTold(n, w2, s, M.executions[s])

\* ... and what was told is of directories that are not written again.
LEMMA WriteTold ==
  ASSUME ReplayAssumption, NEW m, NEW n, NEW wr, NEW w2, NEW d \in Dirs, NEW M \in Manifests,
         Sound(m), AllTold(m, wr), Numbered(m, wr), Writes(m, n, wr, w2, d, M), Tells(n, w2, M)
  PROVE  AllTold(n, w2) /\ Numbered(n, w2)
  <1>1. n[d] = M /\ M # NoManifest /\ \A x \in Dirs : x # d => n[x] = m[x]
    BY DEF Writes, ReplayAssumption
  <1>2. w2[d] = wr[d] + 1 /\ wr[d] \in Nat /\ \A x \in Dirs : x # d => w2[x] = wr[x]
    BY DEF Writes, Numbered
  <1>3. /\ w2 \in [Dirs -> Nat] /\ \A x \in Dirs : m[x] # NoManifest <=> wr[x] # 0
        /\ \A s \in DOMAIN M.executions : PatchTold(n, w2, s, M.executions[s])
    BY DEF Writes, Numbered, Tells
  <1>4. w2[d] # 0 /\ w2[d] \in Nat BY <1>2
  <1>5. ASSUME NEW x \in Dirs PROVE n[x] # NoManifest <=> w2[x] # 0
    BY <1>1, <1>2, <1>4, <1>3
  <1>6. ASSUME NEW x \in Dirs, m[x] # NoManifest, w2[x] = 1 PROVE n[x] = m[x] /\ wr[x] = 1
    <2>1. x # d
      <3>1. wr[x] # 0 BY <1>3, <1>6
      <3>2. CASE x = d BY <1>2, <1>6, <3>1, <3>2
      <3> QED BY <3>2
    <2> QED BY <1>1, <1>2, <1>6, <2>1
  <1>7. ASSUME NEW x \in Dirs, x # d, n[x] # NoManifest, NEW s \in DOMAIN n[x].executions
        PROVE  PatchTold(n, w2, s, n[x].executions[s])
    <2>1. n[x] = m[x] /\ m[x] \in Manifests /\ m[x] # NoManifest BY <1>1, <1>7 DEF Sound
    <2> DEFINE r == m[x].executions[s]
    <2>2. PatchTold(m, wr, s, r) BY <1>7, <2>1 DEF AllTold
    <2>3. ASSUME NEW dep \in DOMAIN r.consumed, w2[r.consumed[dep].run.dir] = 1
          PROVE  wr[r.consumed[dep].run.dir] = 1
                 /\ AtIn(n, r.consumed[dep], dep) = AtIn(m, r.consumed[dep], dep)
      <3>1. r.consumed[dep] \in Identities BY <1>7, <2>1, ManifestIs
      <3>2. r.consumed[dep].run.dir \in Dirs BY <3>1, IdentityIs
      <3>3. m[r.consumed[dep].run.dir] # NoManifest BY <1>7, <2>1 DEF Sound
      <3> HIDE DEF r
      <3>4. wr[r.consumed[dep].run.dir] = 1
            /\ n[r.consumed[dep].run.dir] = m[r.consumed[dep].run.dir]
        BY <1>6, <2>3, <3>2, <3>3
      <3> QED BY <3>4 DEF AtIn
    <2>4. n[x].executions[s] = r BY <2>1
    <2> HIDE DEF r
    <2>5. PatchTold(n, w2, s, r) BY <2>2, <2>3 DEF PatchTold
    <2> QED BY <2>4, <2>5
  <1>8. AllTold(n, w2) BY <1>1, <1>3, <1>7 DEF AllTold
  <1> QED BY <1>3, <1>5, <1>8 DEF Numbered

LEMMA SourceIs ==
  ASSUME ReplayAssumption, LineageInv, NEW source \in Sources
  PROVE  /\ source \in Paths /\ source.dir \in Dirs /\ manifests[source.dir] # NoManifest
         /\ Chained(manifests, WalkIn(manifests, source))
         /\ Ends(manifests, WalkIn(manifests, source))
         /\ Settles(manifests, WalkIn(manifests, source), Resolution(Walk(source)))
         /\ Resolution(Walk(source)) = ResolutionIn(manifests, WalkIn(manifests, source))
  <1>1. source \in Paths /\ manifests[source.dir] # NoManifest /\ BuildsChain(source)
    BY DEF Sources, HasManifest
  <1>2. source.dir \in Dirs BY <1>1 DEF Paths
  <1>3. Walk(source) = WalkIn(manifests, source) BY MirrorsAre
  <1>4. Resolution(Walk(source)) = ResolutionIn(manifests, WalkIn(manifests, source))
    BY <1>3, MirrorsAre
  <1>5. Sound(manifests) BY DEF LineageInv
  <1>6. Chained(manifests, WalkIn(manifests, source)) BY <1>1, <1>5, WalkChained
  <1>7. Ends(manifests, WalkIn(manifests, source)) BY <1>1, <1>3 DEF BuildsChain, Ends, Last
  <1>8. Settles(manifests, WalkIn(manifests, source), Resolution(Walk(source)))
    BY <1>4, <1>5, <1>6, ResolutionSettles
  <1> QED BY <1>1, <1>2, <1>4, <1>6, <1>7, <1>8

\* The artifact of a replay, stage by stage.
ArtifactTold(a, R, s, out, planned, amended) ==
  /\ s = PatchRepair => a.patch = Made(out, PatchRepair) /\ a.base = None /\ a.planned = FALSE
  /\ s = TestPlan => a.patch = None /\ a.base = None /\ a.planned = planned
  /\ s = Comparison /\ amended =>
       /\ a.patch = Made(out, Comparison) /\ a.planned = FALSE
       /\ a.base = At(R[PatchRepair], PatchRepair).patch
  /\ s = Comparison /\ ~amended => a.patch = None /\ a.base = None /\ a.planned = FALSE
  /\ s \in AboutPatch => a.patch = Authoritative(R) /\ a.base = None /\ a.planned = FALSE
  /\ s \notin {PatchRepair, TestPlan, Comparison} \union AboutPatch =>
       a.patch = None /\ a.base = None /\ a.planned = FALSE

LEMMA ArtifactIs ==
  ASSUME NEW R, NEW s \in Stages, NEW out, NEW planned, NEW amended
  PROVE  ArtifactTold(Artifact(R, s, out, planned, amended), R, s, out, planned, amended)
  <1> DEFINE a == Artifact(R, s, out, planned, amended)
             e == Made(out, PatchRepair)
             g == Made(out, Comparison)
             h == At(R[PatchRepair], PatchRepair).patch
             k == Authoritative(R)
  <1>1. a = CASE s = PatchRepair -> [NoArtifact EXCEPT !.patch = e]
              [] s = TestPlan -> [NoArtifact EXCEPT !.planned = planned]
              [] s = Comparison -> IF amended THEN [NoArtifact EXCEPT !.patch = g, !.base = h]
                                              ELSE NoArtifact
              [] s \in AboutPatch -> [NoArtifact EXCEPT !.patch = k]
              [] OTHER -> NoArtifact
    BY DEF a, Artifact, Repaired, TestsPlanned, Amendment, Judged
  <1> HIDE DEF a, e, g, h, k
  <1>2. /\ Comparison \notin AboutPatch /\ PatchRepair \notin AboutPatch
        /\ TestPlan \notin AboutPatch
        /\ Comparison # PatchRepair /\ Comparison # TestPlan /\ PatchRepair # TestPlan
    BY AboutPatchIs
  <1>3. s = PatchRepair => a.patch = e /\ a.base = None /\ a.planned = FALSE
    BY <1>1, <1>2 DEF NoArtifact
  <1>4. s = TestPlan => a.patch = None /\ a.base = None /\ a.planned = planned
    BY <1>1, <1>2 DEF NoArtifact
  <1>5. s = Comparison /\ amended => a.patch = g /\ a.base = h /\ a.planned = FALSE
    BY <1>1, <1>2 DEF NoArtifact
  <1>6. s = Comparison /\ ~amended => a.patch = None /\ a.base = None /\ a.planned = FALSE
    BY <1>1, <1>2 DEF NoArtifact
  <1>7. s \in AboutPatch => a.patch = k /\ a.base = None /\ a.planned = FALSE
    BY <1>1, <1>2 DEF NoArtifact
  <1>8. s \notin {PatchRepair, TestPlan, Comparison} \union AboutPatch =>
          a.patch = None /\ a.base = None /\ a.planned = FALSE
    BY <1>1 DEF NoArtifact
  <1> QED BY <1>3, <1>4, <1>5, <1>6, <1>7, <1>8 DEF a, e, g, h, k, ArtifactTold

LEMMA MadeIs ==
  ASSUME LineageInv, NEW d \in Dirs, NEW s \in Stages
  PROVE  Made(d, s) \in Patches
  <1>1. written[d] + 1 \in Nat BY DEF LineageInv
  <1> QED BY <1>1 DEF Made, Patches

\* What resolved has a patch, or none.
LEMMA PatchIs ==
  ASSUME ReplayAssumption, LineageInv, NEW source \in Sources, NEW R,
         R = Resolution(Walk(source)), NEW t \in Stages, R[t] # None
  PROVE  /\ At(R[t], t) = AtIn(manifests, R[t], t)
         /\ At(R[t], t).patch \in Patches \union {None}
         /\ R[t] \in Identities /\ R[t].run.dir \in Dirs
         /\ manifests[R[t].run.dir] # NoManifest
  <1> DEFINE W == WalkIn(manifests, source)
  <1>1. /\ Chained(manifests, W) /\ Settles(manifests, W, R) BY SourceIs
  <1> HIDE DEF W
  <1>2. Sound(manifests) BY DEF LineageInv
  <1>3. /\ R[t] \in Identities /\ R[t].run.dir \in Dirs
        /\ t \in DOMAIN manifests[R[t].run.dir].executions
        /\ manifests[R[t].run.dir] \in Manifests
        /\ manifests[R[t].run.dir] # NoManifest
    BY <1>1, <1>2, ResolvedIs
  <1>4. At(R[t], t) = AtIn(manifests, R[t], t) BY DEF At, AtIn, Executions
  <1>5. manifests[R[t].run.dir].executions[t].patch \in Patches \union {None}
    BY <1>3, ManifestIs
  <1> QED BY <1>3, <1>4, <1>5 DEF AtIn

\* What a replay consumes.
ConsumedTold(c, R, s) ==
  /\ DOMAIN c = HandlerReads[s] \union
                  (IF s \in AboutPatch /\ Amends(R) THEN {Comparison} ELSE {})
  /\ DOMAIN c \subseteq Stages /\ c \in [DOMAIN c -> Identities]
  /\ \A dep \in DOMAIN c :
       /\ c[dep] = R[dep] /\ c[dep] # None /\ Place(dep) < Place(s)
       /\ c[dep].run.dir \in Dirs /\ manifests[c[dep].run.dir] # NoManifest

LEMMA ConsumedIs ==
  ASSUME ReplayAssumption, LineageInv, NEW source \in Sources, NEW R,
         R = Resolution(Walk(source)), NEW s \in Stages, ReadyToReplay(R, s)
  PROVE  ConsumedTold(Consumed(R, s), R, s)
  <1> DEFINE c == Consumed(R, s)
             D == HandlerReads[s] \union
                      (IF s \in AboutPatch /\ Amends(R) THEN {Comparison} ELSE {})
  <1>1. c = [dep \in D |-> R[dep]] BY DEF Consumed
  <1>2. \A dep \in D : dep \in Stages /\ R[dep] # None /\ Place(dep) < Place(s)
    <2>1. \A dep \in HandlerReads[s] : dep \in Stages /\ R[dep] # None /\ Place(dep) < Place(s)
      BY HandlerReadsBefore DEF ReadyToReplay
    <2>2. s \in AboutPatch /\ Amends(R) =>
            Comparison \in Stages /\ R[Comparison] # None /\ Place(Comparison) < Place(s)
      BY AboutPatchIs DEF Amends
    <2> QED BY <2>1, <2>2
  <1> HIDE DEF D, c
  <1>3. \A dep \in D : /\ R[dep] \in Identities /\ R[dep].run.dir \in Dirs
                       /\ manifests[R[dep].run.dir] # NoManifest
    BY <1>2, PatchIs
  <1>4. DOMAIN c = D /\ \A dep \in D : c[dep] = R[dep] BY <1>1
  <1>5. c \in [D -> Identities] BY <1>1, <1>3
  <1> QED BY <1>2, <1>3, <1>4, <1>5 DEF D, c, ConsumedTold


\* A directory written once, all in all, has what it was written with.
LEMMA WrittenOnce ==
  ASSUME NEW m, NEW n, NEW wr, NEW w2, NEW d \in Dirs, NEW M,
         m \in [Dirs -> Manifests \union {NoManifest}], wr \in [Dirs -> Nat],
         \A x \in Dirs : m[x] # NoManifest <=> wr[x] # 0,
         n = [m EXCEPT ![d] = M], w2 = [wr EXCEPT ![d] = @ + 1],
         NEW x \in Dirs, m[x] # NoManifest, w2[x] = 1
  PROVE  x # d /\ n[x] = m[x]
  <1>1. wr[x] # 0 /\ wr[x] \in Nat OBVIOUS
  <1>2. x = d => w2[x] = wr[x] + 1 OBVIOUS
  <1>3. x # d BY <1>1, <1>2
  <1> QED BY <1>3

LEMMA WriteIs ==
  ASSUME LineageInv, NEW d \in Dirs, NEW parent, NEW executions, Write(d, parent, executions)
  PROVE  /\ manifests' = [manifests EXCEPT ![d] = [parent |-> parent, executions |-> executions]]
         /\ written' = [written EXCEPT ![d] = @ + 1]
         /\ last' = d /\ spent' \in Nat
  <1> DEFINE e == IF HasManifest(d) \/ (parent # None /\ parent.dir # last) THEN 2 ELSE 1
  <1>1. e \in Nat OBVIOUS
  <1>2. spent' = spent + e /\ spent \in Nat BY DEF Write, LineageInv
  <1> HIDE DEF e
  <1>3. spent' \in Nat BY <1>1, <1>2
  <1> QED BY <1>3 DEF Write

LEMMA ReplayStep ==
  ASSUME ReplayAssumption, LineageInv, NEW source \in Sources, NEW R,
         R = Resolution(Walk(source)), NEW s \in Replayed, NEW out \in Dirs,
         NEW planned \in BOOLEAN, NEW amended \in BOOLEAN,
         Replay(source, R, s, out, planned, amended)
  PROVE  /\ LineageInv' /\ s \in Stages /\ last' = out
         /\ manifests'[out] # NoManifest /\ manifests'[out].parent = source
         /\ DOMAIN manifests'[out].executions = {s}
         /\ written' = [written EXCEPT ![out] = @ + 1]
         /\ \A d \in Dirs : d # out => manifests'[d] = manifests[d]
         /\ manifests'[out].executions[s].consumed = Consumed(R, s)
         /\ ReadyToReplay(R, s)
  <1> DEFINE a == Artifact(R, s, out, planned, amended)
             c == Consumed(R, s)
             r == [seq |-> 1, consumed |-> c, patch |-> a.patch, base |-> a.base,
                   planned |-> a.planned]
             f == [x \in {s} |-> r]
             M == [parent |-> source, executions |-> f]
  <1> HIDE DEF a, c, r, f, M
  <1>1. s \in Stages /\ ReadyToReplay(R, s) BY DEF ReplayAssumption, Replay
  <1>2. Write(out, source, f) BY DEF Replay, f, r, a, c
  <1>3. /\ source \in Paths /\ source.dir \in Dirs /\ manifests[source.dir] # NoManifest
    BY SourceIs
  <1>4. /\ manifests' = [manifests EXCEPT ![out] = M]
        /\ written' = [written EXCEPT ![out] = @ + 1]
        /\ last' = out /\ spent' \in Nat
    BY <1>2, WriteIs DEF M
  <1>d. ArtifactTold(a, R, s, out, planned, amended) BY <1>1, ArtifactIs DEF a
  <1>e. ConsumedTold(c, R, s) BY <1>1, ConsumedIs DEF c
  <1>5. /\ DOMAIN c = HandlerReads[s] \union
                         (IF s \in AboutPatch /\ Amends(R) THEN {Comparison} ELSE {})
        /\ DOMAIN c \subseteq Stages /\ c \in [DOMAIN c -> Identities]
        /\ \A dep \in DOMAIN c :
              /\ c[dep] = R[dep] /\ c[dep] # None /\ Place(dep) < Place(s)
              /\ c[dep].run.dir \in Dirs /\ manifests[c[dep].run.dir] # NoManifest
    BY <1>e DEF ConsumedTold
  <1>6. /\ s = PatchRepair => a.patch = Made(out, PatchRepair) /\ a.base = None /\ a.planned = FALSE
        /\ s = TestPlan => a.patch = None /\ a.base = None /\ a.planned = planned
        /\ s = Comparison /\ amended =>
              /\ a.patch = Made(out, Comparison) /\ a.planned = FALSE
              /\ a.base = At(R[PatchRepair], PatchRepair).patch
        /\ s = Comparison /\ ~amended => a.patch = None /\ a.base = None /\ a.planned = FALSE
        /\ s \in AboutPatch => a.patch = Authoritative(R) /\ a.base = None /\ a.planned = FALSE
        /\ s \notin {PatchRepair, TestPlan, Comparison} \union AboutPatch =>
              a.patch = None /\ a.base = None /\ a.planned = FALSE
    BY <1>d DEF ArtifactTold
  <1>7. /\ Comparison \in Stages /\ PatchRepair \in Stages /\ Comparison \notin AboutPatch
        /\ \A t \in AboutPatch : PatchRepair \in HandlerReads[t] /\ Comparison \notin HandlerReads[t]
        /\ PatchRepair \in HandlerReads[Comparison]
    BY AboutPatchIs
  <1>8. s = Comparison \/ s \in AboutPatch => R[PatchRepair] # None
    BY <1>1, <1>7 DEF ReadyToReplay
  <1>9. Amends(R) => R[Comparison] # None BY DEF Amends
  <1>10. \A t \in {PatchRepair, Comparison} : R[t] # None =>
           /\ At(R[t], t) = AtIn(manifests, R[t], t)
           /\ At(R[t], t).patch \in Patches \union {None}
           /\ R[t] \in Identities /\ R[t].run.dir \in Dirs
           /\ manifests[R[t].run.dir] # NoManifest
    BY <1>7, PatchIs
  <1>11. Made(out, PatchRepair) \in Patches /\ Made(out, Comparison) \in Patches
    BY <1>7, MadeIs
  <1>12. Authoritative(R) = IF Amends(R) THEN At(R[Comparison], Comparison).patch
                                         ELSE At(R[PatchRepair], PatchRepair).patch
    BY DEF Authoritative
  <1>13. Amends(R) => At(R[Comparison], Comparison).patch # None BY DEF Amends
  <1>14. s \in AboutPatch => Authoritative(R) \in Patches \union {None}
    BY <1>8, <1>9, <1>10, <1>12
  <1>15. /\ a.patch \in Patches \union {None} /\ a.base \in Patches \union {None}
         /\ a.planned \in BOOLEAN
    <2>1. CASE s = PatchRepair BY <1>6, <1>11, <2>1
    <2>2. CASE s = TestPlan BY <1>6, <2>2
    <2>3. CASE s = Comparison
      <3>1. At(R[PatchRepair], PatchRepair).patch \in Patches \union {None}
        BY <1>8, <1>10, <2>3
      <3> QED BY <1>6, <1>11, <2>3, <3>1
    <2>4. CASE s \in AboutPatch BY <1>6, <1>14, <2>4
    <2>5. CASE s \notin {PatchRepair, TestPlan, Comparison} \union AboutPatch BY <1>6, <2>5
    <2> QED BY <2>1, <2>2, <2>3, <2>4, <2>5
  <1>16. r \in Records
    <2>1. DOMAIN c \in SUBSET Stages /\ c \in [DOMAIN c -> Identities] BY <1>5
    <2> QED BY <1>15, <2>1, RecordMade DEF r
  <1>17. /\ r.consumed = c /\ r.patch = a.patch /\ r.base = a.base BY DEF r
  <1>18. f \in [{s} -> Records] /\ DOMAIN f = {s} /\ f[s] = r BY <1>16 DEF f
  <1>19. M \in Manifests
    <2>1. {s} \in SUBSET Stages BY <1>1
    <2> QED BY <1>3, <1>18, <2>1, ManifestMade DEF M
  <1>20. M.parent = source /\ M.executions = f BY DEF M
  <1>21. /\ Sound(manifests) /\ AllTold(manifests, written) /\ written \in [Dirs -> Nat]
         /\ \A d \in Dirs : manifests[d] # NoManifest <=> written[d] # 0
         /\ manifests \in [Dirs -> Manifests \union {NoManifest}]
    BY DEF LineageInv, Sound
  <1>22. M # NoManifest BY <1>19 DEF ReplayAssumption
  <1>23. /\ manifests'[out] = M /\ \A d \in Dirs : d # out => manifests'[d] = manifests[d]
         /\ manifests' \in [Dirs -> Manifests \union {NoManifest}]
    BY <1>4, <1>19, <1>21
  <1>24. \A d \in Dirs : manifests[d] # NoManifest => manifests'[d] # NoManifest
    BY <1>22, <1>23
  <1>25. Sound(manifests')
    <2>1. M.parent # None => manifests'[M.parent.dir] # NoManifest BY <1>3, <1>20, <1>24
    <2>2. \A x \in DOMAIN M.executions : \A dep \in DOMAIN M.executions[x].consumed :
            /\ Place(dep) < Place(x)
            /\ manifests'[M.executions[x].consumed[dep].run.dir] # NoManifest
      BY <1>5, <1>17, <1>18, <1>20, <1>24
    <2> DEFINE n == manifests'
    <2>3. /\ n \in [Dirs -> Manifests \union {NoManifest}] /\ n[out] = M
          /\ \A d \in Dirs : d # out => n[d] = manifests[d]
          /\ (M.parent # None => n[M.parent.dir] # NoManifest)
          /\ \A x \in DOMAIN M.executions : \A dep \in DOMAIN M.executions[x].consumed :
               /\ Place(dep) < Place(x)
               /\ n[M.executions[x].consumed[dep].run.dir] # NoManifest
      BY <1>23, <2>1, <2>2
    <2> HIDE DEF n
    <2>4. Sound(n) BY <1>19, <1>21, <2>3, WriteSound
    <2> QED BY <2>4 DEF n
  <1>26. \A d \in Dirs : manifests[d] # NoManifest /\ written'[d] = 1 => manifests'[d] = manifests[d]
    BY <1>4, <1>21, WrittenOnce
  <1>27. \A t \in {PatchRepair, Comparison} : R[t] # None /\ written'[R[t].run.dir] = 1 =>
           AtIn(manifests', R[t], t) = At(R[t], t)
    <2> SUFFICES ASSUME NEW t \in {PatchRepair, Comparison}, R[t] # None,
                        written'[R[t].run.dir] = 1
                 PROVE  AtIn(manifests', R[t], t) = At(R[t], t)
      OBVIOUS
    <2>1. At(R[t], t) = AtIn(manifests, R[t], t) /\ R[t].run.dir \in Dirs
          /\ manifests[R[t].run.dir] # NoManifest
      BY <1>10
    <2>2. manifests'[R[t].run.dir] = manifests[R[t].run.dir] BY <1>26, <2>1
    <2> QED BY <2>1, <2>2 DEF AtIn
  <1>28. PatchTold(manifests', written', s, r)
    <2>1. ASSUME s = Comparison, r.patch # None
          PROVE  /\ PatchRepair \in DOMAIN r.consumed
                 /\ written'[r.consumed[PatchRepair].run.dir] = 1 =>
                      r.base = AtIn(manifests', r.consumed[PatchRepair], PatchRepair).patch
      <3>1. amended BY <1>6, <1>17, <2>1
      <3>2. r.base = At(R[PatchRepair], PatchRepair).patch BY <1>6, <1>17, <2>1, <3>1
      <3>3. PatchRepair \in DOMAIN c /\ c[PatchRepair] = R[PatchRepair] BY <1>5, <1>7, <2>1
      <3> QED BY <1>8, <1>17, <1>27, <2>1, <3>2, <3>3
    <2>2. ASSUME s \in AboutPatch, Comparison \in DOMAIN r.consumed,
                 written'[r.consumed[Comparison].run.dir] = 1
          PROVE  /\ r.patch # None
                 /\ r.patch = AtIn(manifests', r.consumed[Comparison], Comparison).patch
      <3>1. Amends(R) BY <1>5, <1>7, <1>17, <2>2
      <3>2. r.patch = At(R[Comparison], Comparison).patch BY <1>6, <1>12, <1>17, <2>2, <3>1
      <3>3. c[Comparison] = R[Comparison] BY <1>5, <1>17, <2>2
      <3> QED BY <1>9, <1>13, <1>17, <1>27, <2>2, <3>1, <3>2, <3>3
    <2>3. ASSUME s \in AboutPatch, Comparison \notin DOMAIN r.consumed
          PROVE  /\ PatchRepair \in DOMAIN r.consumed
                 /\ written'[r.consumed[PatchRepair].run.dir] = 1 =>
                      r.patch = AtIn(manifests', r.consumed[PatchRepair], PatchRepair).patch
      <3>1. ~Amends(R) BY <1>5, <1>17, <2>3
      <3>2. r.patch = At(R[PatchRepair], PatchRepair).patch BY <1>6, <1>12, <1>17, <2>3, <3>1
      <3>3. PatchRepair \in DOMAIN c /\ c[PatchRepair] = R[PatchRepair] BY <1>5, <1>7, <2>3
      <3> QED BY <1>8, <1>17, <1>27, <2>3, <3>2, <3>3
    <2> QED BY <2>1, <2>2, <2>3 DEF PatchTold
  <1>29. /\ AllTold(manifests', written') /\ written' \in [Dirs -> Nat]
         /\ \A x \in Dirs : manifests'[x] # NoManifest <=> written'[x] # 0
    <2>1. \A x \in DOMAIN M.executions : PatchTold(manifests', written', x, M.executions[x])
      BY <1>18, <1>20, <1>28
    <2> DEFINE n == manifests'
               w2 == written'
    <2>2. n[out] = M /\ \A d \in Dirs : d # out => n[d] = manifests[d] BY <1>23
    <2>3. \A x \in DOMAIN M.executions : PatchTold(n, w2, x, M.executions[x]) BY <2>1
    <2>4. w2 = [written EXCEPT ![out] = @ + 1] /\ written \in [Dirs -> Nat] BY <1>4, <1>21
    <2> HIDE DEF n, w2
    <2>5. w2 \in [Dirs -> Nat] /\ w2[out] = written[out] + 1 BY <2>4
    <2>6. \A d \in Dirs : d # out => w2[d] = written[d] BY <2>4
    <2>7. Numbered(manifests, written) BY <1>21 DEF Numbered
    <2>8. Writes(manifests, n, written, w2, out, M) BY <2>2, <2>5, <2>6 DEF Writes
    <2>9. Tells(n, w2, M) BY <2>3 DEF Tells
    <2>10. Sound(manifests) /\ AllTold(manifests, written) BY <1>21
    <2>11. AllTold(n, w2) /\ Numbered(n, w2)
      BY <1>19, <2>7, <2>8, <2>9, <2>10, WriteTold
    <2>12. \A x \in Dirs : n[x] # NoManifest <=> w2[x] # 0 BY <2>11 DEF Numbered
    <2> QED BY <2>5, <2>11, <2>12 DEF n, w2
  <1>30. LineageInv'
    <2>1. last' \in Dirs \union {None} BY <1>4
    <2> QED BY <1>4, <1>25, <1>29, <2>1 DEF LineageInv
  <1> QED BY <1>1, <1>2, <1>4, <1>17, <1>18, <1>20, <1>22, <1>23, <1>30 DEF c

-----------------------------------------------------------------------------
(* The traced run.                                                         *)

\* The stages that the run settles, and what each consumes.
RunOf(compared, settled) == SubSeq(RunOrder(compared), 1, settled)

RunReads(s, amended) ==
  CASE s = TestPlan -> {PatchRepair}
    [] s \in AboutPatch /\ amended -> HandlerReads[s] \union {Comparison}
    [] OTHER -> HandlerReads[s]

LEMMA RunRange ==
  ASSUME NEW compared \in BOOLEAN, NEW settled \in Nat, settled <= Len(RunOrder(compared))
  PROVE  /\ Range(RunOf(compared, settled)) = {RunOrder(compared)[i] : i \in 1..settled}
         /\ Range(RunOf(compared, settled)) \subseteq Stages
         /\ \A i \in 1..settled : i \in DOMAIN RunOrder(compared)
         /\ DOMAIN RunOf(compared, settled) \subseteq Nat
  <1> DEFINE O == RunOrder(compared)
             w == RunOf(compared, settled)
  <1>1. /\ Len(O) \in Nat /\ DOMAIN O = 1..Len(O) /\ O \in Seq(StageNames) /\ settled <= Len(O)
    <2>1. O = RunOrder(TRUE) \/ O = RunOrder(FALSE) BY Zenon
    <2> HIDE DEF O
    <2> DEFINE T == RunOrder(TRUE)
               F == RunOrder(FALSE)
    <2>a. /\ Len(T) = 11 /\ DOMAIN T = 1..11 /\ T \in Seq(StageNames)
          /\ Len(F) = 9 /\ DOMAIN F = 1..9 /\ F \in Seq(StageNames)
      BY RunOrderIs
    <2>b. O = T \/ O = F BY <2>1
    <2> HIDE DEF T, F
    <2>2. Len(O) \in Nat /\ DOMAIN O = 1..Len(O) /\ O \in Seq(StageNames) BY <2>a, <2>b
    <2>3. settled <= Len(O) BY DEF O
    <2> QED BY <2>2, <2>3
  <1>2. w = SubSeq(O, 1, settled) BY DEF RunOf
  <1> HIDE DEF O, w
  <1>3. \A i \in 1..settled : i \in 1..Len(O) BY <1>1
  <1>4. \A i \in 1..settled : O[i] \in StageNames BY <1>1, <1>3
  <1>5. 1 \in Int /\ settled \in Int /\ settled - 1 + 1 = settled
        /\ \A i \in 1..settled : 1 + i - 1 = i
    OBVIOUS
  <1>6. /\ w \in Seq(StageNames) /\ Len(w) = (IF 1 <= settled THEN settled - 1 + 1 ELSE 0)
        /\ \A i \in 1..(settled - 1 + 1) : w[i] = O[1 + i - 1]
    BY <1>2, <1>4, <1>5, SubSeqProperties
  <1>7. Len(w) = settled
    <2>1. settled = 0 \/ 1 <= settled OBVIOUS
    <2> QED BY <1>5, <1>6, <2>1
  <1>8. \A i \in 1..settled : w[i] = O[i] BY <1>5, <1>6
  <1>9. DOMAIN w = 1..settled BY <1>6, <1>7, LenProperties
  <1>10. Range(w) = {O[i] : i \in 1..settled} BY <1>8, <1>9 DEF Range
  <1>11. StageNames = Stages BY ReadOrderIs
  <1>12. 1..settled \subseteq Nat OBVIOUS
  <1> QED BY <1>1, <1>3, <1>4, <1>9, <1>10, <1>11, <1>12 DEF O, w

LEMMA RunReadsIs ==
  ASSUME NEW s \in Stages, NEW amended \in BOOLEAN, NEW dep \in RunReads(s, amended)
  PROVE  /\ dep \in Stages /\ Place(dep) < Place(s)
         /\ s = TestPlan => dep = PatchRepair
         /\ dep \in HandlerReads[s] \/ dep = PatchRepair \/ (dep = Comparison /\ amended)
  <1>1. CASE s = TestPlan
    <2>1. RunReads(s, amended) = {PatchRepair} BY <1>1, AboutPatchIs DEF RunReads
    <2>2. Place(PatchRepair) < Place(TestPlan) BY PlaceIs
    <2>3. dep = PatchRepair BY <2>1
    <2> QED BY <1>1, <2>2, <2>3, AboutPatchIs
  <1>2. CASE s # TestPlan /\ s \in AboutPatch /\ amended
    <2>1. dep \in HandlerReads[s] \/ dep = Comparison BY <1>2 DEF RunReads
    <2>2. CASE dep \in HandlerReads[s] BY <1>2, <2>2, HandlerReadsBefore
    <2>3. CASE dep = Comparison BY <1>2, <2>3, AboutPatchIs
    <2> QED BY <2>1, <2>2, <2>3
  <1>3. CASE s # TestPlan /\ ~(s \in AboutPatch /\ amended)
    <2>1. dep \in HandlerReads[s] BY <1>3 DEF RunReads
    <2> QED BY <1>3, <2>1, HandlerReadsBefore
  <1> QED BY <1>1, <1>2, <1>3

\* What a stage of the run consumes was settled before it.
LEMMA RunConsumes ==
  ASSUME NEW compared \in BOOLEAN, NEW amended \in BOOLEAN, amended => compared,
         NEW settled \in Nat, settled <= Len(RunOrder(compared)),
         NEW s \in Range(RunOf(compared, settled)), NEW dep \in RunReads(s, amended)
  PROVE  dep \in Range(RunOf(compared, settled))
  <1>1. PICK i \in 1..settled : i \in DOMAIN RunOrder(compared) /\ s = RunOrder(compared)[i]
    BY RunRange
  <1>2. s \in Stages BY RunRange
  <1>3. /\ dep \in Stages /\ Place(dep) < Place(s)
        /\ s = TestPlan => dep = PatchRepair
        /\ dep \in HandlerReads[s] \/ dep = PatchRepair \/ (dep = Comparison /\ amended)
    BY <1>2, RunReadsIs
  <1>4. dep \in StageNames BY <1>3, ReadOrderIs
  <1>5. \E j \in DOMAIN RunOrder(compared) : j <= i /\ dep = RunOrder(compared)[j]
    <2>1. CASE compared = TRUE
      <3>1. i \in 1..11 /\ DOMAIN RunOrder(compared) = 1..11 BY <1>1, <2>1, RunOrderIs
      <3>2. Place(s) = i
        <4> DEFINE O == RunOrder(TRUE)
        <4>1. /\ O[1] = Planning /\ O[2] = Strategy /\ O[3] = Context
              /\ O[4] = Generation /\ O[5] = Challenger /\ O[6] = PatchRepair
              /\ O[7] = TestPlan /\ O[8] = Comparison
              /\ O[9] = Review /\ O[10] = Confidence /\ O[11] = Impact
          BY RunOrderIs
        <4>2. s = O[i] BY <1>1, <2>1
        <4> HIDE DEF O
        <4> QED BY <3>1, <4>1, <4>2, PlaceIs
      <3>3. Place(dep) \in 1..11 /\ Place(dep) <= i
        <4>1. Place(dep) \in 1..12 BY <1>3, ReadOrderIs
        <4> QED BY <1>3, <3>1, <3>2, <4>1
      <3>4. dep = RunOrder(TRUE)[Place(dep)]
        <4> DEFINE O == RunOrder(TRUE)
        <4>1. /\ O[1] = Planning /\ O[2] = Strategy /\ O[3] = Context
              /\ O[4] = Generation /\ O[5] = Challenger /\ O[6] = PatchRepair
              /\ O[7] = TestPlan /\ O[8] = Comparison
              /\ O[9] = Review /\ O[10] = Confidence /\ O[11] = Impact
          BY RunOrderIs
        <4> HIDE DEF O
        <4>2. dep # Report BY <3>3, PlaceIs
        <4>3. dep = O[Place(dep)] BY <1>4, <4>1, <4>2, PlaceIs DEF StageNames
        <4> QED BY <4>3 DEF O
      <3> QED BY <2>1, <3>1, <3>3, <3>4
    <2>2. CASE compared = FALSE
      <3>1. i \in 1..9 /\ DOMAIN RunOrder(compared) = 1..9 BY <1>1, <2>2, RunOrderIs
      <3> DEFINE O == RunOrder(FALSE)
      <3>2. /\ O[1] = Planning /\ O[2] = Strategy /\ O[3] = Context
            /\ O[4] = Generation /\ O[5] = Challenger /\ O[6] = PatchRepair
            /\ O[7] = Review /\ O[8] = Confidence /\ O[9] = Impact
        BY RunOrderIs
      <3>3. s = O[i] BY <1>1, <2>2
      <3> HIDE DEF O
      <3>4. /\ i <= 6 => Place(s) = i
            /\ i > 6 => Place(s) = i + 2
            /\ s # Comparison /\ s # TestPlan /\ s # Report
        <4>1. i \in {1, 2, 3, 4, 5, 6} \/ i \in {7, 8, 9} BY <3>1
        <4>2. CASE i \in {1, 2, 3, 4, 5, 6} BY <3>2, <3>3, <4>2, PlaceIs
        <4>3. CASE i \in {7, 8, 9} BY <3>2, <3>3, <4>3, PlaceIs
        <4> QED BY <4>1, <4>2, <4>3
      <3>5. ~amended BY <2>2
      <3>6. dep # Comparison /\ dep # TestPlan
        <4>1. dep \in HandlerReads[s] \/ dep = PatchRepair BY <1>3, <3>5
        <4>2. s \in StageNames BY <1>2, ReadOrderIs
        <4>3. TestPlan \notin HandlerReads[s] /\ Comparison \notin HandlerReads[s]
          BY <3>4, <4>2, HandlerReadsIs, PlaceIs DEF StageNames
        <4> QED BY <4>1, <4>3, AboutPatchIs
      <3>7. dep # Report
        <4>1. Place(s) <= 12
          <5>1. Place(s) \in 1..12 BY <1>2, ReadOrderIs
          <5> QED BY <5>1
        <4>2. Place(dep) \in 1..12 /\ Place(s) \in 1..12 BY <1>2, <1>3, ReadOrderIs
        <4>3. Place(dep) # 12 BY <1>3, <4>2
        <4> QED BY <4>3, PlaceIs
      <3>8. PICK j \in 1..9 : /\ dep = O[j]
                              /\ j <= 6 => Place(dep) = j
                              /\ j > 6 => Place(dep) = j + 2
        <4>1. dep \in {O[1], O[2], O[3], O[4], O[5], O[6], O[7], O[8], O[9]}
          BY <1>4, <3>2, <3>6, <3>7 DEF StageNames
        <4>2. /\ Place(O[1]) = 1 /\ Place(O[2]) = 2 /\ Place(O[3]) = 3 /\ Place(O[4]) = 4
              /\ Place(O[5]) = 5 /\ Place(O[6]) = 6
              /\ Place(O[7]) = 9 /\ Place(O[8]) = 10 /\ Place(O[9]) = 11
          BY <3>2, PlaceIs
        <4>3. CASE dep \in {O[1], O[2], O[3], O[4], O[5], O[6]} BY <4>2, <4>3
        <4>4. CASE dep \in {O[7], O[8], O[9]} BY <4>2, <4>4
        <4> QED BY <4>1, <4>3, <4>4
      <3>9. j <= i BY <1>3, <3>1, <3>4, <3>8
      <3> QED BY <2>2, <3>1, <3>8, <3>9 DEF O
    <2> QED BY <2>1, <2>2
  <1>6. PICK j \in DOMAIN RunOrder(compared) : j <= i /\ dep = RunOrder(compared)[j] BY <1>5
  <1>7. j \in 1..settled
    <2>1. j \in Nat /\ j >= 1
      <3> DEFINE O == RunOrder(compared)
      <3>1. O = RunOrder(TRUE) \/ O = RunOrder(FALSE) BY Zenon
      <3> HIDE DEF O
      <3>2. DOMAIN O = 1..11 \/ DOMAIN O = 1..9 BY <3>1, RunOrderIs
      <3>3. j \in DOMAIN O BY DEF O
      <3> QED BY <3>2, <3>3
    <2> QED BY <1>1, <1>6, <2>1
  <1> QED BY <1>6, <1>7, RunRange

\* A directory that starts a lineage: what its executions consumed are those
\* of the directory itself, and none of them is a report.
Rooted(n, d) ==
  /\ n[d] # NoManifest /\ n[d].parent = None
  /\ DOMAIN n[d].executions \subseteq Stages
  /\ Report \notin DOMAIN n[d].executions
  /\ \A s \in DOMAIN n[d].executions : \A dep \in DOMAIN n[d].executions[s].consumed :
       /\ dep \in DOMAIN n[d].executions /\ Place(dep) < Place(s)
       /\ n[d].executions[s].consumed[dep] = IdentityIn(n, Tip(d), dep)

LEMMA RunMixesNothing ==
  ASSUME NEW n, NEW d \in Dirs, Rooted(n, d), NEW s \in DOMAIN n[d].executions
  PROVE  LET behind == BehindIn(n, IdentityIn(n, Tip(d), s), s)
         IN  Cardinality(behind) = Cardinality({x[2] : x \in behind})
  <1> DEFINE T == DOMAIN n[d].executions
             I(t) == IdentityIn(n, Tip(d), t)
             C == {<<I(t), t>> : t \in T}
             behind == BehindIn(n, I(s), s)
  <1>1. \A t \in T : AtIn(n, I(t), t) = n[d].executions[t]
    BY DEF AtIn, IdentityIn, Tip
  <1>2. \A t \in T : \A dep \in DOMAIN n[d].executions[t].consumed :
          dep \in T /\ n[d].executions[t].consumed[dep] = I(dep)
    BY DEF Rooted
  <1>3. T \subseteq Stages /\ s \in T BY DEF Rooted
  <1> HIDE DEF I, T
  <1>4. Closed(n, C)
    <2>1. ASSUME NEW y \in C PROVE Consumes(n, y) \subseteq C
      <3>1. PICK t \in T : y = <<I(t), t>> OBVIOUS
      <3>2. y[1] = I(t) /\ y[2] = t BY <3>1
      <3> DEFINE c == n[d].executions[t].consumed
      <3>3. Consumes(n, y) = {<<c[dep], dep>> : dep \in DOMAIN c}
        BY <1>1, <3>2 DEF Consumes
      <3>4. \A dep \in DOMAIN c : dep \in T /\ <<c[dep], dep>> = <<I(dep), dep>> BY <1>2
      <3> HIDE DEF c
      <3> QED BY <3>3, <3>4
    <2> QED BY <2>1 DEF Closed
  <1>5. behind \subseteq C
    <2>1. <<I(s), s>> \in C BY <1>3
    <2> HIDE DEF C
    <2> QED BY <1>4, <2>1, BehindWithin
  <1>6. \A x \in C : x[2] \in Stages BY <1>3
  <1>7. \A x, y \in C : x[2] = y[2] => x = y OBVIOUS
  <1> HIDE DEF C, behind
  <1>8. Cardinality(behind) = Cardinality({x[2] : x \in behind})
    BY <1>5, <1>6, <1>7, OneOfEach
  <1> QED BY <1>8 DEF behind, I

LEMMA FullRunStep ==
  ASSUME ReplayAssumption, LineageInv, NEW d \in Dirs, NEW compared \in BOOLEAN,
         NEW planned \in BOOLEAN, NEW amended \in BOOLEAN, NEW settled \in Settled,
         FullRun(d, compared, planned, amended, settled)
  PROVE  LineageInv' /\ last' = d /\ Rooted(manifests', d)
  <1> DEFINE order == RunOf(compared, settled)
             D == Range(order)
             seqOf(s) == CHOOSE i \in DOMAIN order : order[i] = s
             reads(s) == RunReads(s, amended)
             consumed(s) == [dep \in reads(s) |-> [run |-> Tip(d), seq |-> seqOf(dep)]]
             patchOf(s) == CASE s = PatchRepair -> Made(d, PatchRepair)
                           [] s = Comparison /\ amended -> Made(d, Comparison)
                           [] s \in AboutPatch ->
                                Made(d, IF amended THEN Comparison ELSE PatchRepair)
                           [] OTHER -> None
             baseOf(s) == IF s = Comparison /\ amended THEN Made(d, PatchRepair) ELSE None
             rec(s) == [seq |-> seqOf(s), consumed |-> consumed(s), patch |-> patchOf(s),
                        base |-> baseOf(s), planned |-> s = TestPlan /\ planned]
             f == [s \in D |-> rec(s)]
             M == [parent |-> None, executions |-> f]
  <1>1. /\ \A x \in Dirs : manifests[x] = NoManifest
        /\ settled <= Len(RunOrder(compared)) /\ (amended => compared)
    BY DEF FullRun, HasManifest
  <1>2. Write(d, None, f) BY DEF FullRun, RunOf, RunReads, Tip
  <1>3. settled \in Nat BY DEF ReplayAssumption
  <1>4. /\ D \subseteq Stages /\ DOMAIN order \subseteq Nat
        /\ D = {RunOrder(compared)[i] : i \in 1..settled}
        /\ \A i \in 1..settled : i \in DOMAIN RunOrder(compared)
    BY <1>1, <1>3, RunRange
  <1>5. \A s \in D : \A dep \in reads(s) : dep \in D BY <1>1, <1>3, RunConsumes
  <1>6. \A s \in D : \A dep \in reads(s) : Place(dep) < Place(s) BY <1>4, RunReadsIs
  <1>7. \A s \in D : seqOf(s) \in Nat
    <2> SUFFICES ASSUME NEW s \in D PROVE seqOf(s) \in Nat OBVIOUS
    <2>1. \E i \in DOMAIN order : order[i] = s BY DEF Range
    <2>2. seqOf(s) \in DOMAIN order BY <2>1
    <2> QED BY <1>4, <2>2
  <1>8. Report \notin D
    <2>1. \A i \in DOMAIN RunOrder(compared) : RunOrder(compared)[i] # Report
      <3> SUFFICES ASSUME NEW i \in DOMAIN RunOrder(compared) PROVE RunOrder(compared)[i] # Report
        OBVIOUS
      <3> DEFINE T == RunOrder(TRUE)
                 F == RunOrder(FALSE)
                 O == RunOrder(compared)
      <3>1. O = T \/ O = F BY Zenon
      <3>2. /\ T[1] = Planning /\ T[2] = Strategy /\ T[3] = Context
            /\ T[4] = Generation /\ T[5] = Challenger /\ T[6] = PatchRepair
            /\ T[7] = TestPlan /\ T[8] = Comparison
            /\ T[9] = Review /\ T[10] = Confidence /\ T[11] = Impact
            /\ DOMAIN T = 1..11
        BY RunOrderIs
      <3>3. /\ F[1] = Planning /\ F[2] = Strategy /\ F[3] = Context
            /\ F[4] = Generation /\ F[5] = Challenger /\ F[6] = PatchRepair
            /\ F[7] = Review /\ F[8] = Confidence /\ F[9] = Impact
            /\ DOMAIN F = 1..9
        BY RunOrderIs
      <3>4. i \in DOMAIN O OBVIOUS
      <3> HIDE DEF T, F, O
      <3>a. /\ Planning # Report /\ Strategy # Report /\ Context # Report
            /\ Generation # Report /\ Challenger # Report /\ PatchRepair # Report
            /\ TestPlan # Report /\ Comparison # Report /\ Review # Report
            /\ Confidence # Report /\ Impact # Report
        BY PlaceIs
      <3>5. ASSUME NEW k \in 1..11 PROVE T[k] # Report
        <4>1. k \in {1, 2, 3, 4, 5, 6, 7, 8, 9, 10, 11} OBVIOUS
        <4> QED BY <3>2, <3>a, <4>1
      <3>6. ASSUME NEW k \in 1..9 PROVE F[k] # Report
        <4>1. k \in {1, 2, 3, 4, 5, 6, 7, 8, 9} OBVIOUS
        <4> QED BY <3>3, <3>a, <4>1
      <3>7. O[i] # Report
        <4>1. CASE O = T BY <3>2, <3>4, <3>5, <4>1
        <4>2. CASE O = F BY <3>3, <3>4, <3>6, <4>2
        <4> QED BY <3>1, <4>1, <4>2
      <3> QED BY <3>7 DEF O
    <2> QED BY <1>4, <2>1
  <1>9. Made(d, PatchRepair) \in Patches /\ Made(d, Comparison) \in Patches
    BY AboutPatchIs, MadeIs
  <1>10. /\ manifests' = [manifests EXCEPT ![d] = M] /\ written' = [written EXCEPT ![d] = @ + 1]
         /\ last' = d /\ spent' \in Nat
    BY <1>2, WriteIs
  <1>11. \A s \in D : reads(s) \subseteq Stages BY <1>4, <1>5
  <1> HIDE DEF order, D, seqOf, reads
  <1>12. \A s \in D : consumed(s) \in [reads(s) -> Identities]
    <2>1. Tip(d) \in Paths BY DEF Tip, Paths
    <2> QED BY <1>5, <1>7, <2>1 DEF Identities
  <1>13. \A s \in D : DOMAIN consumed(s) = reads(s) /\
            \A dep \in reads(s) : consumed(s)[dep] = [run |-> Tip(d), seq |-> seqOf(dep)]
    OBVIOUS
  <1>14. /\ Comparison \notin AboutPatch /\ PatchRepair \notin AboutPatch
         /\ Comparison # PatchRepair
    BY AboutPatchIs
  <1> DEFINE e == Made(d, PatchRepair)
             g == Made(d, Comparison)
  <1>15. /\ patchOf(PatchRepair) = e /\ (amended => patchOf(Comparison) = g /\ baseOf(Comparison) = e)
         /\ (~amended => patchOf(Comparison) = None)
         /\ \A s \in AboutPatch : patchOf(s) = IF amended THEN g ELSE e
    BY <1>14
  <1>16. \A s \in D : /\ patchOf(s) \in Patches \union {None} /\ baseOf(s) \in Patches \union {None}
    BY <1>9
  <1> HIDE DEF consumed, patchOf, baseOf
  <1>17. \A s \in D : rec(s) \in Records
    <2> SUFFICES ASSUME NEW s \in D PROVE rec(s) \in Records OBVIOUS
    <2> DEFINE p == s = TestPlan /\ planned
    <2>1. p \in BOOLEAN OBVIOUS
    <2>2. seqOf(s) \in Nat /\ reads(s) \in SUBSET Stages
          /\ consumed(s) \in [reads(s) -> Identities]
      BY <1>7, <1>11, <1>12
    <2>3. patchOf(s) \in Patches \union {None} /\ baseOf(s) \in Patches \union {None} BY <1>16
    <2> HIDE DEF p
    <2>4. [seq |-> seqOf(s), consumed |-> consumed(s), patch |-> patchOf(s), base |-> baseOf(s),
           planned |-> p] \in Records
      BY <2>1, <2>2, <2>3, RecordMade
    <2> QED BY <2>4 DEF p
  <1>18. \A s \in D : /\ rec(s).seq = seqOf(s) /\ rec(s).consumed = consumed(s)
                      /\ rec(s).patch = patchOf(s) /\ rec(s).base = baseOf(s)
    OBVIOUS
  <1> HIDE DEF rec
  <1>19. f \in [D -> Records] /\ DOMAIN f = D /\ \A s \in D : f[s] = rec(s) BY <1>17
  <1> HIDE DEF f
  <1>20. M.parent = None /\ M.executions = f OBVIOUS
  <1>21. M \in Manifests
    <2>1. D \in SUBSET Stages /\ None \in Paths \union {None} BY <1>4
    <2> QED BY <1>19, <2>1, ManifestMade
  <1> HIDE DEF M
  <1>22. /\ Sound(manifests) /\ AllTold(manifests, written) /\ written \in [Dirs -> Nat]
         /\ \A x \in Dirs : manifests[x] # NoManifest <=> written[x] # 0
         /\ manifests \in [Dirs -> Manifests \union {NoManifest}]
    BY DEF LineageInv, Sound
  <1>23. M # NoManifest BY <1>21 DEF ReplayAssumption
  <1> DEFINE n == manifests'
             w2 == written'
  <1>24. n = [manifests EXCEPT ![d] = M] /\ w2 = [written EXCEPT ![d] = @ + 1] BY <1>10
  <1> HIDE DEF n, w2
  <1>25. /\ n[d] = M /\ \A x \in Dirs : x # d => n[x] = manifests[x] BY <1>22, <1>24
  <1>26. n \in [Dirs -> Manifests \union {NoManifest}] BY <1>21, <1>22, <1>24
  <1>27. w2 \in [Dirs -> Nat] /\ w2[d] = written[d] + 1 BY <1>22, <1>24
  <1>28. \A x \in Dirs : x # d => w2[x] = written[x] BY <1>22, <1>24
  <1>29. \A s \in D : \A dep \in reads(s) :
            /\ f[s].consumed[dep] = [run |-> Tip(d), seq |-> seqOf(dep)]
            /\ f[s].consumed[dep].run.dir = d
            /\ f[s].consumed[dep] = IdentityIn(n, Tip(d), dep)
            /\ AtIn(n, f[s].consumed[dep], dep) = f[dep]
    <2> SUFFICES ASSUME NEW s \in D, NEW dep \in reads(s)
                 PROVE  /\ f[s].consumed[dep] = [run |-> Tip(d), seq |-> seqOf(dep)]
                        /\ f[s].consumed[dep].run.dir = d
                        /\ f[s].consumed[dep] = IdentityIn(n, Tip(d), dep)
                        /\ AtIn(n, f[s].consumed[dep], dep) = f[dep]
      OBVIOUS
    <2>1. f[s].consumed[dep] = [run |-> Tip(d), seq |-> seqOf(dep)] BY <1>13, <1>18, <1>19
    <2>2. f[s].consumed[dep].run.dir = d BY <2>1 DEF Tip
    <2>3. dep \in D /\ f[dep].seq = seqOf(dep) BY <1>5, <1>18, <1>19
    <2>4. n[d].executions[dep] = f[dep] BY <1>20, <1>25
    <2>5. IdentityIn(n, Tip(d), dep) = [run |-> Tip(d), seq |-> seqOf(dep)]
      BY <2>3, <2>4 DEF IdentityIn, Tip
    <2>6. AtIn(n, f[s].consumed[dep], dep) = f[dep] BY <2>2, <2>4 DEF AtIn
    <2> QED BY <2>1, <2>2, <2>5, <2>6
  <1>30. \A s \in D : DOMAIN f[s].consumed = reads(s) BY <1>13, <1>18, <1>19
  <1>31. Sound(n)
    <2>1. M.parent # None => n[M.parent.dir] # NoManifest BY <1>20
    <2>2. \A s \in DOMAIN M.executions : \A dep \in DOMAIN M.executions[s].consumed :
            /\ Place(dep) < Place(s)
            /\ n[M.executions[s].consumed[dep].run.dir] # NoManifest
      <3> SUFFICES ASSUME NEW s \in D, NEW dep \in reads(s)
                   PROVE  Place(dep) < Place(s) /\ n[f[s].consumed[dep].run.dir] # NoManifest
        BY <1>19, <1>20, <1>30
      <3>1. Place(dep) < Place(s) BY <1>6 DEF reads
      <3>2. f[s].consumed[dep].run.dir = d BY <1>29
      <3> QED BY <1>23, <1>25, <3>1, <3>2
    <2> QED BY <1>21, <1>22, <1>25, <1>26, <2>1, <2>2, WriteSound
  <1>32. \A s \in D : PatchTold(n, w2, s, f[s])
    <2> SUFFICES ASSUME NEW s \in D PROVE PatchTold(n, w2, s, f[s]) OBVIOUS
    <2> DEFINE r == f[s]
    <2>1. r.patch = patchOf(s) /\ r.base = baseOf(s) /\ DOMAIN r.consumed = reads(s)
      BY <1>18, <1>19, <1>30
    <2>2. \A dep \in reads(s) : dep \in D /\ AtIn(n, r.consumed[dep], dep).patch = patchOf(dep)
      <3> SUFFICES ASSUME NEW dep \in reads(s)
                   PROVE  dep \in D /\ AtIn(n, r.consumed[dep], dep).patch = patchOf(dep)
        OBVIOUS
      <3>1. dep \in D BY <1>5
      <3>2. AtIn(n, r.consumed[dep], dep) = f[dep] BY <1>29
      <3>3. f[dep].patch = patchOf(dep) BY <1>18, <1>19, <3>1
      <3> QED BY <3>1, <3>2, <3>3
    <2>3. s \in AboutPatch => PatchRepair \in reads(s) /\ (Comparison \in reads(s) <=> amended)
      BY AboutPatchIs DEF reads, RunReads
    <2>4. PatchRepair \in reads(Comparison) BY AboutPatchIs DEF reads, RunReads
    <2>5. g # None BY <1>9 DEF ReplayAssumption
    <2> HIDE DEF r, e, g
    <2>6. ASSUME s = Comparison, r.patch # None
          PROVE  /\ PatchRepair \in DOMAIN r.consumed
                 /\ r.base = AtIn(n, r.consumed[PatchRepair], PatchRepair).patch
      BY <1>15, <2>1, <2>2, <2>4, <2>6
    <2>7. ASSUME s \in AboutPatch, Comparison \in DOMAIN r.consumed
          PROVE  /\ r.patch # None
                 /\ r.patch = AtIn(n, r.consumed[Comparison], Comparison).patch
      BY <1>15, <2>1, <2>2, <2>3, <2>5, <2>7
    <2>8. ASSUME s \in AboutPatch, Comparison \notin DOMAIN r.consumed
          PROVE  /\ PatchRepair \in DOMAIN r.consumed
                 /\ r.patch = AtIn(n, r.consumed[PatchRepair], PatchRepair).patch
      BY <1>15, <2>1, <2>2, <2>3, <2>8
    <2>9. PatchTold(n, w2, s, r) BY <2>6, <2>7, <2>8 DEF PatchTold
    <2> QED BY <2>9 DEF r
  <1>33. /\ AllTold(n, w2)
         /\ \A x \in Dirs : n[x] # NoManifest <=> w2[x] # 0
    <2>1. \A s \in DOMAIN M.executions : PatchTold(n, w2, s, M.executions[s])
      BY <1>19, <1>20, <1>32
    <2>2. n[d] = M /\ \A x \in Dirs : x # d => n[x] = manifests[x] BY <1>25
    <2>3. /\ Sound(manifests) /\ AllTold(manifests, written) /\ written \in [Dirs -> Nat]
          /\ \A x \in Dirs : manifests[x] # NoManifest <=> written[x] # 0
      BY <1>22
    <2>4. Numbered(manifests, written) BY <2>3 DEF Numbered
    <2>5. Writes(manifests, n, written, w2, d, M) BY <1>27, <1>28, <2>2 DEF Writes
    <2>6. Tells(n, w2, M) BY <2>1 DEF Tells
    <2>7. AllTold(n, w2) /\ Numbered(n, w2)
      BY <1>21, <2>3, <2>4, <2>5, <2>6, WriteTold
    <2>8. \A x \in Dirs : n[x] # NoManifest <=> w2[x] # 0 BY <2>7 DEF Numbered
    <2> QED BY <2>7, <2>8
  <1>34. LineageInv'
    <2>1. last' \in Dirs \union {None} BY <1>10
    <2> QED BY <1>10, <1>27, <1>31, <1>33, <2>1 DEF LineageInv, n, w2
  <1>35. Rooted(n, d)
    <2>1. n[d] # NoManifest /\ n[d].parent = None /\ n[d].executions = f
      BY <1>20, <1>23, <1>25
    <2>2. ASSUME NEW s \in D, NEW dep \in DOMAIN f[s].consumed
          PROVE  /\ dep \in D /\ Place(dep) < Place(s)
                 /\ f[s].consumed[dep] = IdentityIn(n, Tip(d), dep)
      <3>1. dep \in reads(s) BY <1>30
      <3>2. Place(dep) < Place(s) BY <1>6, <3>1 DEF reads
      <3>3. f[s].consumed[dep] = IdentityIn(n, Tip(d), dep) BY <1>29, <3>1
      <3> QED BY <1>5, <3>1, <3>2, <3>3
    <2>3. D \subseteq Stages /\ Report \notin D /\ DOMAIN f = D BY <1>4, <1>8, <1>19
    <2> QED BY <2>1, <2>2, <2>3 DEF Rooted
  <1> QED BY <1>10, <1>34, <1>35 DEF n

-----------------------------------------------------------------------------
(* The chain that a replay started from, after it.                         *)

\* It is the chain it was, ...
LEMMA GrownWalk ==
  ASSUME ReplayAssumption, NEW m, NEW n, NEW out, NEW source, NEW s,
         Grows(m, n, out, source, s)
  PROVE  WalkIn(n, source) = WalkIn(m, source)
  <1> DEFINE W == WalkIn(m, source)
             f == CHOOSE f : Walks(f, m, source, MaxDirs)
             g == CHOOSE g : Walks(g, n, source, MaxDirs)
             Same(k) == k <= MaxDirs => Chained(m, f[k]) /\ f[k][1] = source /\ g[k] = f[k]
             S == {k \in Nat : Same(k)}
  <1>1. /\ source \in Paths /\ Sound(m) /\ m[source.dir] # NoManifest /\ Ends(m, W)
        /\ \A d \in Dirs : d # out => n[d] = m[d]
    BY DEF Grows
  <1>2. Chained(m, W) /\ W[1] = source BY <1>1, WalkChained
  <1>3. \A i \in 1..Len(W) : W[i].dir \in Dirs /\ W[i].dir # out BY GrownChain
  <1>4. MaxDirs \in Nat BY DEF ReplayAssumption
  <1>5. /\ Walks(f, m, source, MaxDirs) /\ W = f[MaxDirs]
        /\ Walks(g, n, source, MaxDirs) /\ WalkIn(n, source) = g[MaxDirs]
    BY <1>4, WalksDefined
  <1> HIDE DEF f, g, W
  <1>6. f[0] = <<source>> /\ g[0] = <<source>> BY <1>4, <1>5 DEF Walks
  <1>7. \A k \in Nat : k + 1 <= MaxDirs => f[k + 1] = Up(m, f[k]) /\ g[k + 1] = Up(n, g[k])
    <2> SUFFICES ASSUME NEW k \in Nat, k + 1 <= MaxDirs
                 PROVE  f[k + 1] = Up(m, f[k]) /\ g[k + 1] = Up(n, g[k])
      OBVIOUS
    <2>1. k + 1 \in 0..MaxDirs /\ k + 1 # 0 /\ (k + 1) - 1 = k BY <1>4
    <2> QED BY <1>5, <2>1 DEF Walks
  <1>8. Same(0)
    <2> DEFINE w == <<source>>
    <2>1. w \in Seq(Paths) /\ Len(w) = 1 /\ w[1] = source BY <1>1
    <2> HIDE DEF w
    <2>2. \A i \in 1..1 : i = 1 /\ i + 1 \notin 1..1 OBVIOUS
    <2>3. Chained(m, w) BY <1>1, <2>1, <2>2 DEF Chained
    <2> QED BY <1>6, <2>1, <2>3 DEF w
  <1>9. ASSUME NEW k \in Nat, Same(k), k + 1 <= MaxDirs
        PROVE  Chained(m, f[k + 1]) /\ f[k + 1][1] = source /\ g[k + 1] = f[k + 1]
    <2>1. k <= MaxDirs BY <1>4, <1>9
    <2>2. Chained(m, f[k]) /\ f[k][1] = source /\ g[k] = f[k] BY <1>9, <2>1
    <2>3. f[k + 1] = Up(m, f[k]) /\ g[k + 1] = Up(n, f[k]) BY <1>7, <1>9, <2>2
    <2>4. Chained(m, f[k + 1]) /\ f[k + 1][1] = source BY <1>1, <2>2, <2>3, UpChained
    <2> DEFINE w == f[k]
               l == Len(w)
    <2>5. Chained(m, w) /\ w[1] = W[1] BY <1>2, <2>2
    <2> HIDE DEF w
    <2>6. l <= Len(W) /\ \A i \in 1..l : w[i] = W[i] BY <1>1, <1>2, <2>5, ChainPrefix
    <2>7. l \in Nat \ {0} /\ Len(W) \in Nat BY <1>2, <2>5 DEF Chained
    <2>8. l \in 1..l /\ l \in 1..Len(W) BY <2>6, <2>7
    <2>9. Last(w) = W[l] BY <2>6, <2>8 DEF Last
    <2>10. n[Last(w).dir] = m[Last(w).dir] BY <1>1, <1>3, <2>8, <2>9
    <2>11. Up(n, w) = Up(m, w) BY <2>10 DEF Up
    <2> QED BY <2>3, <2>4, <2>11 DEF w
  <1>10. \A k \in Nat : Same(k) => Same(k + 1) BY <1>9
  <1> HIDE DEF Same
  <1>11. 0 \in S /\ \A k \in S \cap Nat : k + 1 \in S BY <1>8, <1>10
  <1> HIDE DEF S
  <1>12. MaxDirs \in S BY <1>4, <1>11, Inductive
  <1>13. Same(MaxDirs) BY <1>12 DEF S
  <1>14. g[MaxDirs] = f[MaxDirs] BY <1>4, <1>13 DEF Same
  <1> QED BY <1>5, <1>14 DEF W

\* ... and resolves what it did.
LEMMA GrownResolution ==
  ASSUME ReplayAssumption, NEW m, NEW n, NEW out, NEW source, NEW s,
         Grows(m, n, out, source, s)
  PROVE  ResolutionIn(n, WalkIn(n, source)) = ResolutionIn(m, WalkIn(m, source))
  <1> DEFINE W == WalkIn(m, source)
  <1>1. Chained(m, W) /\ \A i \in 1..Len(W) : W[i].dir \in Dirs /\ W[i].dir # out
    BY GrownChain
  <1>2. WalkIn(n, source) = W BY GrownWalk
  <1>3. Sound(m) /\ \A d \in Dirs : d # out => n[d] = m[d] BY DEF Grows
  <1> HIDE DEF W
  <1>4. W \in Seq(Paths) /\ DOMAIN W = 1..Len(W) BY <1>1, LenProperties DEF Chained
  <1>5. \A i \in DOMAIN W : n[W[i].dir] = m[W[i].dir] BY <1>1, <1>3, <1>4
  <1>6. \A t : CandidateIn(n, W, t) = CandidateIn(m, W, t)
    <2> TAKE t
    <2> DEFINE has(x) == {i \in DOMAIN W : t \in DOMAIN x[W[i].dir].executions}
    <2>1. has(n) = has(m) BY <1>5
    <2>2. \A x : CandidateIn(x, W, t) =
                   IF has(x) = {} THEN None
                   ELSE W[CHOOSE i \in has(x) : \A j \in has(x) : i <= j]
      BY DEF CandidateIn
    <2> HIDE DEF has
    <2> QED BY <2>1, <2>2
  <1>7. \A t \in Stages : CandidateIn(m, W, t) # None =>
          n[CandidateIn(m, W, t).dir] = m[CandidateIn(m, W, t).dir]
    <2> SUFFICES ASSUME NEW t \in Stages, CandidateIn(m, W, t) # None
                 PROVE  n[CandidateIn(m, W, t).dir] = m[CandidateIn(m, W, t).dir]
      OBVIOUS
    <2>1. \E i \in 1..Len(W) : CandidateIn(m, W, t) = W[i] BY <1>1, <1>3, CandidateTyped
    <2> QED BY <1>4, <1>5, <2>1
  <1>8. \A before : \A k \in 1..12 : Resolve(n, W, before, k) = Resolve(m, W, before, k)
    <2> SUFFICES ASSUME NEW before, NEW k \in 1..12
                 PROVE  Resolve(n, W, before, k) = Resolve(m, W, before, k)
      OBVIOUS
    <2> DEFINE t == ReadOrder[k]
               p == CandidateIn(m, W, t)
    <2>1. t \in Stages BY ReadOrderIs
    <2>2. CandidateIn(n, W, t) = p /\ (p # None => n[p.dir] = m[p.dir]) BY <1>6, <1>7, <2>1
    <2> HIDE DEF p
    <2>3. CASE p = None
      <3>1. p = CandidateIn(m, W, t) BY DEF p
      <3>2. Resolve(n, W, before, k) = before BY <2>2, <2>3 DEF Resolve
      <3>3. Resolve(m, W, before, k) = before BY <2>3, <3>1 DEF Resolve
      <3> QED BY <3>2, <3>3
    <2>4. CASE p # None
      <3>1. p = CandidateIn(m, W, t) BY DEF p
      <3>2. n[p.dir] = m[p.dir] BY <2>2, <2>4
      <3> QED BY <2>2, <3>1, <3>2 DEF Resolve, IdentityIn
    <2> QED BY <2>3, <2>4
  <1>9. \A f : Resolves(f, n, W, 12) <=> Resolves(f, m, W, 12)
    <2> TAKE f
    <2> DEFINE E(x, k) == IF k = 0 THEN [u \in Stages |-> None] ELSE Resolve(x, W, f[k - 1], k)
    <2>1. \A k \in 0..12 : E(n, k) = E(m, k)
      <3> TAKE k \in 0..12
      <3>1. k = 0 \/ k \in 1..12 OBVIOUS
      <3> QED BY <1>8, <3>1
    <2>2. \A x : Resolves(f, x, W, 12) <=> f = [k \in 0..12 |-> E(x, k)] BY DEF Resolves
    <2> HIDE DEF E
    <2>3. [k \in 0..12 |-> E(n, k)] = [k \in 0..12 |-> E(m, k)] BY <2>1
    <2> QED BY <2>2, <2>3
  <1>10. (CHOOSE f : Resolves(f, n, W, 12)) = (CHOOSE f : Resolves(f, m, W, 12)) BY <1>9
  <1>11. ResolutionIn(n, W) = (CHOOSE f : Resolves(f, n, W, 12))[12] BY ResolvesDefined
  <1>12. ResolutionIn(m, W) = (CHOOSE f : Resolves(f, m, W, 12))[12] BY ResolvesDefined
  <1>13. ResolutionIn(n, W) = ResolutionIn(m, W) BY <1>10, <1>11, <1>12
  <1> QED BY <1>2, <1>13 DEF W

-----------------------------------------------------------------------------
(* The properties, as formulas of the manifests, of how often each was      *)
(* written and of the directory last written.                              *)

UntouchedIn(m, wr, l) ==
  /\ l # None
  /\ Ends(m, WalkIn(m, Tip(l)))
  /\ \A path \in Range(WalkIn(m, Tip(l))) : wr[path.dir] = 1

OneLineageIn(m, wr, l) ==
  UntouchedIn(m, wr, l) =>
    \A s \in DOMAIN m[l].executions :
      LET behind == BehindIn(m, IdentityIn(m, Tip(l), s), s)
      IN  Cardinality(behind) = Cardinality({x[2] : x \in behind})

JudgesIn(m, wr, l) ==
  UntouchedIn(m, wr, l) /\ Report \in DOMAIN m[l].executions =>
    Judges(m, m[l].executions[Report])

AdvancesIn(m, wr, l) ==
  UntouchedIn(m, wr, l) /\ m[l].parent # None =>
    LET before == ResolutionIn(m, WalkIn(m, m[l].parent))
        after == ResolutionIn(m, WalkIn(m, Tip(l)))
    IN  \A s \in Stages :
          IF s \in DOMAIN m[l].executions
          THEN after[s] = IdentityIn(m, Tip(l), s)
          ELSE \/ after[s] = before[s]
               \/ /\ before[s] # None /\ after[s] = None
                  /\ \E x \in BehindIn(m, before[s], s) : x[2] \in DOMAIN m[l].executions

LEMMA PropertiesAre ==
  /\ OneLineageIn(manifests, written, last) <=> OneLineage
  /\ JudgesIn(manifests, written, last) <=> ReportJudgesItsPatch
  /\ AdvancesIn(manifests, written, last) <=> ReplayAdvances
  <1> DEFINE W == WalkIn(manifests, Tip(last))
  <1>1. Newest = Tip(last) BY DEF Newest, Tip
  <1>2. Walk(Newest) = W BY <1>1, MirrorsAre
  <1>3. UntouchedIn(manifests, written, last) <=> Untouched
    <2>1. BuildsChain(Newest) <=> Ends(manifests, W) BY <1>2 DEF BuildsChain, Ends, Last
    <2> QED BY <1>2, <2>1 DEF UntouchedIn, Untouched
  <1>4. \A path, s : Identity(path, s) = IdentityIn(manifests, path, s)
    BY DEF Identity, IdentityIn, Executions
  <1>5. \A id, s : At(id, s) = AtIn(manifests, id, s) BY DEF At, AtIn, Executions
  <1>6. OneLineageIn(manifests, written, last) <=> OneLineage
    <2>1. \A id, s : ReadBehind(id, s) = BehindIn(manifests, id, s) BY MirrorsAre
    <2> QED BY <1>1, <1>3, <1>4, <2>1 DEF OneLineageIn, OneLineage, Executions
  <1>7. JudgesIn(manifests, written, last) <=> ReportJudgesItsPatch
    BY <1>3, <1>5 DEF JudgesIn, Judges, ReportJudgesItsPatch, Executions
  <1>8. AdvancesIn(manifests, written, last) <=> ReplayAdvances
    <2>1. \A id, s : ReadBehind(id, s) = BehindIn(manifests, id, s) BY MirrorsAre
    <2>2. \A path : Walk(path) = WalkIn(manifests, path) BY MirrorsAre
    <2>3. \A chain : Resolution(chain) = ResolutionIn(manifests, chain) BY MirrorsAre
    <2> QED BY <1>1, <1>3, <1>4, <2>1, <2>2, <2>3 DEF AdvancesIn, ReplayAdvances, Executions
  <1> QED BY <1>6, <1>7, <1>8

\* What a written directory promises of itself and of what it rests on.
Promised(m, wr, l) == OneLineageIn(m, wr, l) /\ JudgesIn(m, wr, l) /\ AdvancesIn(m, wr, l)

LEMMA RunPromises ==
  ASSUME NEW n, NEW wr, NEW d \in Dirs, Rooted(n, d)
  PROVE  Promised(n, wr, d)
  <1>1. OneLineageIn(n, wr, d) BY RunMixesNothing DEF OneLineageIn
  <1>2. n[d].parent = None /\ Report \notin DOMAIN n[d].executions BY DEF Rooted
  <1>3. JudgesIn(n, wr, d) BY <1>2 DEF JudgesIn
  <1>4. AdvancesIn(n, wr, d) BY <1>2 DEF AdvancesIn
  <1> QED BY <1>1, <1>3, <1>4 DEF Promised

\* A replay keeps what a directory promises, if it wrote what it should.
LEMMA GrownPromises ==
  ASSUME ReplayAssumption, NEW m, NEW n, NEW wr, NEW out, NEW source, NEW s,
         Grows(m, n, out, source, s), ReadsResolved(m, n, out, source, s),
         UntouchedIn(n, wr, out), AllTold(n, wr),
         s = Report =>
           /\ {PatchRepair, Review, Confidence, Impact} \subseteq
                DOMAIN n[out].executions[s].consumed
           /\ Comparison \notin DOMAIN n[out].executions[s].consumed =>
                LET id == ResolutionIn(m, WalkIn(m, source))[Comparison]
                IN  id = None \/ AtIn(m, id, Comparison).patch = None
  PROVE  Promised(n, wr, out)
  <1> DEFINE W == WalkIn(m, source)
             V == WalkIn(n, Tip(out))
  <1>1. /\ DOMAIN n[out].executions = {s} /\ n[out].parent = source /\ s \in Stages
        /\ n[out] # NoManifest /\ out \in Dirs
    BY DEF Grows
  <1>2. OneLineageIn(n, wr, out)
    <2>1. LET behind == BehindIn(n, IdentityIn(n, Tip(out), s), s)
          IN  Cardinality(behind) = Cardinality({x[2] : x \in behind})
      BY ReplayMixesNothing
    <2> QED BY <1>1, <2>1 DEF OneLineageIn
  <1>3. AdvancesIn(n, wr, out)
    <2> DEFINE R == ResolutionIn(m, W)
               Q == ResolutionIn(n, V)
               B(t) == BehindIn(n, R[t], t)
    <2>1. ResolutionIn(n, WalkIn(n, source)) = R BY GrownResolution
    <2>2. Q[s] = IdentityIn(n, Tip(out), s) BY TipResolves
    <2>3. \A t \in Stages : t # s =>
            \/ Q[t] = R[t]
            \/ R[t] # None /\ Q[t] = None /\ \E x \in B(t) : x[2] = s
      BY GrownAbove
    <2>4. AdvancesIn(n, wr, out) <=>
            (UntouchedIn(n, wr, out) /\ n[out].parent # None =>
               \A t \in Stages :
                 IF t \in {s}
                 THEN Q[t] = IdentityIn(n, Tip(out), t)
                 ELSE \/ Q[t] = R[t]
                      \/ R[t] # None /\ Q[t] = None /\ \E x \in B(t) : x[2] \in {s})
      BY <1>1, <2>1 DEF AdvancesIn
    <2> HIDE DEF R, Q, B
    <2> QED BY <2>2, <2>3, <2>4
  <1>4. JudgesIn(n, wr, out)
    <2> SUFFICES ASSUME s = Report PROVE JudgesIn(n, wr, out) BY <1>1 DEF JudgesIn
    <2> DEFINE r == n[out].executions[Report]
    <2>1. /\ {PatchRepair, Review, Confidence, Impact} \subseteq DOMAIN r.consumed
          /\ Comparison \notin DOMAIN r.consumed =>
                LET id == ResolutionIn(m, W)[Comparison]
                IN  id = None \/ AtIn(m, id, Comparison).patch = None
      OBVIOUS
    <2>2. /\ Chained(n, V) /\ V[1] = Tip(out) /\ Len(V) = Len(W) + 1 /\ Chained(m, W)
          /\ \A i \in 1..Len(W) : V[i + 1] = W[i]
      BY GrownChain
    <2> HIDE DEF V, W
    <2>3. \A path \in Range(V) : wr[path.dir] = 1 BY DEF UntouchedIn, V
    <2>4. /\ V \in Seq(Paths) /\ Len(W) \in Nat BY <2>2 DEF Chained
    <2>5. DOMAIN V = 1..(Len(W) + 1) BY <2>2, <2>4, LenProperties
    <2>6. \A i \in DOMAIN V : wr[V[i].dir] = 1 BY <2>3 DEF Range
    <2>7. wr[out] = 1
      <3>1. 1 \in DOMAIN V BY <2>4, <2>5
      <3>2. Tip(out).dir = out BY DEF Tip
      <3> QED BY <2>2, <2>6, <3>1, <3>2
    <2>8. \A i \in 1..Len(W) : wr[W[i].dir] = 1
      <3> TAKE i \in 1..Len(W)
      <3>1. i + 1 \in DOMAIN V BY <2>4, <2>5
      <3> QED BY <2>2, <2>6, <3>1
    <2>9. Judges(n, r)
      <3>1. Grows(m, n, out, source, Report) /\ ReadsResolved(m, n, out, source, Report)
        OBVIOUS
      <3>2. \A i \in 1..Len(WalkIn(m, source)) : wr[WalkIn(m, source)[i].dir] = 1
        BY <2>8 DEF W
      <3>3. Comparison \notin DOMAIN r.consumed =>
                LET id == ResolutionIn(m, WalkIn(m, source))[Comparison]
                IN  id = None \/ AtIn(m, id, Comparison).patch = None
        BY <2>1 DEF W
      <3> QED BY <2>1, <2>7, <3>1, <3>2, <3>3, ReportJudges
    <2> QED BY <2>9 DEF JudgesIn
  <1> QED BY <1>2, <1>3, <1>4 DEF Promised

\* A replay writes a directory that keeps what directories promise.
LEMMA ReplayPromises ==
  ASSUME ReplayAssumption, LineageInv, NEW source \in Sources, NEW R,
         R = Resolution(Walk(source)), NEW s \in Replayed, NEW out \in Dirs,
         NEW planned \in BOOLEAN, NEW amended \in BOOLEAN,
         Replay(source, R, s, out, planned, amended)
  PROVE  LineageInv' /\ Promised(manifests', written', last')
  <1> DEFINE n == manifests'
             w2 == written'
  <1>1. /\ LineageInv' /\ s \in Stages /\ last' = out
        /\ n[out] # NoManifest /\ n[out].parent = source
        /\ DOMAIN n[out].executions = {s}
        /\ w2 = [written EXCEPT ![out] = @ + 1]
        /\ \A d \in Dirs : d # out => n[d] = manifests[d]
        /\ n[out].executions[s].consumed = Consumed(R, s)
        /\ ReadyToReplay(R, s)
    BY ReplayStep
  <1>2. Sound(n) /\ AllTold(n, w2) BY <1>1 DEF LineageInv
  <1>3. /\ Sound(manifests) /\ written \in [Dirs -> Nat]
        /\ \A d \in Dirs : manifests[d] # NoManifest <=> written[d] # 0
    BY DEF LineageInv
  <1>4. /\ source \in Paths /\ source.dir \in Dirs /\ manifests[source.dir] # NoManifest
        /\ Ends(manifests, WalkIn(manifests, source))
        /\ R = ResolutionIn(manifests, WalkIn(manifests, source))
    BY SourceIs
  <1> HIDE DEF n, w2
  <1>5. ASSUME UntouchedIn(n, w2, out) PROVE Promised(n, w2, out)
    <2>1. Tip(out) \in Paths /\ Tip(out).dir = out BY DEF Tip, Paths
    <2>2. Chained(n, WalkIn(n, Tip(out))) /\ WalkIn(n, Tip(out))[1] = Tip(out)
      BY <1>1, <1>2, <2>1, WalkChained
    <2> DEFINE V == WalkIn(n, Tip(out))
    <2>3. (\A path \in Range(V) : w2[path.dir] = 1) /\ Ends(n, V) BY <1>5 DEF UntouchedIn
    <2>4. V \in Seq(Paths) /\ Len(V) \in Nat \ {0} BY <2>2 DEF Chained
    <2>5. V[1] = Tip(out) BY <2>2
    <2> HIDE DEF V
    <2>6. 1 \in DOMAIN V
      <3>1. DOMAIN V = 1..Len(V) BY <2>4, LenProperties
      <3> QED BY <2>4, <3>1
    <2>7. w2[out] = 1 BY <2>1, <2>3, <2>5, <2>6 DEF Range
    <2>8. w2[out] = written[out] + 1 /\ written[out] \in Nat BY <1>1, <1>3
    <2>9. manifests[out] = NoManifest BY <1>3, <2>7, <2>8
    <2>10. Grows(manifests, n, out, source, s)
      <3>1. Ends(n, WalkIn(n, Tip(out))) BY <2>3 DEF V
      <3> QED BY <1>1, <1>2, <1>3, <1>4, <2>9, <3>1 DEF Grows
    <2>11. ConsumedTold(Consumed(R, s), R, s) BY <1>1, ConsumedIs
    <2>12. ReadsResolved(manifests, n, out, source, s)
      BY <1>1, <1>4, <2>11 DEF ReadsResolved, ConsumedTold
    <2>13. ASSUME s = Report
           PROVE  /\ {PatchRepair, Review, Confidence, Impact} \subseteq
                       DOMAIN n[out].executions[s].consumed
                  /\ Comparison \notin DOMAIN n[out].executions[s].consumed =>
                       LET id == ResolutionIn(manifests, WalkIn(manifests, source))[Comparison]
                       IN  id = None \/ AtIn(manifests, id, Comparison).patch = None
      <3> DEFINE c == n[out].executions[s].consumed
      <3>1. DOMAIN c = HandlerReads[s] \union
                         (IF s \in AboutPatch /\ Amends(R) THEN {Comparison} ELSE {})
        BY <1>1, <2>11 DEF ConsumedTold
      <3>2. s \in AboutPatch BY <2>13 DEF AboutPatch
      <3> HIDE DEF c
      <3>3. {PatchRepair, Review, Confidence, Impact} \subseteq DOMAIN c
        BY <2>13, <3>1, HandlerReadsIs
      <3>4. Comparison \notin DOMAIN c => ~Amends(R) BY <3>1, <3>2
      <3>5. ~Amends(R) =>
              R[Comparison] = None \/ AtIn(manifests, R[Comparison], Comparison).patch = None
        BY DEF Amends, At, AtIn, Executions
      <3>6. Comparison \notin DOMAIN c =>
              LET id == ResolutionIn(manifests, WalkIn(manifests, source))[Comparison]
              IN  id = None \/ AtIn(manifests, id, Comparison).patch = None
        BY <1>4, <3>4, <3>5
      <3> QED BY <3>3, <3>6 DEF c
    <2> QED BY <1>2, <1>5, <2>10, <2>12, <2>13, GrownPromises
  <1>6. Promised(n, w2, out)
    BY <1>5 DEF Promised, OneLineageIn, JudgesIn, AdvancesIn
  <1> QED BY <1>1, <1>6 DEF n, w2

-----------------------------------------------------------------------------
(* The theorems.                                                           *)

\* Inductive: what is known of the manifests, and what the directory last
\* written promises.
ReplayInv == LineageInv /\ Promised(manifests, written, last)

LEMMA ReplayInit == ReplayAssumption /\ LineageInit => ReplayInv
  <1> SUFFICES ASSUME ReplayAssumption, LineageInit PROVE ReplayInv OBVIOUS
  <1>1. /\ manifests \in [Dirs -> Manifests \union {NoManifest}]
        /\ \A d \in Dirs : manifests[d] = NoManifest
        /\ written \in [Dirs -> Nat] /\ \A d \in Dirs : written[d] = 0
        /\ last = None /\ spent \in Nat
    BY DEF LineageInit
  <1>2. Sound(manifests) BY <1>1 DEF Sound
  <1>3. AllTold(manifests, written) BY <1>1 DEF AllTold
  <1>4. LineageInv BY <1>1, <1>2, <1>3 DEF LineageInv
  <1>5. ~UntouchedIn(manifests, written, last) BY <1>1 DEF UntouchedIn
  <1>6. Promised(manifests, written, last)
    BY <1>5 DEF Promised, OneLineageIn, JudgesIn, AdvancesIn
  <1> QED BY <1>4, <1>6 DEF ReplayInv

LEMMA ReplayNext == ReplayAssumption /\ ReplayInv /\ [LineageNext]_lineageVars => ReplayInv'
  <1> SUFFICES ASSUME ReplayAssumption, ReplayInv, [LineageNext]_lineageVars PROVE ReplayInv'
    OBVIOUS
  <1>1. LineageInv BY DEF ReplayInv
  <1>2. ASSUME NEW d \in Dirs, NEW compared \in BOOLEAN, NEW planned \in BOOLEAN,
               NEW amended \in BOOLEAN, NEW settled \in Settled,
               FullRun(d, compared, planned, amended, settled)
        PROVE  ReplayInv'
    <2>1. LineageInv' /\ last' = d /\ Rooted(manifests', d) BY <1>1, <1>2, FullRunStep
    <2> DEFINE n == manifests'
               w2 == written'
    <2>2. Rooted(n, d) BY <2>1
    <2> HIDE DEF n, w2
    <2>3. Promised(n, w2, d) BY <2>2, RunPromises
    <2> QED BY <2>1, <2>3 DEF ReplayInv, n, w2
  <1>3. ASSUME NEW source \in Sources, NEW s \in Replayed, NEW out \in Dirs,
               NEW planned \in BOOLEAN, NEW amended \in BOOLEAN,
               Replay(source, Resolution(Walk(source)), s, out, planned, amended)
        PROVE  ReplayInv'
    <2>1. LineageInv' /\ Promised(manifests', written', last') BY <1>1, <1>3, ReplayPromises
    <2> QED BY <2>1 DEF ReplayInv
  <1>4. CASE UNCHANGED lineageVars
    BY <1>4 DEF lineageVars, ReplayInv, LineageInv
  <1> QED BY <1>2, <1>3, <1>4 DEF LineageNext

\* Whatever was replayed, from wherever and in whatever order: a manifest names
\* only directories that have one, an execution consumed only stages before
\* its own, and what it tells of the candidate patch is what it read.
THEOREM ManifestsAreSound == LineageSpec => []LineageInv
  <1>1. ReplayAssumption /\ LineageInit => ReplayInv BY ReplayInit
  <1>2. ReplayAssumption /\ ReplayInv /\ [LineageNext]_lineageVars => ReplayInv' BY ReplayNext
  <1>3. ReplayInv => LineageInv BY DEF ReplayInv
  <1> QED BY <1>1, <1>2, <1>3, ReplayAssumption, PTL DEF LineageSpec

\* resolve_effective is neither too weak nor too strict: in a lineage of
\* directories written once, nothing an execution rests on mixes two executions
\* of one stage, and a replay is what its own directory resolves and makes
\* stale only what rests on the stage it replayed.
THEOREM LineageIsSound == LineageSpec => []LineageSound
  <1>1. ReplayAssumption /\ LineageInit => ReplayInv BY ReplayInit
  <1>2. ReplayAssumption /\ ReplayInv /\ [LineageNext]_lineageVars => ReplayInv' BY ReplayNext
  <1>3. ReplayInv => LineageSound BY PropertiesAre DEF ReplayInv, Promised, LineageSound
  <1> QED BY <1>1, <1>2, <1>3, ReplayAssumption, PTL DEF LineageSpec

\* _resolve_authoritative_candidate: a replayed report is of the candidate patch
\* of the repair it read or of the amendment of that very patch, and the review,
\* the score and the impact it shows were made of one of these two.
THEOREM ReportJudged == LineageSpec => []ReportJudgesItsPatch
  <1>1. ReplayAssumption /\ LineageInit => ReplayInv BY ReplayInit
  <1>2. ReplayAssumption /\ ReplayInv /\ [LineageNext]_lineageVars => ReplayInv' BY ReplayNext
  <1>3. ReplayInv => ReportJudgesItsPatch BY PropertiesAre DEF ReplayInv, Promised
  <1> QED BY <1>1, <1>2, <1>3, ReplayAssumption, PTL DEF LineageSpec
=============================================================================
