---------------------------- MODULE PatchPipeline ----------------------------
(***************************************************************************)
(* The auto-patcher from the first patch to the recommendation             *)
(* (utilities/autopatcher/pipeline.py, S4 to S12 after PatchPlanning).     *)
(* The patch is replaced up to four times (regeneration for its targets,   *)
(* a retry that applies, a repair, a test amendment), and each piece of    *)
(* evidence about it - does it apply, is it clean, was it challenged, how  *)
(* are the challenger's findings calibrated - is a variable of its own     *)
(* that must be replaced along with it or not at all.                      *)
(*                                                                         *)
(* Abstracted: a patch is a name for the generation that wrote it and the  *)
(* files it changes (none: prose that is not a diff), with what the two    *)
(* readers of a diff see of them; hunks, as a choice of whether those of a *)
(* ready file lie in its target; the challenger's                          *)
(* findings, as one of a defect and one gap; the impact analysis, tests    *)
(* and report text, as whether the impact is positive.  A repository is    *)
(* given.  A model that is unavailable ends the run without a report.      *)
(***************************************************************************)
EXTENDS PatchPlanning, TestComparison

CONSTANTS
    TestFile,  \* the existing test an amendment may change
    Hunkless   \* bound: the files that a diff may change without a hunk

ASSUME PipelineAssumption == TestFile \in Files /\ Hunkless \subseteq Files

VARIABLES
    patch,         \* the patch: its generation, the one it amends, its files
                   \* (and, as history, those no check was able to see)
    applies,       \* applicability_result
    hygiene,       \* hygiene_findings
    investigated,  \* _investigated_patch, whose post-patch evidence there is
    challenger,    \* the adversarial review
    calibration,   \* finding_calibration, of the review's findings
    candidate,     \* the repair under review, or the amended patch
    comparison,    \* of the existing tests, without and with a patch
    decision

evidenceOf == <<applies, hygiene, investigated, challenger, calibration>>
patching   == <<patch, evidenceOf, candidate, comparison, decision>>
vars       == <<pc, planning, patching>>

(* Of the files that git apply would change, hunked are those parse_diff   *)
(* finds hunks of, after a "+++ b/" header; named, those whose headers     *)
(* _patch_changed_files reads: deleted, renamed and copied ones too, but   *)
(* not, say, one whose mode alone changes.                                 *)
Edits == {e \in [files : SUBSET Files, named : SUBSET Files, hunked : SUBSET Files] :
             /\ e.hunked \subseteq e.named /\ e.named \subseteq e.files
             /\ e.files \ e.hunked \subseteq Hunkless}

NoEdits == [files |-> {}, named |-> {}, hunked |-> {}]

Patch(id, e) == [id |-> id, base |-> id, files |-> e.files, named |-> e.named,
                 hunked |-> e.hunked, unseen |-> {}]
NoPatch       == Patch("none", NoEdits)
NoEvidence    == [of |-> "none", says |-> "none"]
NoReview      == [of |-> "none", vulnerable |-> FALSE, defect |-> "none", gap |-> FALSE]
NoCalibration == [of |-> "none", defect |-> "missing", gap |-> "missing", read |-> "code"]
NotRequested  == [of |-> "none", status |-> "none", honest |-> TRUE]

Init ==
    /\ PlanInit /\ patch = NoPatch /\ applies = NoEvidence /\ hygiene = NoEvidence
    /\ investigated = "none" /\ challenger = NoReview /\ calibration = NoCalibration
    /\ candidate = NoPatch /\ comparison = NotRequested /\ decision = "none"

Diffs(id) == {Patch(id, e) : e \in Edits}

(* History: p, of which a check saw these files, in the place of one with  *)
(* files that were not seen.                                               *)
Unseen(p, past, seen) == [p EXCEPT !.unseen = past \cup (p.files \ seen)]

-----------------------------------------------------------------------------
(* S4: generation, with one retry of a reply that breaks the contract. *)

Skips ==
    /\ pc = "generation" /\ skip # {}
    /\ pc' = "challenge" /\ UNCHANGED <<planning, patching>>

Generate(p) ==
    /\ pc = "generation" /\ skip = {}
    /\ patch' = Unseen(p, {}, p.hunked)
    /\ pc' = IF readiness.checked THEN "conformance" ELSE "process"
    /\ UNCHANGED <<planning, evidenceOf, candidate, comparison, decision>>

GeneratesNothing ==
    /\ pc = "generation" /\ skip = {}
    /\ pc' = "challenge" /\ UNCHANGED <<planning, patching>>

(* Every hunk found is of a ready file, where it may lie outside of its    *)
(* targets (strays), and there is one; files without hunks go unnoticed.   *)
Conforms(p, ready, strays) == p.hunked # {} /\ p.hunked \subseteq ready /\ ~ strays

Conformant(strays) ==
    /\ pc = "conformance" /\ Conforms(patch, readiness.files, strays)
    /\ pc' = "process" /\ UNCHANGED <<planning, patching>>

(* Source recovered after the fact approves a file, with prior support.  *)
Reconciled(recovered) == readiness.files \cup (recovered \cap PriorSupported)

Regenerate(strays, recovered, p) ==
    /\ pc = "conformance" /\ ~ Conforms(patch, readiness.files, strays)
    /\ Conforms(p, Reconciled(recovered), FALSE)
    /\ patch' = Unseen(p, {}, p.hunked) /\ pc' = "process"
    /\ UNCHANGED <<planning, evidenceOf, candidate, comparison, decision>>

(* Not ready, nothing usable, not conformant again, or an exception. *)
Withdraw ==
    /\ pc = "conformance" /\ patch' = NoPatch /\ pc' = "challenge"
    /\ UNCHANGED <<planning, evidenceOf, candidate, comparison, decision>>

(* process_generated_patch: what is known of the patch it returns. *)
Known(p, says, tidy) ==
    /\ p.files = {} => says # "yes"
    /\ applies' = [of |-> p.id, says |-> says] /\ hygiene' = [of |-> p.id, says |-> tidy]

Process(says, tidy) ==
    /\ pc = "process" /\ Known(patch, says, tidy)
    /\ pc' = IF says = "no" /\ patch.files # {} THEN "retry" ELSE "investigation"
    /\ UNCHANGED <<planning, patch, investigated, challenger, calibration,
                   candidate, comparison, decision>>

(* The files that failed are written again; the others' edits that         *)
(* parse_diff finds are kept.                                              *)
RetryApplies(failing, p, tidy) ==
    /\ pc = "retry" /\ failing \subseteq patch.files /\ failing # {}
    /\ p.hunked \ failing = patch.hunked \ failing
    /\ patch' = Unseen(p, patch.unseen, p.hunked)
    /\ Known(p, "yes", tidy) /\ pc' = "investigation"
    /\ UNCHANGED <<planning, investigated, challenger, calibration, candidate, comparison, decision>>

RetryFails ==
    /\ pc = "retry" /\ pc' = "investigation" /\ UNCHANGED <<planning, patching>>

(* Evidence from a patched copy; none without anchors, or on a failure. *)
Investigate(of) ==
    /\ pc = "investigation" /\ of \in {patch.id, "none"}
    /\ investigated' = of /\ pc' = "challenge"
    /\ UNCHANGED <<planning, patch, applies, hygiene, challenger, calibration,
                   candidate, comparison, decision>>

-----------------------------------------------------------------------------
(* S5, S6: the review, and one repair of what it observed. *)

Reviews(id) == [of : {id}, vulnerable : BOOLEAN,
                defect : {"none", "confirmed", "behavioral"}, gap : BOOLEAN]

Challenge(r) ==
    /\ pc = "challenge" /\ patch # NoPatch /\ challenger' = r
    /\ pc' = IF r.defect = "none" THEN "fallback" ELSE "calibration"
    /\ UNCHANGED <<planning, patch, applies, hygiene, investigated, calibration,
                   candidate, comparison, decision>>

NothingToChallenge ==
    /\ pc = "challenge" /\ patch = NoPatch /\ pc' = "decide"
    /\ UNCHANGED <<planning, patching>>

(* The calibrations a call may return for a review, of what it is asked. *)
Calibrations(r, asked, read) ==
    {NoCalibration} \cup
    {[of |-> r.of, defect |-> d, gap |-> g, read |-> read] :
        d \in IF r.defect \in asked THEN {"missing", "observed", "cleared"} ELSE {"missing"},
        g \in IF r.gap /\ "gap" \in asked THEN {"missing", "blocks", "cleared"} ELSE {"missing"}}

(* The post-patch evidence is shown where it is of this patch. *)
ReadBy(p) == IF investigated = p.id THEN investigated ELSE "code"

(* A calibration is of the findings of its own review only. *)
Entry(c, r) == IF c.of = r.of THEN c ELSE NoCalibration
ShouldRepair(r, c, a) ==
    a.says = "yes" /\ r.defect # "none" /\ Entry(c, r).defect = "observed"

CalibrateFirst(c) ==
    /\ pc = "calibration"
    /\ c \in Calibrations(challenger, {"confirmed", "behavioral", "gap"}, ReadBy(patch))
    /\ calibration' = c
    /\ pc' = IF ShouldRepair(challenger, c, applies) THEN "repair" ELSE "fallback"
    /\ UNCHANGED <<planning, patch, applies, hygiene, investigated, challenger,
                   candidate, comparison, decision>>

(* Mutant: the repair's files are read as the gate reads them. *)
WithinOriginalHunks(p) == p.hunked # {} /\ p.hunked \subseteq patch.hunked

WithinOriginal(p) == p.named # {} /\ p.named \subseteq patch.named

RepairApplies(p) ==
    /\ pc = "repair" /\ WithinOriginal(p)
    /\ candidate' = Unseen(p, patch.unseen, p.named) /\ pc' = "rechallenge"
    /\ UNCHANGED <<planning, patch, evidenceOf, comparison, decision>>

(* It does not apply, reaches another file, or the attempt failed. *)
KeepOriginal ==
    /\ pc \in {"repair", "rechallenge"}
    /\ candidate' = NoPatch /\ pc' = "fallback"
    /\ UNCHANGED <<planning, patch, evidenceOf, comparison, decision>>

AcceptRepair(r, c) ==
    /\ r.vulnerable => challenger.vulnerable
    /\ r.defect # "none" => Entry(c, r).defect = "cleared"

(* Mutant: the review of the first patch is kept for the repair. *)
TakeRepairAlone(r, c, tidy) ==
    /\ patch' = candidate /\ Known(candidate, "yes", tidy)
    /\ UNCHANGED <<challenger, calibration>>

(* The repair is accepted with all that was found out about it. *)
TakeRepair(r, c, tidy) ==
    /\ patch' = candidate /\ Known(candidate, "yes", tidy)
    /\ challenger' = r /\ calibration' = c

Repair(r, c, tidy) ==
    /\ pc = "rechallenge"
    /\ c \in Calibrations(r, {"confirmed", "behavioral"}, "code")
    /\ AcceptRepair(r, c) /\ TakeRepair(r, c, tidy)
    /\ candidate' = NoPatch /\ pc' = "fallback"
    /\ UNCHANGED <<planning, investigated, comparison, decision>>

(* The findings of the final review, where they are not yet calibrated. *)
CalibrateLast(c) ==
    /\ pc = "fallback" /\ pc' = "comparison"
    /\ IF calibration # NoCalibration THEN c = calibration
       ELSE c \in Calibrations(challenger, {"behavioral", "gap"}, ReadBy(patch))
    /\ calibration' = c
    /\ UNCHANGED <<planning, patch, applies, hygiene, investigated, challenger,
                   candidate, comparison, decision>>

-----------------------------------------------------------------------------
(* S10, S11: the existing tests, where that is asked for and the patch     *)
(* applies.  One test that now fails may be amended; the changes to the    *)
(* code are kept, and the amended patch must be seen to break nothing.     *)

Compare(c, p) == comparison' = [of |-> p.id, status |-> c.status, honest |-> Honest(c)]

(* Not asked for, no patch that applies, no Docker, or no plan to run them.*)
SkipComparison ==
    /\ pc = "comparison" /\ pc' = "decide"
    /\ \/ comparison' = NotRequested
       \/ \E c \in NotCompared : Compare(c, patch)
    /\ UNCHANGED <<planning, patch, evidenceOf, candidate, decision>>

(* An amendment needs the names of the tests, and an invariant to hold.    *)
MayAmend(c) == c.newly # {} /\ strategy.state = "evaluated"

CompareTests(c) ==
    /\ pc = "comparison" /\ applies.says = "yes" /\ Compare(c, patch)
    /\ pc' = IF MayAmend(c) THEN "amendment" ELSE "decide"
    /\ UNCHANGED <<planning, patch, evidenceOf, candidate, decision>>

(* It may change a file of the failing tests only that the patch does not. *)
Amend ==
    /\ pc = "amendment" /\ TestFile \notin patch.hunked
    /\ candidate' = [patch EXCEPT !.id = "amended", !.files  = @ \cup {TestFile},
                                   !.named = @ \cup {TestFile},
                                   !.hunked = @ \cup {TestFile}]
    /\ pc' = "rerun"
    /\ UNCHANGED <<planning, patch, evidenceOf, comparison, decision>>

(* No amendment is justified, it is out of scope, or it does not apply;    *)
(* where the attempt raises, the first comparison is lost as well.         *)
NoAmendment ==
    /\ pc = "amendment" /\ pc' = "decide"
    /\ \/ comparison' = comparison
       \/ \E c \in NotCompared : c.status = "TEST_EXECUTION_ERROR" /\ Compare(c, patch)
    /\ UNCHANGED <<planning, patch, evidenceOf, candidate, decision>>

(* The second comparison stands with its patch, or the first with its own. *)
TakeAmendment(c) ==
    IF c.status \in GoodStatus THEN patch' = candidate /\ Compare(c, candidate)
                               ELSE UNCHANGED <<patch, comparison>>

Rerun(c) ==
    /\ pc = "rerun" /\ TakeAmendment(c)
    /\ candidate' = NoPatch /\ pc' = "decide"
    /\ UNCHANGED <<planning, evidenceOf, decision>>

-----------------------------------------------------------------------------
(* The report: _reconcile_verification_status_with_calibration narrows the *)
(* verdict, _build_known_findings counts what remains, and the policy.     *)

(* Mutant: a gap blocks only where calibration says that it does. *)
GapBlocksIfCalibrated(r, c) == r.gap /\ Entry(c, r).gap = "blocks"

GapBlocks(r, c) == r.gap /\ Entry(c, r).gap # "cleared"
StillVulnerable(r, c) == r.vulnerable \/ GapBlocks(r, c)
DefectRemains(r, c)   == r.defect = "confirmed" /\ Entry(c, r).defect # "cleared"

Recommended(impactPositive) ==
    IF patch = NoPatch THEN "NO PATCH PRODUCED"
    ELSE IF hygiene.says = "critical" \/ applies.says = "no" THEN "Do Not Apply"
    ELSE IF \/ DefectRemains(challenger, calibration)
            \/ StillVulnerable(challenger, calibration)
            \/ applies.says # "yes" \/ hygiene.says # "clean" \/ ~ impactPositive
         THEN "Manual Review Required"
    ELSE "Deploy After Validation"

Decide(impactPositive) ==
    /\ pc = "decide" /\ decision' = Recommended(impactPositive) /\ pc' = "reported"
    /\ UNCHANGED <<planning, patch, evidenceOf, candidate, comparison>>

(* ModelUnavailableError, or a call outside any handler: no report. *)
Unavailable ==
    /\ pc \in {"planning", "claim", "revision", "strategy", "gap", "readiness",
               "generation", "challenge"}
    /\ pc' = "raised" /\ UNCHANGED <<planning, patching>>

(* A wide choice is only made at the stage of its action.                  *)
Next ==
    \/ PlanNext /\ UNCHANGED patching
    \/ Skips
    \/ \E p \in Diffs("generated") : Generate(p)
    \/ GeneratesNothing
    \/ \E s \in BOOLEAN : Conformant(s)
    \/ \E s \in BOOLEAN, R \in SUBSET Files, p \in Diffs("regenerated") : Regenerate(s, R, p)
    \/ Withdraw
    \/ \E a \in {"yes", "no", "unknown"}, t \in {"clean", "flagged", "critical"} : Process(a, t)
    \/ pc = "retry" /\
          \E F \in SUBSET Files, p \in Diffs("retried"), t \in {"clean", "flagged", "critical"} :
              RetryApplies(F, p, t)
    \/ RetryFails
    \/ \E i \in {patch.id, "none"} : Investigate(i)
    \/ pc = "challenge" /\ \E r \in Reviews(patch.id) : Challenge(r)
    \/ NothingToChallenge
    \/ pc = "calibration" /\
          \E c \in Calibrations(challenger, {"confirmed", "behavioral", "gap"}, ReadBy(patch)) :
              CalibrateFirst(c)
    \/ \E p \in Diffs("repaired") : RepairApplies(p)
    \/ KeepOriginal
    \/ pc = "rechallenge" /\
          \E r \in Reviews(candidate.id) :
          \E c \in Calibrations(r, {"confirmed", "behavioral"}, "code"),
             t \in {"clean", "flagged", "critical"} : Repair(r, c, t)
    \/ pc = "fallback" /\ \E c \in Calibrations(challenger, {"behavioral", "gap"}, ReadBy(patch))
             \cup {calibration} : CalibrateLast(c)
    \/ SkipComparison
    \/ pc = "comparison" /\ \E c \in Comparisons : CompareTests(c)
    \/ Amend
    \/ NoAmendment
    \/ pc = "rerun" /\ \E c \in Comparisons : Rerun(c)
    \/ \E i \in BOOLEAN : Decide(i)
    \/ Unavailable

Spec == Init /\ [][Next]_vars

-----------------------------------------------------------------------------
(* Safety. *)

Reviewed == pc \in {"fallback", "comparison", "amendment", "rerun", "decide", "reported"} /\ patch # NoPatch

(* The check that it applies, its hygiene, the review and the calibration  *)
(* of its findings are all of this patch (or of the one that an amendment  *)
(* extended by a test), and the calibration was never shown post-patch     *)
(* evidence of another (pipeline.py:7622-7629, 7711-7737).                 *)
ReviewIsOfThePatch ==
    Reviewed =>
        /\ \A e \in {applies, hygiene, challenger} : e.of = patch.base
        /\ calibration # NoCalibration =>
               /\ calibration.of = patch.base
               /\ calibration.read \in {"code", patch.base}

(* So is the comparison of the existing tests: no test that now fails is   *)
(* behind a good status, whatever little its results show of a run, and an *)
(* amended patch was seen to break no test                                 *)
(* (existing_test_regression.py:968-1021, existing_test_amendment.py:659). *)
ComparisonStands ==
    /\ comparison.honest
    /\ Reviewed => comparison.of \in {"none", patch.id}
    /\ patch.id = "amended" => comparison.status \in GoodStatus

(* Whatever replaced the patch, what is reported about it is about it.     *)
EvidenceIsOfThePatch == ReviewIsOfThePatch /\ ComparisonStands

(* Where edits were approved, a reviewed patch changes only files that the *)
(* plan or the strategy named before it was written, through every         *)
(* regeneration, retry and repair; an amendment adds a test the patch has  *)
(* no hunks of.  The one way to another file is a section that the check   *)
(* of the stage that wrote it cannot see: for the gate, a file deleted,    *)
(* renamed or changed in mode (diff_parsing.py:65-75); for the repair, the *)
(* last alone.  Such a file stays known as unseen through every later      *)
(* stage (pipeline.py:6102-6118, 6755, 7336-7346).                         *)
FilesApproved ==
    Reviewed /\ readiness.checked =>
        (patch.files \ (IF patch.id = "amended" THEN {TestFile} ELSE {}))
            \subseteq PriorSupported \cup patch.unseen

(* No patch is written unless a person wrote the plan, or the plan in      *)
(* force is grounded and its claim not contradicted, the strategy, if      *)
(* invoked, answered, and its target is named and settled; the stages that *)
(* withhold it are several calls away from the one that writes it          *)
(* (pipeline.py:8200-8213, 8311-8400, 8753-8807).                          *)
OnlyClearedPlansPatched == patch # NoPatch => PlanCleared /\ TargetCleared

(* Code is written only from a cleared plan, and, as far as the checks see *)
(* the diff, only into the files that were approved for it.                *)
PatchWasApproved == OnlyClearedPlansPatched /\ FilesApproved

(* The one decision to deploy is earned by this very patch: it applies and *)
(* is clean, its review found it not vulnerable, no gap in the review is   *)
(* left open, and a confirmed defect was cleared by a calibration of that  *)
(* review (pipeline.py:1459-1560, 2650-2831).                              *)
DeployIsEarned ==
    decision = "Deploy After Validation" =>
        /\ applies.of = patch.base /\ applies.says = "yes"
        /\ hygiene.of = patch.base /\ hygiene.says = "clean"
        /\ challenger.of = patch.base /\ ~ challenger.vulnerable
        /\ challenger.gap => calibration.of = patch.base /\ calibration.gap = "cleared"
        /\ challenger.defect = "confirmed" =>
               calibration.of = patch.base /\ calibration.defect = "cleared"

=============================================================================
