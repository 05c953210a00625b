---------------------------- MODULE PatchPlanning ----------------------------
(***************************************************************************)
(* The auto-patcher before it writes a patch (utilities/autopatcher):      *)
(* planning with bounded evidence acquisition (S1), the verification of    *)
(* the plan's claim and its one revision, the final strategy with its one  *)
(* evidence-gap rerun (S2), and the readiness of the edits (S3).  Each     *)
(* stage may withhold the patch: it clears the evidence the next stage     *)
(* would work from, and raises a flag that generation reads much later.    *)
(*                                                                         *)
(* Abstracted: prompts, replies and evidence (what a reply decides, and    *)
(* whether there is evidence at all); symbols (a target is a file);        *)
(* budgets, as the choice of not rerunning.                                *)
(***************************************************************************)
EXTENDS Naturals, FiniteSets

CONSTANTS
    Files,       \* the repository's files a patch may name
    Targets,     \* the sets of files a plan may name
    MaxAttempts  \* MAX_PLANNING_ATTEMPTS

ASSUME PlanningAssumption == MaxAttempts \in Nat \ {0} /\ Targets \subseteq SUBSET Files

VARIABLES
    pc,         \* the stage
    attempt,    \* of planning, while it lasts
    plan,       \* the authoritative plan: who wrote it, its target files,
                \* whether it is grounded, and its claim's verification
    evidence,   \* there is planner evidence for the strategy
    strategy,   \* the final strategy
    readiness,  \* the edits found ready; checked is FALSE where there is none
    skip        \* why generation is to be skipped

planning == <<attempt, plan, evidence, strategy, readiness, skip>>

Unplanned  == [by |-> "nobody", targets |-> {}, grounded |-> FALSE, claim |-> "none"]
NoStrategy == [state |-> "none", targets |-> {}, unresolved |-> FALSE]
NotChecked == [checked |-> FALSE, files |-> {}]

PlanInit ==
    /\ pc = "planning" /\ attempt = 1 /\ plan = Unplanned /\ evidence = FALSE
    /\ strategy = NoStrategy /\ readiness = NotChecked /\ skip = {}

-----------------------------------------------------------------------------
(* S1: a reply says whether it needs more evidence, and asks for some. *)

Answers == [needs : {"yes", "no", "unsaid"}, asks : {"nothing", "validly", "invalidly"}]
Grounded(a)   == a.needs = "no" /\ a.asks = "nothing"
Actionable(a) == a.needs = "yes" /\ a.asks = "validly"

Withhold(why) == skip' = skip \cup {why} /\ evidence' = FALSE

(* A plan written by hand replaces planning; no strategy is called either. *)
HandWritten ==
    /\ pc = "planning" /\ attempt = 1
    /\ plan' = [Unplanned EXCEPT !.by = "operator"] /\ pc' = "strategy"
    /\ UNCHANGED <<attempt, evidence, strategy, readiness, skip>>

PlanGrounded(a, T) ==
    /\ pc = "planning" /\ Grounded(a)
    /\ plan' = [by |-> "planner", targets |-> T, grounded |-> TRUE, claim |-> "none"]
    /\ evidence' \in BOOLEAN /\ attempt' = 1 /\ pc' = "claim"
    /\ UNCHANGED <<strategy, readiness, skip>>

(* Something it asked for was resolved: it plans again with that. *)
PlanAgain(a) ==
    /\ pc = "planning" /\ Actionable(a) /\ attempt < MaxAttempts
    /\ attempt' = attempt + 1
    /\ UNCHANGED <<pc, plan, evidence, strategy, readiness, skip>>

(* No reply to act on, nothing resolved, the last attempt, or an exception. *)
PlanUngrounded(a, T) ==
    /\ pc = "planning" /\ ~ Grounded(a)
    /\ plan' = [Unplanned EXCEPT !.by = "planner", !.targets = T]
    /\ Withhold("planning") /\ attempt' = 1 /\ pc' = "strategy"
    /\ UNCHANGED <<strategy, readiness>>

(* _dispatch_narrower_mode, and the first verification of the claim. *)
Claim(v) ==
    /\ pc = "claim"
    /\ plan' = [plan EXCEPT !.claim = v]
    /\ pc' = IF v = "contradicted" THEN "revision" ELSE "strategy"
    /\ UNCHANGED <<attempt, evidence, strategy, readiness, skip>>

ClaimFails ==
    /\ pc = "claim" /\ Withhold("verifier") /\ pc' = "strategy"
    /\ plan' = [plan EXCEPT !.claim = "failed"]
    /\ UNCHANGED <<attempt, strategy, readiness>>

(* One revision, verified again; the revised plan meets the same gate. *)
RevisionSupported(a, T) ==
    /\ pc = "revision"
    /\ plan' = [by |-> "revision", targets |-> T,
                grounded |-> Grounded(a), claim |-> "supported"]
    /\ IF Grounded(a) THEN evidence' \in {e \in BOOLEAN : evidence => e} /\ skip' = skip
                      ELSE Withhold("planning")
    /\ pc' = "strategy"
    /\ UNCHANGED <<attempt, strategy, readiness>>

(* Unusable, no narrower claim left to verify, not supported, or failed. *)
RevisionFails ==
    /\ pc = "revision" /\ Withhold("verifier") /\ pc' = "strategy"
    /\ UNCHANGED <<attempt, plan, strategy, readiness>>

-----------------------------------------------------------------------------
(* S2: the strategy is invoked where there is evidence. *)

Invoked(T, unresolved) ==
    strategy' = [state |-> "evaluated", targets |-> T, unresolved |-> unresolved]

StrategyNotInvoked ==
    /\ pc = "strategy" /\ ~ evidence /\ pc' = "readiness" /\ UNCHANGED planning

(* gap: it says that it has insufficient evidence. *)
EvidenceGap(T, unresolved, gap) == IF T = {} THEN gap ELSE unresolved

Strategize(T, unresolved, gap) ==
    /\ pc = "strategy" /\ evidence /\ Invoked(T, unresolved)
    /\ pc' = IF EvidenceGap(T, unresolved, gap) THEN "gap" ELSE "readiness"
    /\ UNCHANGED <<attempt, plan, evidence, readiness, skip>>

(* The rerun replaces the first strategy, whatever it answers ... *)
RerunStrategy(T, unresolved) ==
    /\ pc = "gap" /\ Invoked(T, unresolved) /\ pc' = "readiness"
    /\ UNCHANGED <<attempt, plan, evidence, readiness, skip>>

(* ... and is left out where nothing new was found, or it would not fit. *)
NoRerun == pc = "gap" /\ pc' = "readiness" /\ UNCHANGED planning

StrategyFails ==
    /\ pc \in {"strategy", "gap"} /\ evidence
    /\ strategy' = [NoStrategy EXCEPT !.state = "failed"] /\ pc' = "readiness"
    /\ UNCHANGED <<attempt, plan, evidence, readiness, skip>>

-----------------------------------------------------------------------------
(* S3: generation needs ready edits where a strategy was evaluated. *)

Withheld == skip \cup (IF strategy.state = "failed" THEN {"strategy"} ELSE {})
Approved == strategy.targets # {} /\ ~ strategy.unresolved

EditsReady ==
    /\ pc = "readiness" /\ Approved
    /\ readiness' = [checked |-> TRUE, files |-> strategy.targets]
    /\ skip' = Withheld /\ pc' = "generation"
    /\ UNCHANGED <<attempt, plan, evidence, strategy>>

(* No source for an edit, after acquisition; or it does not fit a request. *)
EditsNotReady ==
    /\ pc = "readiness" /\ Approved
    /\ \E ready \in SUBSET strategy.targets :
           readiness' = [checked |-> TRUE, files |-> ready]
    /\ skip' = Withheld \cup {"readiness"} /\ pc' = "generation"
    /\ UNCHANGED <<attempt, plan, evidence, strategy>>

NoApprovedTarget ==
    /\ pc = "readiness" /\ ~ Approved
    /\ skip' = Withheld \cup
               (IF strategy.state = "evaluated" THEN {"target"} ELSE {})
    /\ pc' = "generation"
    /\ UNCHANGED <<attempt, plan, evidence, strategy, readiness>>

PlanNext ==
    \/ HandWritten
    \/ \E a \in Answers, T \in Targets : PlanGrounded(a, T) \/ PlanUngrounded(a, T)
    \/ \E a \in Answers : PlanAgain(a)
    \/ \E v \in {"unneeded", "supported", "unresolved", "contradicted"} : Claim(v)
    \/ ClaimFails
    \/ \E a \in Answers, T \in Targets : RevisionSupported(a, T)
    \/ RevisionFails
    \/ StrategyNotInvoked
    \/ \E T \in SUBSET Files, u \in BOOLEAN, g \in BOOLEAN : Strategize(T, u, g)
    \/ \E T \in SUBSET Files, u \in BOOLEAN : RerunStrategy(T, u)
    \/ NoRerun
    \/ StrategyFails
    \/ EditsReady
    \/ EditsNotReady
    \/ NoApprovedTarget

-----------------------------------------------------------------------------
(* What of it stands when a patch is written. *)

PlanCleared ==
    \/ plan.by = "operator"
    \/ plan.grounded /\ plan.claim \in {"unneeded", "supported", "unresolved"}
TargetCleared == strategy.state = "none" \/ (strategy.state = "evaluated" /\ Approved)
PriorSupported == plan.targets \cup strategy.targets

=============================================================================
