----------------------------- MODULE StageReplay -----------------------------
(***************************************************************************)
(* Stage replay of the auto-patcher.  A traced full run records one        *)
(* execution for every stage it settles; `run_stage.py` executes one stage *)
(* again, in a directory of its own whose manifest names the directory it  *)
(* started from.  What a replay reads is RESOLVED in that chain of         *)
(* directories: of every stage the execution of the closest directory that *)
(* has one, provided that what it consumed is still what the chain         *)
(* resolves.                                                               *)
(*                                                                         *)
(* A stage is named after its place in CANONICAL_STAGE_ORDER (S12 has no   *)
(* execution of its own).  A directory holds at most one execution of a    *)
(* stage, so a stage, a directory and a number name an execution; the      *)
(* stages' artifacts are reduced to the candidate patch they are about.    *)
(* Directories do not overlap.  A refused replay, and one whose stage or   *)
(* whose checks of the repository, Docker and the provider fail, write no  *)
(* manifest and are no step.                                               *)
(***************************************************************************)
EXTENDS Naturals, Sequences, FiniteSets, Functions, SequencesExt

CONSTANTS
  NoManifest,  \* what a directory without a manifest holds
  None,        \* no parent, no execution, no patch
  Replayed,    \* the stages the operator replays
  Settled,     \* after how many stages the traced run may end
  MaxDirs,     \* bound: directories
  MaxSpent     \* bound: 1 for a manifest that goes on in a new directory, else 2

VARIABLES
  manifests,   \* run_manifest.json of every directory
  written,     \* history: how often each directory's manifest was written
  last,        \* history: the directory last written
  spent        \* history: what MaxSpent bounds

lineageVars == <<manifests, written, last, spent>>

\* Directories are numbered in the order of their first manifest.
Dirs == 1 .. MaxDirs

\* A directory as a path that names it: the one the traced run wrote into its
\* records, or another (its trace/ subdirectory, a relative path).
Paths == [dir : Dirs, as : {"recorded", "otherwise"}]

-----------------------------------------------------------------------------
(* The stages.                                                             *)

Planning    == "S1"
Strategy    == "S2"
Context     == "S3"
Generation  == "S4"
Challenger  == "S5"
PatchRepair == "S6"
Review      == "S7"
Confidence  == "S8"
Impact      == "S9"
TestPlan    == "S10"
Comparison  == "S11"
Report      == "S13"

\* The order in which pipeline.run settles the stages it records.
RunOrder(compared) ==
  <<Planning, Strategy, Context, Generation, Challenger, PatchRepair>>
    \o (IF compared THEN <<TestPlan, Comparison>> ELSE <<>>)
    \o <<Review, Confidence, Impact>>

\* Every stage, after the stages it consumes.
ReadOrder == Append(RunOrder(TRUE), Report)

Stages == Range(ReadOrder)

\* REPLAY_HANDLERS: the stages a replay requires to resolve.
HandlerReads ==
  [s \in Stages |->
    CASE s \in {Planning, TestPlan} -> {}
      [] s = Strategy -> {Planning}
      [] s = Context -> {Planning, Strategy}
      [] s = Generation -> {Planning, Strategy, Context}
      [] s = Challenger -> {Generation}
      [] s = PatchRepair -> {Generation, Challenger}
      [] s \in {Review, Impact} -> {PatchRepair}
      [] s = Confidence -> {PatchRepair, Review}
      [] s = Comparison -> {PatchRepair, TestPlan, Strategy}
      [] s = Report -> {Planning, Strategy, Generation, PatchRepair, Review,
                        Confidence, Impact}]

\* The stages that are about the candidate patch: S11's when it amended S6's.
AboutPatch == {Review, Confidence, Impact, Report}

-----------------------------------------------------------------------------
(* What the manifests say.                                                 *)

\* An execution, by the directory it is read from and its number in there.
Identities == [run : Paths, seq : Nat]

\* A candidate patch: the stage and the writing of a directory that made it.
Patches == [by : Stages, dir : Dirs, nr : Nat]

Records == [seq : Nat, consumed : UNION {[D -> Identities] : D \in SUBSET Stages},
            patch : Patches \union {None}, base : Patches \union {None},
            planned : BOOLEAN]

Manifests == [parent : Paths \union {None},
              executions : UNION {[S -> Records] : S \in SUBSET Stages}]

ASSUME ReplayAssumption ==
  /\ MaxDirs \in Nat /\ MaxSpent \in Nat
  /\ Replayed \subseteq Stages /\ Settled \subseteq Nat
  /\ None \notin Dirs \union Paths \union Identities \union Patches
  /\ NoManifest \notin Manifests

-----------------------------------------------------------------------------
(* A lineage.                                                              *)

HasManifest(d) == manifests[d] # NoManifest

Executions(d) == manifests[d].executions

\* The path and the parents from there on, until a root or MaxDirs of them.
Walk(path) ==
  LET up[n \in 0 .. MaxDirs] ==
        IF n = 0 THEN <<path>>
        ELSE LET below == up[n - 1]
                 parent == manifests[Last(below).dir].parent
             IN  IF parent = None THEN below ELSE Append(below, parent)
  IN  up[MaxDirs]

\* build_chain raises on a cycle.
BuildsChain(path) == manifests[Last(Walk(path)).dir].parent = None

\* The closest directory of the chain with an execution of stage s.
Candidate(chain, s) ==
  LET has == {i \in DOMAIN chain : s \in DOMAIN Executions(chain[i].dir)}
  IN  IF has = {} THEN None
      ELSE chain[CHOOSE i \in has : \A j \in has : i <= j]

Identity(path, s) == [run |-> path, seq |-> Executions(path.dir)[s].seq]

\* Mutant: a dependency has to resolve; which of its executions was read is not asked.
ResolutionByPresence(chain) ==
  LET upTo[n \in 0 .. Len(ReadOrder)] ==
        IF n = 0 THEN [s \in Stages |-> None]
        ELSE LET before == upTo[n - 1]
                 s == ReadOrder[n]
                 path == Candidate(chain, s)
             IN  IF path # None /\ \A dep \in DOMAIN Executions(path.dir)[s].consumed : before[dep] # None
                 THEN [before EXCEPT ![s] = Identity(path, s)]
                 ELSE before
  IN  upTo[Len(ReadOrder)]

\* resolve_effective, for every stage: what resolves, or None where there is
\* no execution or the closest is stale.
Resolution(chain) ==
  LET upTo[n \in 0 .. Len(ReadOrder)] ==
        IF n = 0 THEN [s \in Stages |-> None]
        ELSE LET before == upTo[n - 1]
                 s == ReadOrder[n]
                 path == Candidate(chain, s)
                 consumed == Executions(path.dir)[s].consumed
             IN  IF path # None /\ \A dep \in DOMAIN consumed : consumed[dep] = before[dep]
                 THEN [before EXCEPT ![s] = Identity(path, s)]
                 ELSE before
  IN  upTo[Len(ReadOrder)]

\* The execution of stage s that an identity names.
At(id, s) == Executions(id.run.dir)[s]

-----------------------------------------------------------------------------
(* The operations.                                                         *)

Write(d, parent, executions) ==
  /\ \A earlier \in Dirs : earlier < d => HasManifest(earlier)
  /\ manifests' = [manifests EXCEPT ![d] = [parent |-> parent, executions |-> executions]]
  /\ written' = [written EXCEPT ![d] = @ + 1]
  /\ last' = d
  /\ spent' = spent + (IF HasManifest(d) \/ (parent # None /\ parent.dir # last) THEN 2 ELSE 1)
  /\ spent' <= MaxSpent

\* The candidate patch that stage s makes in directory d.
Made(d, s) == [by |-> s, dir |-> d, nr |-> written[d] + 1]

\* run_traced.py: the first stages of the order, up to where the run ended or
\* failed.  S10 is about S6's patch there, S7, S8 and S9 about the amended one.
FullRun(d, compared, planned, amended, settled) ==
  LET order == SubSeq(RunOrder(compared), 1, settled)
      seqOf(s) == CHOOSE i \in DOMAIN order : order[i] = s
      reads(s) == CASE s = TestPlan -> {PatchRepair}
                    [] s \in AboutPatch /\ amended -> HandlerReads[s] \union {Comparison}
                    [] OTHER -> HandlerReads[s]
      patch(s) == CASE s = PatchRepair -> Made(d, PatchRepair)
                    [] s = Comparison /\ amended -> Made(d, Comparison)
                    [] s \in AboutPatch -> Made(d, IF amended THEN Comparison ELSE PatchRepair)
                    [] OTHER -> None
  IN  /\ \A x \in Dirs : ~HasManifest(x)
      /\ settled <= Len(RunOrder(compared))
      /\ planned => compared
      /\ amended => planned
      /\ Write(d, None,
           [s \in Range(order) |->
              [seq |-> seqOf(s),
               consumed |-> [dep \in reads(s) |->
                               [run |-> [dir |-> d, as |-> "recorded"], seq |-> seqOf(dep)]],
               patch |-> patch(s),
               base |-> IF s = Comparison /\ amended THEN Made(d, PatchRepair) ELSE None,
               planned |-> s = TestPlan /\ planned]])

\* _validate_output_dir_is_safe: the output is not the source.  Nothing asks
\* whether it holds a manifest.
OutputIsSafe(source, out) == out # source.dir

\* Every stage the handler reads resolves; S1 takes the text of its own last.
ReadyToReplay(resolved, s) ==
  /\ \A dep \in HandlerReads[s] : resolved[dep] # None
  /\ s = Planning => resolved[Planning] # None

\* _resolve_authoritative_candidate: S11's patch if S11 resolves and amended.
Amends(resolved) ==
  /\ resolved[Comparison] # None
  /\ At(resolved[Comparison], Comparison).patch # None

Authoritative(resolved) ==
  IF Amends(resolved) THEN At(resolved[Comparison], Comparison).patch
                      ELSE At(resolved[PatchRepair], PatchRepair).patch

\* Mutant: the amendment a stage read is not recorded.
ConsumedAsDeclared(resolved, s) == [dep \in HandlerReads[s] |-> resolved[dep]]

\* What the manifest records that the replay consumed.
Consumed(resolved, s) ==
  [dep \in HandlerReads[s] \union
             (IF s \in AboutPatch /\ Amends(resolved) THEN {Comparison} ELSE {})
     |-> resolved[dep]]

\* What the handlers leave about the candidate patch in their artifacts.
NoArtifact == [patch |-> None, base |-> None, planned |-> FALSE]

Repaired(out) == [NoArtifact EXCEPT !.patch = Made(out, PatchRepair)]

TestsPlanned(planned) == [NoArtifact EXCEPT !.planned = planned]

\* The amendment is of S6's patch, whatever an earlier comparison amended.
Amendment(resolved, out, amended) ==
  IF amended THEN [NoArtifact EXCEPT !.patch = Made(out, Comparison),
                                     !.base = At(resolved[PatchRepair], PatchRepair).patch]
             ELSE NoArtifact

Judged(resolved) == [NoArtifact EXCEPT !.patch = Authoritative(resolved)]

Artifact(resolved, s, out, planned, amended) ==
  CASE s = PatchRepair -> Repaired(out)
    [] s = TestPlan -> TestsPlanned(planned)
    [] s = Comparison -> Amendment(resolved, out, amended)
    [] s \in AboutPatch -> Judged(resolved)
    [] OTHER -> NoArtifact

\* replay_stage, once the lineage of the source is resolved.
Replay(source, resolved, s, out, planned, amended) ==
  /\ OutputIsSafe(source, out)
  /\ ReadyToReplay(resolved, s)
  /\ planned => s = TestPlan
  /\ amended => s = Comparison /\ At(resolved[TestPlan], TestPlan).planned
  /\ LET artifact == Artifact(resolved, s, out, planned, amended)
     IN  Write(out, source,
           [x \in {s} |-> [seq |-> 1, consumed |-> Consumed(resolved, s),
                           patch |-> artifact.patch, base |-> artifact.base,
                           planned |-> artifact.planned]])

\* Where a replay may start.  Only a full run records its own path, so only
\* its path is worth varying.
Sources ==
  {path \in Paths :
     /\ spent < MaxSpent
     /\ HasManifest(path.dir)
     /\ path.as = "otherwise" => manifests[path.dir].parent = None
     /\ BuildsChain(path)}

LineageInit ==
  /\ manifests = [d \in Dirs |-> NoManifest]
  /\ written = [d \in Dirs |-> 0]
  /\ last = None
  /\ spent = 0

LineageNext ==
  \/ \E d \in Dirs, compared, planned, amended \in BOOLEAN, settled \in Settled :
       FullRun(d, compared, planned, amended, settled)
  \/ \E source \in Sources : \E resolved \in {Resolution(Walk(source))} :
       \E s \in Replayed, out \in Dirs, planned, amended \in BOOLEAN :
         Replay(source, resolved, s, out, planned, amended)

LineageSpec == LineageInit /\ [][LineageNext]_lineageVars

-----------------------------------------------------------------------------
(* What a lineage promises.  All of it is about directories that are        *)
(* written once, which the operator has to see to.                          *)

\* The path of the manifest last written, and whether its lineage is as it
\* was when each manifest in it was written.
Newest == [dir |-> last, as |-> "recorded"]

Untouched ==
  /\ last # None
  /\ BuildsChain(Newest)
  /\ \A path \in Range(Walk(Newest)) : written[path.dir] = 1

\* An execution, what it consumed, and so on.
ReadBehind(id, stage) ==
  LET upTo[n \in 0 .. Len(ReadOrder)] ==
        IF n = 0 THEN {<<id, stage>>}
        ELSE LET found == upTo[n - 1]
             IN  found \union
                   UNION {LET consumed == At(x[1], x[2]).consumed
                          IN  {<<consumed[dep], dep>> : dep \in DOMAIN consumed} :
                            x \in {y \in found : y[2] = ReadOrder[Len(ReadOrder) + 1 - n]}}
  IN  upTo[Len(ReadOrder)]

\* Whatever was replayed, from wherever and in whatever order, nothing an
\* execution rests on, directly or through others, mixes two executions of
\* one stage: never a review of one patch and a score that rests on another.
OneLineage ==
  Untouched =>
    \A s \in DOMAIN Executions(last) :
      LET behind == ReadBehind(Identity(Newest, s), s)
      IN  Cardinality(behind) = Cardinality({x[2] : x \in behind})

\* A replayed report is of the candidate patch of the S6 it read or of S11's
\* amendment of that very candidate, and the review, the score and the impact
\* it shows were made of one of these two: of the reported patch itself
\* unless an amendment is reported.
ReportJudgesItsPatch ==
  Untouched /\ Report \in DOMAIN Executions(last) =>
    LET report == Executions(last)[Report]
        read(s) == At(report.consumed[s], s)
        candidate == read(PatchRepair).patch
        judged == {read(s).patch : s \in {Review, Confidence, Impact}}
    IN  IF Comparison \in DOMAIN report.consumed
        THEN /\ report.patch = read(Comparison).patch
             /\ read(Comparison).base = candidate
             /\ judged \subseteq {candidate, report.patch}
        ELSE judged \union {report.patch} = {candidate}

\* A replay is what its own directory resolves for its stage, so the advice
\* "replay it first" works; and it makes stale no execution but those that
\* rest on an execution of that stage.
ReplayAdvances ==
  Untouched /\ manifests[last].parent # None =>
    LET before == Resolution(Walk(manifests[last].parent))
        after == Resolution(Walk(Newest))
    IN  \A s \in Stages :
          IF s \in DOMAIN Executions(last)
          THEN after[s] = Identity(Newest, s)
          ELSE \/ after[s] = before[s]
               \/ /\ before[s] # None /\ after[s] = None
                  /\ \E x \in ReadBehind(before[s], s) : x[2] \in DOMAIN Executions(last)

\* The check that a replay makes of its lineage is neither too weak, so that it
\* would mix executions, nor too strict, so that it would refuse for ever what
\* replaying one stage should make usable again.
LineageSound == OneLineage /\ ReplayAdvances

=============================================================================
