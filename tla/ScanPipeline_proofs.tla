------------------------- MODULE ScanPipeline_proofs -------------------------
(***************************************************************************)
(* What a scan keeps of its verdicts, for any units, patterns, answers,    *)
(* requests and number of scans, wherever it fails or is killed.           *)
(*                                                                         *)
(* Three facts carry it.  An answer of Stage 2, as it is saved, keeps the  *)
(* finding it is about, raises it or is finished.  What verify works on is *)
(* the admitted units, each with Stage 1's row or such an answer.  And     *)
(* after verify each row is Stage 1's, or an answer that the consistency   *)
(* pass has left or has rewritten as it may.                               *)
(***************************************************************************)
EXTENDS ScanPipeline, FiniteSetTheorems, TLAPS

Places == {"idle", "parse", "app-context", "llm-reachability", "enhance", "analyze", "gate",
           "verify", "build", "dynamic-test", "report"}

Stage1Findings == Verdicts \cup {"error"}
Stage1Rows == {Stage1Row(f, c) : f \in Stage1Findings, c \in BOOLEAN}

OriginOf(f) == IF f \in {"inconclusive", "safe"} THEN f ELSE "none"

\* An answer as it is saved: only a finished one takes a finding away.
Answer(r) ==
    /\ r \in Row /\ r.stage # "stage1" /\ ~r.rewritten
    /\ r.stage \in {"agreed", "error"} => r.finding = r.about
    /\ r.stage = "incomplete" /\ r.about \in Positive => r.finding \in Positive
    /\ r.finding # "error"

\* What verify works on: Stage 1's row p, escalated, or an answer.
Worked(r, p) ==
    /\ r \in Row /\ ~r.rewritten /\ r.origin = OriginOf(p.finding)
    /\ r.stage = "stage1" => r.finding = p.finding
    /\ r.stage # "stage1" => Answer(r)

\* An answer, or what the consistency pass may make of it.
Judged(r, p) ==
    /\ r \in Row /\ r.stage # "stage1" /\ r.origin = OriginOf(p.finding)
    /\ r.rewritten \/ Answer(r)
    /\ r.rewritten => /\ r.origin = "none" /\ r.finding \in Verdicts
                      /\ Incomplete(r) \/ r.path = "reached" => r.finding \in Positive

Admitted == {u \in DOMAIN published : IsCandidate(published[u])}

\* The rows have gone through verify.
Verified ==
    /\ \A u \in Admitted : Judged(rows[u], published[u])
    /\ \A u \in DOMAIN published \ Admitted : rows[u] = published[u]

\* The results have been read for the report.
Settled == pc \in {"build", "dynamic-test", "report"} \/ (pc = "idle" /\ ended = "done")

StoredTypes ==
    /\ asked \in [Units -> Stage1Rows \cup {NoRow}]
    /\ DOMAIN answered = Units /\ \A u \in Units : answered[u] # NoRow => Answer(answered[u])
    /\ DOMAIN published \subseteq Units
    /\ \A u \in DOMAIN published : published[u] \in Stage1Rows
    /\ dataset \subseteq Units
    /\ pc \in Places

Progress ==
    /\ pc \in {"parse", "app-context", "llm-reachability", "enhance"} => rows = NoRows
    /\ pc = "analyze" => /\ DOMAIN rows \subseteq dataset
                         /\ \A u \in DOMAIN rows : rows[u] \in Stage1Rows
    /\ pc \in {"gate", "verify"} => rows = published
    /\ pc = "verify" => /\ DOMAIN work = Admitted
                        /\ \A u \in Admitted : Worked(work[u], published[u])
    /\ Settled => DOMAIN rows = DOMAIN published /\ (rows = published \/ Verified)

FlowInv == StoredTypes /\ Progress

-----------------------------------------------------------------------------
(* Rows.                                                                   *)

LEMMA Stage1Typed ==
    ASSUME NEW f \in Stage1Findings, NEW c \in BOOLEAN
    PROVE  Stage1Row(f, c) \in Stage1Rows /\ Stage1Row(f, c) # NoRow
  <1>1. Stage1Row(f, c) \in Row
    BY DEF Stage1Row, Row, Stage1Findings, Findings, Stages, Paths
  <1> QED BY <1>1, ScanAssumption DEF Stage1Rows

LEMMA Stage1Fields ==
    ASSUME NEW r \in Stage1Rows
    PROVE  /\ r \in Row /\ r # NoRow /\ r.stage = "stage1" /\ ~r.rewritten /\ r.origin = "none"
           /\ r.finding \in Stage1Findings /\ r.claim \in BOOLEAN /\ r.about = r.finding
           /\ r.path = "none"
  <1>1. PICK f \in Stage1Findings, c \in BOOLEAN : r = Stage1Row(f, c) BY DEF Stage1Rows
  <1>2. r \in Row
    BY <1>1 DEF Stage1Row, Row, Stage1Findings, Findings, Stages, Paths
  <1> QED BY <1>1, <1>2, ScanAssumption DEF Stage1Row

LEMMA MoreSeverePositive ==
    ASSUME NEW a \in Positive, NEW b \in Findings
    PROVE  MoreSevere(a, b) \in Positive
  <1>1. Severity[a] >= 4 /\ Severity[a] \in Nat
    BY DEF Severity, Positive, Findings, Verdicts
  <1>2. Severity[b] \in Nat /\ (b \notin Positive => Severity[b] < 4)
    BY DEF Severity, Positive, Findings, Verdicts
  <1>3. CASE b \in Positive BY <1>3 DEF MoreSevere
  <1>4. CASE b \notin Positive
    <2>1. Severity[a] >= Severity[b] BY <1>1, <1>2, <1>4
    <2> QED BY <2>1 DEF MoreSevere
  <1> QED BY <1>3, <1>4

\* A worked row that is answered.
LEMMA AnsweredIs ==
    ASSUME NEW p \in Stage1Rows, NEW r, Worked(r, p), r.stage = "stage1",
           p.finding # "error", NEW a \in Stage2Answers
    PROVE  /\ Answer(Answered(r, a)) /\ Worked(Answered(r, a), p)
           /\ Answered(r, a).stage # "stage1"
  <1>0. /\ r \in Row /\ ~r.rewritten /\ r.origin = OriginOf(p.finding)
        /\ r.finding = p.finding /\ r.finding \in Findings /\ r.finding # "error"
        /\ a \in Answers
    BY ScanAssumption DEF Worked, Row
  <1>1. CASE a.asserts = "raise"
    <2>1. Answered(r, a) = [r EXCEPT !.stage = "error", !.about = r.finding]
      BY <1>1 DEF Answered
    <2> QED BY <1>0, <2>1 DEF Answer, Worked, Row, Stages
  <1>2. CASE a.asserts # "raise"
    <2> DEFINE unfinished == a.asserts = "nothing" \/ (a.asserts = "agree" /\ a.says # r.finding)
               f == IF unfinished THEN MoreSevere(r.finding, a.says) ELSE a.says
               s == IF unfinished THEN "incomplete"
                    ELSE IF a.asserts = "agree" THEN "agreed" ELSE "disagreed"
    <2>1. Answered(r, a) = [r EXCEPT !.about = r.finding, !.path = a.path, !.finding = f,
                                     !.stage = s]
      BY <1>2 DEF Answered
    <2>2. a.says \in Findings /\ a.says # "error" /\ a.path \in Paths
      BY <1>0 DEF Answers
    <2>3. f \in Findings /\ f # "error" BY <1>0, <2>2 DEF MoreSevere
    <2>4. s = "incomplete" /\ r.finding \in Positive => f \in Positive
      BY <2>2, MoreSeverePositive
    <2>5. s = "agreed" => f = r.finding OBVIOUS
    <2>6. s \in Stages \ {"stage1", "error"} BY DEF Stages
    <2> HIDE DEF f, s
    <2>7. /\ Answered(r, a) \in Row /\ Answered(r, a).stage = s /\ Answered(r, a).finding = f
          /\ Answered(r, a).about = r.finding /\ ~Answered(r, a).rewritten
          /\ Answered(r, a).origin = r.origin
      BY <1>0, <2>1, <2>2, <2>3, <2>6 DEF Row, Stages
    <2>8. Answer(Answered(r, a)) BY <2>3, <2>4, <2>5, <2>6, <2>7 DEF Answer
    <2> QED BY <1>0, <2>6, <2>7, <2>8 DEF Worked
  <1> QED BY <1>1, <1>2

LEMMA EscalatedIs ==
    ASSUME NEW p \in Stage1Rows
    PROVE  /\ Worked(Escalated(p), p) /\ Escalated(p).stage = "stage1"
           /\ \A c : Answer(c) => /\ Worked(Restored(Escalated(p), c), p)
                                  /\ Restored(Escalated(p), c).stage = c.stage
  <1>1. /\ p \in Row /\ p.stage = "stage1" /\ ~p.rewritten /\ p.origin = "none"
    BY Stage1Fields
  <1>2. /\ Escalated(p) \in Row /\ Escalated(p).stage = "stage1" /\ ~Escalated(p).rewritten
        /\ Escalated(p).finding = p.finding /\ Escalated(p).origin = OriginOf(p.finding)
    BY <1>1 DEF Escalated, OriginOf, Row
  <1>3. ASSUME NEW c, Answer(c)
        PROVE  /\ Worked(Restored(Escalated(p), c), p)
               /\ Restored(Escalated(p), c).stage = c.stage
    <2> DEFINE r == Restored(Escalated(p), c)
    <2>1. c \in Row BY <1>3 DEF Answer
    <2>2. /\ r \in Row /\ r.finding = c.finding /\ r.stage = c.stage /\ r.about = c.about
          /\ r.origin = OriginOf(p.finding) /\ ~r.rewritten
      BY <1>2, <2>1 DEF Restored, Row
    <2> HIDE DEF r
    <2>3. Answer(r) BY <1>3, <2>2 DEF Answer
    <2> QED BY <1>3, <2>2, <2>3 DEF Worked, Answer, r
  <1> QED BY <1>2, <1>3 DEF Worked

LEMMA RewrittenIs ==
    ASSUME NEW p, NEW r, Worked(r, p), r.stage # "stage1", NEW f
    PROVE  Judged(r, p) /\ Judged(Rewritten(r, f), p)
  <1>1. r \in Row /\ ~r.rewritten /\ r.origin = OriginOf(p.finding) /\ Answer(r)
    BY DEF Worked
  <1>2. Judged(r, p) BY <1>1 DEF Judged
  <1>3. CASE MayRewrite(r, f) /\ f # r.finding
    <2> DEFINE n == [r EXCEPT !.finding = f, !.rewritten = TRUE]
    <2>1. f \in Verdicts /\ r.origin = "none" BY <1>3 DEF MayRewrite
    <2>2. /\ n \in Row /\ n.finding = f /\ n.rewritten /\ n.stage = r.stage
          /\ n.origin = r.origin /\ n.path = r.path
      BY <1>1, <2>1 DEF Row, Findings
    <2>3. Incomplete(r) \/ r.path = "reached" => f \in Positive
      BY <1>3 DEF MayRewrite, DisclosureDropped, Verdicts, Positive
    <2>4. Rewritten(r, f) = n BY <1>3 DEF Rewritten
    <2> HIDE DEF n
    <2> QED BY <1>1, <1>2, <2>1, <2>2, <2>3, <2>4 DEF Judged, Incomplete
  <1>4. CASE ~(MayRewrite(r, f) /\ f # r.finding)
    BY <1>2, <1>4 DEF Rewritten
  <1> QED BY <1>2, <1>3, <1>4

-----------------------------------------------------------------------------
(* The rows of a scan.                                                     *)

LEMMA FlowInit == Init => FlowInv
  BY DEF Init, FlowInv, StoredTypes, Progress, NoRows, Settled, Places

\* A process that ends before its results are settled, or starts.
LEMMA FlowForgets ==
    ASSUME FlowInv, Forget, UNCHANGED disk,
           pc' = "parse" \/ (pc' = "idle" /\ ended' # "done")
    PROVE  FlowInv'
  BY DEF FlowInv, StoredTypes, Progress, Forget, disk, Settled, Places, NoRows

LEMMA AnalyzeFlow ==
    ASSUME FlowInv, NEW u \in Units, Analyze(u)
    PROVE  FlowInv'
  <1>0. /\ pc = "analyze" /\ pc' = pc /\ u \in dataset \ DOMAIN rows
        /\ UNCHANGED <<answered, published, dataset, work>>
    BY DEF Analyze
  <1>1. /\ DOMAIN rows \subseteq dataset /\ \A v \in DOMAIN rows : rows[v] \in Stage1Rows
    BY <1>0 DEF FlowInv, Progress
  <1>2. \E row \in Stage1Rows : /\ rows' = Merged([v \in {u} |-> row], rows)
                                /\ asked' \in [Units -> Stage1Rows \cup {NoRow}]
    <2>1. CASE Checkpointed(u)
      <3>1. asked[u] \in Stage1Rows BY <2>1 DEF Checkpointed, FlowInv, StoredTypes
      <3>2. rows' = Merged([v \in {u} |-> asked[v]], rows) /\ UNCHANGED asked
        BY <2>1 DEF Analyze
      <3>3. [v \in {u} |-> asked[v]] = [v \in {u} |-> asked[u]] OBVIOUS
      <3> QED BY <3>1, <3>2, <3>3 DEF FlowInv, StoredTypes
    <2>2. CASE ~Checkpointed(u)
      <3>1. PICK reply \in Stage1Replies :
                LET row == Stage1Row(reply.finding, reply.claim)
                IN  /\ rows' = Merged([v \in {u} |-> row], rows)
                    /\ asked' = [asked EXCEPT ![u] = row]
        BY <2>2 DEF Analyze
      <3>2. reply.finding \in Stage1Findings /\ reply.claim \in BOOLEAN
        BY ScanAssumption DEF Stage1Findings
      <3>3. Stage1Row(reply.finding, reply.claim) \in Stage1Rows BY <3>2, Stage1Typed
      <3> QED BY <3>1, <3>3 DEF FlowInv, StoredTypes
    <2> QED BY <2>1, <2>2
  <1>3. PICK row \in Stage1Rows : /\ rows' = Merged([v \in {u} |-> row], rows)
                                  /\ asked' \in [Units -> Stage1Rows \cup {NoRow}]
    BY <1>2
  <1>4. /\ DOMAIN rows' = {u} \cup DOMAIN rows /\ rows'[u] = row
        /\ \A v \in DOMAIN rows \ {u} : rows'[v] = rows[v]
    BY <1>3 DEF Merged
  <1>5. DOMAIN rows' \subseteq dataset' /\ \A v \in DOMAIN rows' : rows'[v] \in Stage1Rows
    BY <1>0, <1>1, <1>4
  <1> QED BY <1>0, <1>3, <1>5 DEF FlowInv, StoredTypes, Progress, Settled

LEMMA CorrectionsTyped ==
    ASSUME \A u \in DOMAIN rows : rows[u] \in Stage1Rows, NEW new \in Corrections
    PROVE  DOMAIN new = DOMAIN rows /\ \A u \in DOMAIN rows : new[u] \in Stage1Rows
  <1>1. CASE new = rows BY <1>1
  <1>2. CASE new # rows
    <2>1. PICK fix \in [DOMAIN rows -> Proposals] :
              new = [u \in DOMAIN rows |->
                       IF u \in Group /\ fix[u] # Keep
                       THEN Stage1Row(Stage1Corrected(rows[u].finding, fix[u]), rows[u].claim)
                       ELSE rows[u]]
      BY <1>2 DEF Corrections
    <2>2. ASSUME NEW u \in DOMAIN rows PROVE new[u] \in Stage1Rows
      <3>1. rows[u].finding \in Stage1Findings /\ rows[u].claim \in BOOLEAN BY Stage1Fields
      <3>2. Stage1Corrected(rows[u].finding, fix[u]) \in Stage1Findings
        BY <3>1 DEF Stage1Corrected, Positive, Stage1Findings, Verdicts
      <3>3. Stage1Row(Stage1Corrected(rows[u].finding, fix[u]), rows[u].claim) \in Stage1Rows
        BY <3>1, <3>2, Stage1Typed
      <3> QED BY <2>1, <3>3
    <2> QED BY <2>1, <2>2
  <1> QED BY <1>1, <1>2

LEMMA PublishFlow == ASSUME FlowInv, Publish PROVE FlowInv'
  <1>1. PICK new \in Corrections : published' = new /\ rows' = new BY DEF Publish
  <1>2. /\ pc = "analyze" /\ pc' = "gate" /\ DOMAIN rows = dataset
        /\ UNCHANGED <<asked, answered, dataset>>
    BY DEF Publish, Goto
  <1>3. DOMAIN new = DOMAIN rows /\ \A u \in DOMAIN rows : new[u] \in Stage1Rows
    BY <1>2, CorrectionsTyped DEF FlowInv, Progress
  <1> QED BY <1>1, <1>2, <1>3 DEF FlowInv, StoredTypes, Progress, Settled, Places

LEMMA BeginFlow == ASSUME FlowInv, BeginVerify PROVE FlowInv'
  <1>1. /\ pc = "gate" /\ pc' = "verify"
        /\ UNCHANGED <<asked, answered, published, dataset, rows>>
        /\ work' = [u \in Candidates |-> IF Usable(u) THEN Restored(Escalated(rows[u]), answered[u])
                                         ELSE Escalated(rows[u])]
    BY DEF BeginVerify, Goto, Downstream
  <1>2. rows = published BY <1>1 DEF FlowInv, Progress
  <1>3. Candidates = Admitted BY <1>2 DEF Candidates, Admitted
  <1>4. ASSUME NEW u \in Admitted PROVE Worked(work'[u], published[u])
    <2>1. published[u] \in Stage1Rows /\ u \in Units BY DEF Admitted, FlowInv, StoredTypes
    <2>2. CASE Usable(u)
      <3>1. Answer(answered[u]) BY <2>1, <2>2 DEF Usable, FlowInv, StoredTypes
      <3> QED BY <1>1, <1>2, <1>3, <2>1, <2>2, <3>1, EscalatedIs
    <2>3. CASE ~Usable(u) BY <1>1, <1>2, <1>3, <2>1, <2>3, EscalatedIs
    <2> QED BY <2>2, <2>3
  <1>5. DOMAIN work' = Admitted' /\ Admitted' = Admitted BY <1>1, <1>3 DEF Admitted
  <1>6. \A u \in Admitted' : Worked(work'[u], published'[u]) BY <1>1, <1>4, <1>5
  <1> QED BY <1>1, <1>2, <1>5, <1>6 DEF FlowInv, StoredTypes, Progress, Settled, Places

LEMMA CandidateIsNoError ==
    ASSUME NEW p, IsCandidate(p) PROVE p.finding # "error"
  BY DEF IsCandidate, Positive

LEMMA VerifyFlow == ASSUME FlowInv, NEW u \in Units, VerifyUnit(u) PROVE FlowInv'
  <1>1. PICK a \in Stage2Answers : /\ work' = [work EXCEPT ![u] = Answered(work[u], a)]
                                   /\ answered' = [answered EXCEPT ![u] = Answered(work[u], a)]
    BY DEF VerifyUnit
  <1>2. /\ pc = "verify" /\ pc' = pc /\ u \in DOMAIN work /\ work[u].stage = "stage1"
        /\ UNCHANGED <<asked, published, dataset, rows>>
    BY DEF VerifyUnit, Unverified, Downstream
  <1>3. /\ DOMAIN work = Admitted /\ \A v \in Admitted : Worked(work[v], published[v])
        /\ rows = published
    BY <1>2 DEF FlowInv, Progress
  <1>4. published[u] \in Stage1Rows /\ published[u].finding # "error"
    BY <1>2, <1>3, CandidateIsNoError DEF Admitted, FlowInv, StoredTypes
  <1>5. Answer(Answered(work[u], a)) /\ Worked(Answered(work[u], a), published[u])
    BY <1>2, <1>3, <1>4, AnsweredIs
  <1>6. /\ DOMAIN work' = Admitted /\ \A v \in Admitted : Worked(work'[v], published[v])
        /\ DOMAIN answered' = Units /\ \A v \in Units : answered'[v] # NoRow => Answer(answered'[v])
    BY <1>1, <1>2, <1>3, <1>5 DEF FlowInv, StoredTypes
  <1>7. Admitted' = Admitted BY <1>2 DEF Admitted
  <1> QED BY <1>2, <1>3, <1>6, <1>7 DEF FlowInv, StoredTypes, Progress, Settled, Places

\* What verify leaves.
LEMMA RewritesAre ==
    ASSUME FlowInv, pc = "verify", Unverified = {}, NEW new \in Rewrites
    PROVE  DOMAIN new = Admitted /\ \A u \in Admitted : Judged(new[u], published[u])
  <1>1. /\ DOMAIN work = Admitted /\ \A v \in Admitted : Worked(work[v], published[v])
        /\ \A v \in Admitted : work[v].stage # "stage1"
    BY DEF FlowInv, Progress, Unverified
  <1>2. CASE new = work BY <1>1, <1>2, RewrittenIs
  <1>3. CASE new # work
    <2>1. PICK fix \in [DOMAIN work -> Proposals] :
              new = [u \in DOMAIN work |-> IF u \in Group /\ fix[u] # Keep
                                           THEN Rewritten(work[u], fix[u]) ELSE work[u]]
      BY <1>3 DEF Rewrites
    <2> QED BY <1>1, <2>1, RewrittenIs
  <1> QED BY <1>2, <1>3

LEMMA EndFlow ==
    ASSUME FlowInv, EndVerify
    PROVE  /\ FlowInv' /\ Verified' /\ UNCHANGED <<published, Admitted>>
           /\ \E new \in Rewrites : /\ metrics' = Envelope(metrics, new)
                                    /\ DOMAIN new = Admitted
                                    /\ \A u \in Admitted : rows'[u] = new[u]
  <1>1. PICK new \in Rewrites : rows' = Merged(new, rows) /\ metrics' = Envelope(metrics, new)
    BY DEF EndVerify
  <1>2. /\ pc = "verify" /\ pc' = "build" /\ Unverified = {}
        /\ UNCHANGED <<asked, answered, published, dataset>>
    BY DEF EndVerify, Goto, Downstream
  <1>3. DOMAIN new = Admitted /\ \A u \in Admitted : Judged(new[u], published[u])
    BY <1>2, RewritesAre
  <1>4. rows = published BY <1>2 DEF FlowInv, Progress
  <1>5. Admitted \subseteq DOMAIN published /\ Admitted' = Admitted BY <1>2 DEF Admitted
  <1>6. /\ DOMAIN rows' = DOMAIN published /\ \A u \in Admitted : rows'[u] = new[u]
        /\ \A u \in DOMAIN published \ Admitted : rows'[u] = published[u]
    BY <1>1, <1>3, <1>4, <1>5 DEF Merged
  <1>7. Verified' BY <1>2, <1>3, <1>5, <1>6 DEF Verified
  <1>8. FlowInv' BY <1>2, <1>6, <1>7 DEF FlowInv, StoredTypes, Progress, Settled, Places
  <1> QED BY <1>1, <1>2, <1>3, <1>5, <1>6, <1>7, <1>8

LEMMA UnverifiedFlow ==
    ASSUME FlowInv, SkipVerify \/ VerifyFails
    PROVE  FlowInv' /\ rows' = published' /\ UNCHANGED <<published, rows, metrics, hasFindings>>
  <1>1. /\ pc \in {"gate", "verify"} /\ pc' = "build"
        /\ UNCHANGED <<asked, answered, published, dataset, rows, metrics, hasFindings>>
    BY DEF SkipVerify, VerifyFails, Goto, Downstream
  <1>2. rows = published BY <1>1 DEF FlowInv, Progress
  <1> QED BY <1>1, <1>2 DEF FlowInv, StoredTypes, Progress, Settled, Places

\* The steps before analyze.
LEMMA EarlyFlow ==
    ASSUME FlowInv, Parse \/ AppContext \/ Reachability \/ Enhance
    PROVE  FlowInv'
  <1>1. /\ pc \in {"parse", "app-context", "llm-reachability", "enhance"}
        /\ pc' \in {"app-context", "llm-reachability", "enhance", "analyze"}
        /\ UNCHANGED <<asked, answered, published, rows>>
    BY DEF Parse, AppContext, Reachability, Enhance, Goto, Upstream
  <1>2. dataset' \subseteq Units
    BY DEF Parse, AppContext, Reachability, Enhance, FlowInv, StoredTypes
  <1>3. rows = NoRows BY <1>1 DEF FlowInv, Progress
  <1> QED BY <1>1, <1>2, <1>3 DEF FlowInv, StoredTypes, Progress, Settled, Places, NoRows

\* The steps after verify.
LEMMA LateFlow ==
    ASSUME FlowInv, BuildOutput \/ DynamicTest \/ Report
    PROVE  FlowInv' /\ Settled /\ Settled' /\ UNCHANGED <<disk, rows, metrics, hasFindings>>
  <1>1. /\ pc \in {"build", "dynamic-test", "report"} /\ Settled
        /\ UNCHANGED <<disk, rows, metrics, hasFindings>>
    BY DEF BuildOutput, DynamicTest, Report, Reporting, Settled
  <1>2. pc' \in {"dynamic-test", "report"} \/ (pc' = "idle" /\ ended' = "done")
    BY DEF BuildOutput, DynamicTest, Report, Goto
  <1>3. FlowInv'
    BY <1>1, <1>2 DEF FlowInv, StoredTypes, Progress, Settled, Places, disk, Admitted, Verified
  <1> QED BY <1>1, <1>2, <1>3 DEF Settled

LEMMA StopsFlow ==
    ASSUME FlowInv, Abort \/ Kill
    PROVE  FlowInv' /\ pc' = "idle" /\ ended' \in {"aborted", "killed"} /\ Forget
  <1>1. /\ Forget /\ UNCHANGED disk /\ pc' = "idle" /\ ended' \in {"aborted", "killed"}
    BY DEF Abort, Kill, StopsEarly, Goto
  <1> QED BY <1>1, FlowForgets

LEMMA StartFlow ==
    ASSUME FlowInv, NEW r \in Requests, Start(r)
    PROVE  FlowInv' /\ pc' = "parse" /\ ended' = "running" /\ Forget
  <1>1. /\ Forget /\ UNCHANGED disk /\ pc' = "parse" /\ ended' = "running"
    BY DEF Start, Goto
  <1> QED BY <1>1, FlowForgets

LEMMA FlowStep == FlowInv /\ [Next]_vars => FlowInv'
  <1> SUFFICES ASSUME FlowInv, [Next]_vars PROVE FlowInv'
    OBVIOUS
  <1>1. CASE UNCHANGED vars
    BY <1>1 DEF vars, disk, FlowInv, StoredTypes, Progress, Settled, Admitted, Verified
  <1>2. ASSUME NEW r \in Requests, Start(r) PROVE FlowInv' BY <1>2, StartFlow
  <1>3. CASE Parse \/ AppContext \/ Reachability \/ Enhance BY <1>3, EarlyFlow
  <1>4. ASSUME NEW u \in Units, Analyze(u) PROVE FlowInv' BY <1>4, AnalyzeFlow
  <1>5. ASSUME NEW u \in Units, VerifyUnit(u) PROVE FlowInv' BY <1>5, VerifyFlow
  <1>6. CASE Publish BY <1>6, PublishFlow
  <1>7. CASE SkipVerify \/ VerifyFails BY <1>7, UnverifiedFlow
  <1>8. CASE BeginVerify BY <1>8, BeginFlow
  <1>9. CASE EndVerify BY <1>9, EndFlow
  <1>10. CASE BuildOutput \/ DynamicTest \/ Report BY <1>10, LateFlow
  <1>11. CASE Abort \/ Kill BY <1>11, StopsFlow
  <1> QED BY <1>1, <1>2, <1>3, <1>4, <1>5, <1>6, <1>7, <1>8, <1>9, <1>10, <1>11 DEF Next

THEOREM FlowAlways == Spec => []FlowInv
  BY FlowInit, FlowStep, PTL DEF Spec

-----------------------------------------------------------------------------
(* A unit is adjudicated once.                                             *)

\* A unit verify still works on has no answer, or an errored one.
Unanswered ==
    pc = "verify" => \A u \in DOMAIN work : work[u].stage = "stage1" =>
                        answered[u] = NoRow \/ answered[u].stage = "error"

LEMMA UnansweredStep == FlowInv /\ Unanswered /\ [Next]_vars => Unanswered'
  <1> SUFFICES ASSUME FlowInv, Unanswered, [Next]_vars, pc' = "verify"
               PROVE  Unanswered'
    BY DEF Unanswered
  <1>1. CASE UNCHANGED vars BY <1>1 DEF vars, disk, Unanswered
  <1>2. ASSUME NEW u \in Units, VerifyUnit(u) PROVE Unanswered'
    <2>1. PICK a \in Stage2Answers : /\ work' = [work EXCEPT ![u] = Answered(work[u], a)]
                                     /\ answered' = [answered EXCEPT ![u] = Answered(work[u], a)]
      BY <1>2 DEF VerifyUnit
    <2>2. pc = "verify" /\ u \in DOMAIN work /\ work[u].stage = "stage1"
      BY <1>2 DEF VerifyUnit, Unverified
    <2>3. DOMAIN work = Admitted /\ DOMAIN answered = Units /\ Worked(work[u], published[u])
      BY <2>2 DEF FlowInv, StoredTypes, Progress
    <2>4. published[u] \in Stage1Rows /\ published[u].finding # "error"
      BY <2>2, <2>3, CandidateIsNoError DEF Admitted, FlowInv, StoredTypes
    <2>5. Answered(work[u], a).stage # "stage1" BY <2>2, <2>3, <2>4, AnsweredIs
    <2> QED BY <2>1, <2>2, <2>3, <2>5 DEF Unanswered
  <1>3. CASE BeginVerify
    <2>1. /\ pc = "gate" /\ UNCHANGED answered
          /\ work' = [u \in Candidates |-> IF Usable(u) THEN Restored(Escalated(rows[u]), answered[u])
                                           ELSE Escalated(rows[u])]
      BY <1>3 DEF BeginVerify
    <2>2. rows = published BY <2>1 DEF FlowInv, Progress
    <2>3. ASSUME NEW u \in Candidates, Usable(u) PROVE work'[u].stage # "stage1"
      <3>1. rows[u] \in Stage1Rows /\ u \in Units
        BY <2>2 DEF Candidates, FlowInv, StoredTypes
      <3>2. Answer(answered[u]) BY <2>3, <3>1 DEF Usable, FlowInv, StoredTypes
      <3>3. Restored(Escalated(rows[u]), answered[u]).stage = answered[u].stage
        BY <3>1, <3>2, EscalatedIs
      <3> QED BY <2>1, <2>3, <3>2, <3>3 DEF Answer
    <2> QED BY <2>1, <2>3 DEF Unanswered, Usable
  <1>4. CASE ~BeginVerify /\ ~(\E u \in Units : VerifyUnit(u)) /\ Next
    <2>1. pc = "verify" => UNCHANGED <<work, answered>>
      BY <1>4 DEF Next, Start, Parse, AppContext, Reachability, Enhance, Analyze, Publish,
                  SkipVerify, EndVerify, VerifyFails, BuildOutput, DynamicTest, Report,
                  Abort, Kill, StopsEarly, Goto
    <2>2. pc = "verify"
      BY <1>4 DEF Next, Start, Parse, AppContext, Reachability, Enhance, Analyze, Publish,
                  SkipVerify, EndVerify, VerifyFails, BuildOutput, DynamicTest, Report,
                  Abort, Kill, StopsEarly, Goto
    <2> QED BY <2>1, <2>2 DEF Unanswered
  <1> QED BY <1>1, <1>2, <1>3, <1>4

LEMMA UnansweredAlways == Spec => []Unanswered
  <1>1. Init => Unanswered BY DEF Init, Unanswered
  <1> QED BY <1>1, UnansweredStep, FlowAlways, PTL DEF Spec

\* A unit that has an answer of Stage 2, if only an incomplete one, is not
\* asked about again: no kill, failure, resumption or further scan replaces a
\* checkpoint that is not an error (core/verifier.py, run_verification, and the
\* checkpoints verify_batch reads).
THEOREM UnitsAdjudicatedOnce == Spec => AdjudicatedOnce
  <1> DEFINE Once == \A u \in Units : answered[u] # NoRow /\ answered[u].stage # "error"
                                         => answered'[u] = answered[u]
  <1>1. FlowInv /\ Unanswered /\ [Next]_vars => [Once]_vars
    <2> SUFFICES ASSUME FlowInv, Unanswered, Next PROVE Once
      OBVIOUS
    <2>1. ASSUME NEW v \in Units, VerifyUnit(v) PROVE Once
      <3>1. /\ pc = "verify" /\ v \in DOMAIN work /\ work[v].stage = "stage1"
            /\ \E row : answered' = [answered EXCEPT ![v] = row]
        BY <2>1 DEF VerifyUnit, Unverified
      <3>2. answered[v] = NoRow \/ answered[v].stage = "error" BY <3>1 DEF Unanswered
      <3> QED BY <3>1, <3>2 DEF FlowInv, StoredTypes
    <2>2. CASE ~\E v \in Units : VerifyUnit(v)
      <3>1. UNCHANGED answered
        BY <2>2 DEF Next, Start, Parse, AppContext, Reachability, Enhance, Analyze, Publish,
                    SkipVerify, BeginVerify, EndVerify, VerifyFails, BuildOutput, DynamicTest,
                    Report, Abort, Kill, StopsEarly, disk, Reporting, Upstream
      <3> QED BY <3>1
    <2> QED BY <2>1, <2>2
  <1>2. Spec => [][Once]_vars
    <2> HIDE DEF Once
    <2> QED BY <1>1, FlowAlways, UnansweredAlways, PTL DEF Spec
  <1> QED BY <1>2 DEF AdjudicatedOnce

-----------------------------------------------------------------------------
(* What Stage 1 found is reported, or was dismissed.                       *)

LEMMA CountedIsPositive ==
    ASSUME NEW r, IsFiniteSet(DOMAIN r), NEW u \in DOMAIN r, Confirmed(r[u])
    PROVE  Count(r, Confirmed) > 0
  <1> DEFINE C == {v \in DOMAIN r : Confirmed(r[v])}
  <1>1. IsFiniteSet(C) BY FS_Subset
  <1>2. C # {} OBVIOUS
  <1>3. Cardinality(C) \in Nat /\ Cardinality(C) # 0
    BY <1>1, <1>2, FS_CardinalityType, FS_EmptySet
  <1> QED BY <1>3 DEF Count

\* The process knows that it has a finding.
Knows ==
    pc \in {"gate", "verify"} \/ Settled =>
        \A u \in DOMAIN rows : published[u].finding \in Positive \/ Confirmed(rows[u])
                                  => hasFindings

LEMMA KnowsStep == FlowInv /\ Knows /\ [Next]_vars => Knows'
  <1> SUFFICES ASSUME FlowInv, Knows, [Next]_vars, (pc \in {"gate", "verify"} \/ Settled)'
               PROVE  Knows'
    BY DEF Knows
  <1> USE DEF Knows
  <1>1. CASE UNCHANGED vars BY <1>1 DEF vars, disk, Settled
  <1>2. ASSUME NEW r \in Requests, Start(r) PROVE Knows' BY <1>2, StartFlow DEF Settled
  <1>3. CASE Parse \/ AppContext \/ Reachability \/ Enhance
    BY <1>3 DEF Parse, AppContext, Reachability, Enhance, Goto, Settled
  <1>4. ASSUME NEW u \in Units, Analyze(u) PROVE Knows' BY <1>4 DEF Analyze, Settled
  <1>5. ASSUME NEW u \in Units, VerifyUnit(u) PROVE Knows'
    BY <1>5 DEF VerifyUnit, Downstream, Settled
  <1>6. CASE Publish
    <2>1. /\ rows' = published' /\ hasFindings' = (ConfirmedFindings(rows') # {})
      BY <1>6 DEF Publish
    <2>2. ASSUME NEW u \in DOMAIN rows', Confirmed(rows'[u]) PROVE FALSE
      <3>1. FlowInv' BY <1>6, PublishFlow
      <3>2. rows'[u] \in Stage1Rows BY <2>1, <3>1 DEF FlowInv, StoredTypes
      <3> QED BY <2>2, <3>2, Stage1Fields DEF Confirmed
    <2> QED BY <2>1, <2>2 DEF ConfirmedFindings
  <1>7. CASE SkipVerify \/ VerifyFails
    <2>1. pc \in {"gate", "verify"} BY <1>7 DEF SkipVerify, VerifyFails
    <2> QED BY <1>7, <2>1, UnverifiedFlow
  <1>8. CASE BeginVerify BY <1>8 DEF BeginVerify, Downstream
  <1>9. CASE EndVerify
    <2>1. PICK new \in Rewrites : /\ metrics' = Envelope(metrics, new) /\ DOMAIN new = Admitted
                                  /\ \A u \in Admitted : rows'[u] = new[u]
      BY <1>9, EndFlow
    <2>2. /\ pc = "verify" /\ hasFindings' = HasFindings(metrics') /\ UNCHANGED published
      BY <1>9 DEF EndVerify, Downstream
    <2>3. FlowInv' /\ Verified' /\ UNCHANGED Admitted BY <1>9, EndFlow
    <2>4. rows = published BY <2>2 DEF FlowInv, Progress
    <2>5. DOMAIN rows' = DOMAIN published /\ DOMAIN published \subseteq Units
      <3>1. pc' = "build" BY <1>9 DEF EndVerify, Goto
      <3> QED BY <2>2, <2>3, <3>1 DEF FlowInv, StoredTypes, Progress, Settled
    <2>6. ASSUME NEW u \in DOMAIN rows', published'[u].finding \in Positive \/ Confirmed(rows'[u])
          PROVE  hasFindings'
      <3>1. CASE published[u].finding \in Positive
        <4>1. hasFindings BY <2>2, <2>4, <2>5, <3>1
        <4> QED BY <2>2, <4>1 DEF HasFindings
      <3>2. CASE published[u].finding \notin Positive
        <4>1. Confirmed(rows'[u]) BY <2>2, <2>6, <3>2
        <4>2. u \in Admitted
          <5>1. CASE u \notin Admitted
            <6>1. rows'[u] = published[u] BY <2>2, <2>3, <2>5, <5>1 DEF Verified
            <6>2. published[u] \in Stage1Rows BY <2>5 DEF FlowInv, StoredTypes
            <6> QED BY <4>1, <6>1, <6>2, Stage1Fields DEF Confirmed
          <5> QED BY <5>1
        <4>3. IsFiniteSet(DOMAIN new)
          BY <2>1, <2>5, FS_Subset, ScanAssumption DEF Admitted
        <4>4. Count(new, Confirmed) > 0 /\ Count(new, Confirmed) \in Nat
          <5>1. Confirmed(new[u]) BY <2>1, <4>1, <4>2
          <5>2. Count(new, Confirmed) > 0 BY <2>1, <4>2, <4>3, <5>1, CountedIsPositive
          <5>3. IsFiniteSet({v \in DOMAIN new : Confirmed(new[v])}) BY <4>3, FS_Subset
          <5> QED BY <5>2, <5>3, FS_CardinalityType DEF Count
        <4>5. metrics'["vulnerable"] = Count(new, Confirmed) /\ metrics'["bypassable"] = 0
          BY <2>1 DEF Envelope, Verdicts
        <4>6. metrics'["vulnerable"] + metrics'["bypassable"] > 0 BY <4>4, <4>5
        <4> QED BY ONLY <2>2, <4>6, Zenon DEF HasFindings
      <3> QED BY <3>1, <3>2
    <2> QED BY <2>6
  <1>10. CASE BuildOutput \/ DynamicTest \/ Report
    <2>1. Settled /\ UNCHANGED <<disk, rows, hasFindings>> BY <1>10, LateFlow
    <2> QED BY <2>1 DEF disk
  <1>11. CASE Abort \/ Kill BY <1>11, StopsFlow DEF Settled
  <1> QED BY <1>1, <1>2, <1>3, <1>4, <1>5, <1>6, <1>7, <1>8, <1>9, <1>10, <1>11 DEF Next

\* What is written of the results: the findings, and the disclosures.
OutputInv ==
    /\ ~Settled \/ pc = "build" => output = NoOutput
    /\ Settled /\ pc # "build" =>
          output.findings = [u \in Found |-> Stage2Verdict(rows[u])]
    /\ pc # "idle" => ended = "running" /\ reports["report"] = "none"
    /\ ended = "done" => pc = "idle"
    /\ ended = "done" /\ reports["report"] = "done" =>
          docs = IF hasFindings THEN Eligible ELSE {}
    /\ DOMAIN reports = Optional

LEMMA OutputStep == OutputInv /\ [Next]_vars => OutputInv'
  <1> SUFFICES ASSUME OutputInv, [Next]_vars PROVE OutputInv'
    OBVIOUS
  <1>1. CASE UNCHANGED vars BY <1>1 DEF vars, OutputInv, Settled, Found, Eligible
  <1>2. ASSUME NEW r \in Requests, Start(r) PROVE OutputInv'
    BY <1>2 DEF Start, Forget, Goto, OutputInv, Settled, Optional
  <1>3. CASE Abort \/ Kill
    <2>1. Forget /\ pc' = "idle" /\ ended' \in {"aborted", "killed"}
      BY <1>3 DEF Abort, Kill, StopsEarly, Goto
    <2> QED BY <2>1 DEF Forget, OutputInv, Settled
  <1>4. ASSUME \/ Parse \/ AppContext \/ Reachability \/ Enhance
               \/ \E u \in Units : Analyze(u) \/ VerifyUnit(u)
               \/ Publish \/ SkipVerify \/ BeginVerify \/ EndVerify \/ VerifyFails
        PROVE  OutputInv'
    <2>1. /\ pc \in Places \ {"idle", "build", "dynamic-test", "report"}
          /\ pc' \in Places \ {"idle", "dynamic-test", "report"}
          /\ UNCHANGED <<output, ended>>
      BY <1>4 DEF Parse, AppContext, Reachability, Enhance, Analyze, VerifyUnit, Publish,
                  SkipVerify, BeginVerify, EndVerify, VerifyFails, Goto, Upstream, Downstream,
                  Places
    <2>2. reports' = reports \/ \E s \in Optional \ {"report"} : \E t : reports' = [reports EXCEPT ![s] = t]
      BY <1>4 DEF Parse, AppContext, Reachability, Enhance, Analyze, VerifyUnit, Publish,
                  SkipVerify, BeginVerify, EndVerify, VerifyFails, Ran, Downstream, Optional
    <2>3. reports'["report"] = "none" /\ DOMAIN reports' = Optional
      <3>1. reports["report"] = "none" /\ DOMAIN reports = Optional BY <2>1 DEF OutputInv
      <3>2. CASE UNCHANGED reports BY <3>1, <3>2
      <3>3. ASSUME NEW s \in Optional \ {"report"}, NEW t, reports' = [reports EXCEPT ![s] = t]
            PROVE  reports'["report"] = "none" /\ DOMAIN reports' = Optional
        BY <3>1, <3>3 DEF Optional
      <3> QED BY <2>2, <3>2, <3>3
    <2>4. output = NoOutput /\ ended = "running" BY <2>1 DEF OutputInv, Settled
    <2>5. (~Settled \/ pc = "build")' /\ ended' = "running" /\ ended' # "done"
      BY <2>1, <2>4 DEF Settled
    <2> QED BY <2>1, <2>3, <2>4, <2>5 DEF OutputInv
  <1>5. CASE BuildOutput
    <2>1. /\ pc = "build" /\ pc' \in {"dynamic-test", "report"}
          /\ output'.findings = [u \in Found |-> Stage2Verdict(rows[u])]
          /\ UNCHANGED <<rows, reports, ended>>
      BY <1>5 DEF BuildOutput, Built, Goto, Reporting
    <2> QED BY <2>1 DEF OutputInv, Settled, Found
  <1>6. CASE DynamicTest
    <2>1. /\ pc = "dynamic-test" /\ pc' = "report" /\ UNCHANGED <<rows, ended>>
          /\ \E t : reports' = [reports EXCEPT !["dynamic-test"] = t]
          /\ output' = output \/ output'.findings = [u \in Found |-> Stage2Verdict(rows[u])]
      BY <1>6 DEF DynamicTest, Built, Goto, Ran, Reporting
    <2> QED BY <2>1 DEF OutputInv, Settled, Found, Optional
  <1>7. CASE Report
    <2>1. /\ pc = "report" /\ pc' = "idle" /\ ended' = "done"
          /\ UNCHANGED <<rows, hasFindings, output>>
      BY <1>7 DEF Report, Goto, Reporting
    <2>2. \/ UNCHANGED reports
          \/ /\ reports' = [reports EXCEPT !["report"] = "done"]
             /\ docs' = IF hasFindings THEN Eligible ELSE {}
          \/ reports' = [reports EXCEPT !["report"] = "partial"]
      BY <1>7 DEF Report, Ran
    <2>3. DOMAIN reports = Optional /\ reports["report"] = "none" BY <2>1 DEF OutputInv
    <2>4. Eligible' = Eligible BY <2>1 DEF Eligible
    <2>5. DOMAIN reports' = Optional /\ (reports'["report"] = "done" =>
                                            docs' = IF hasFindings THEN Eligible ELSE {})
      BY <2>2, <2>3 DEF Optional
    <2> QED BY <2>1, <2>4, <2>5 DEF OutputInv, Settled, Found
  <1> QED BY <1>1, <1>2, <1>3, <1>4, <1>5, <1>6, <1>7 DEF Next

\* What becomes of a positive finding of Stage 1.
LEMMA PositiveRow ==
    ASSUME FlowInv, Settled, NEW u \in DOMAIN published, published[u].finding \in Positive, Fresh(u)
    PROVE  \/ /\ u \in ConfirmedFindings(rows)
              /\ Stage2Verdict(rows[u]) \in DisclosureEligible
           \/ Dismissed(u)
  <1> DEFINE r == rows[u]
  <1>1. /\ DOMAIN rows = DOMAIN published /\ published[u] \in Stage1Rows
        /\ rows = published \/ Verified
    BY DEF FlowInv, StoredTypes, Progress
  <1>2. CASE rows = published
    <2>1. r.stage = "stage1" /\ r.finding \in Positive BY <1>1, <1>2, Stage1Fields
    <2> QED BY <1>1, <1>2, <2>1 DEF ConfirmedFindings, Stage2Verdict, Incomplete, Positive,
                                    DisclosureEligible
  <1>3. CASE Verified
    <2>1. u \in Admitted BY DEF Admitted, IsCandidate
    <2>2. Judged(r, published[u]) BY <1>3, <2>1 DEF Verified
    <2>3. r.stage \in {"agreed", "disagreed", "incomplete", "error"} BY <2>2 DEF Judged, Row, Stages
    <2>4. CASE r.finding \in Positive
      <3>1. Stage2Verdict(r) \in DisclosureEligible
        BY <2>3, <2>4 DEF Stage2Verdict, Incomplete, Positive, DisclosureEligible
      <3> QED BY <1>1, <2>4, <3>1 DEF ConfirmedFindings
    <2>5. CASE r.finding \notin Positive /\ r.rewritten
      <3>1. ~Incomplete(r) /\ r.path # "reached" BY <2>2, <2>5 DEF Judged
      <3> QED BY <2>5, <3>1 DEF Dismissed
    <2>6. CASE r.finding \notin Positive /\ ~r.rewritten
      <3>1. Answer(r) /\ r.about = published[u].finding BY <2>2, <2>3, <2>6 DEF Judged, Fresh
      <3>2. r.stage = "disagreed" BY <2>3, <2>6, <3>1 DEF Answer
      <3> QED BY <3>2 DEF Dismissed, Incomplete
    <2> QED BY <2>4, <2>5, <2>6
  <1> QED BY <1>1, <1>2, <1>3

\* A finding that the report collapses.
LEMMA CollapsedIs ==
    ASSUME NEW u \in ConfirmedFindings(rows), u \notin Found, DOMAIN output.findings = Found
    PROVE  Represented(u) \/ Ring(u)
  <1> DEFINE R == {v \in ConfirmedFindings(rows) : Cwe[v] = Cwe[u]}
  <1>1. CASE \E v \in R : v \in Found BY <1>1 DEF Represented
  <1>2. CASE \A v \in R : v \notin Found
    <2>1. ASSUME NEW v \in R PROVE \E c \in R : Callers[v] = {c}
      <3>1. PICK c \in ConfirmedFindings(rows) : Callers[v] = {c} /\ Cwe[c] = Cwe[v]
        BY <1>2 DEF Found, Deduplicated
      <3> QED BY <3>1
    <2>2. u \in R /\ R \in SUBSET ConfirmedFindings(rows) OBVIOUS
    <2> QED BY <2>1, <2>2 DEF Ring
  <1> QED BY <1>1, <1>2

LEMMA KeptFollows == FlowInv /\ Knows /\ OutputInv => PositivesKept
  <1> SUFFICES ASSUME FlowInv, Knows, OutputInv PROVE PositivesReported /\ DisclosuresFollow
    BY DEF PositivesKept
  <1>1. PositivesReported
    <2> SUFFICES ASSUME output # NoOutput,
                        NEW u \in DOMAIN published, published[u].finding \in Positive, Fresh(u)
                 PROVE  \/ u \in Eligible
                        \/ u \in ConfirmedFindings(rows) /\ (Represented(u) \/ Ring(u))
                        \/ Dismissed(u)
      BY DEF PositivesReported
    <2>1. Settled /\ output.findings = [v \in Found |-> Stage2Verdict(rows[v])]
      BY DEF OutputInv
    <2>2. DOMAIN output.findings = Found BY <2>1
    <2>3. CASE u \in Found /\ Stage2Verdict(rows[u]) \in DisclosureEligible
      BY <2>1, <2>3 DEF Eligible
    <2>4. CASE u \in ConfirmedFindings(rows) /\ u \notin Found BY <2>2, <2>4, CollapsedIs
    <2> QED BY <2>1, <2>3, <2>4, PositiveRow
  <1>2. DisclosuresFollow
    <2> SUFFICES ASSUME ended = "done", reports["report"] = "done",
                        NEW u \in DOMAIN rows,
                        published[u].finding \in Positive \/ Confirmed(rows[u])
                 PROVE  docs = Eligible
      BY DEF DisclosuresFollow
    <2>1. Settled /\ docs = (IF hasFindings THEN Eligible ELSE {}) BY DEF OutputInv, Settled
    <2>2. hasFindings BY <2>1 DEF Knows
    <2> QED BY <2>1, <2>2
  <1> QED BY <1>1, <1>2

\* A vulnerable or bypassable verdict of Stage 1 is in the report with an
\* eligible verdict, or stands behind a finding of its class, or was dismissed
\* by a finished answer about it; and when the report step succeeds each
\* eligible finding has its disclosure (core/scanner.py, core/verifier.py,
\* utilities/finding_verifier.py, core/reporter.py).
THEOREM NoPositiveLost == Spec => []PositivesKept
  <1>1. Init => Knows BY DEF Init, Knows, Settled
  <1>2. Init => OutputInv BY DEF Init, OutputInv, Settled, Optional
  <1> QED BY <1>1, <1>2, KnowsStep, OutputStep, KeptFollows, FlowAlways, PTL DEF Spec

-----------------------------------------------------------------------------
(* The envelope of the scan and the files it points to: the unit count and *)
(* the skipped steps.                                                      *)

LEMMA CountStep ==
    CountDescribesDataset /\ [Next]_vars => CountDescribesDataset'
  <1> SUFFICES ASSUME CountDescribesDataset, [Next]_vars, pc' \notin {"idle", "parse"}
               PROVE  unitsCount' = Cardinality(dataset')
    BY DEF CountDescribesDataset
  <1>1. CASE Parse BY <1>1 DEF Parse
  <1>2. CASE Reachability
    <2>1. pc = "llm-reachability" BY <1>2 DEF Reachability
    <2> QED BY <1>2, <2>1 DEF Reachability, RestoreCount, CountDescribesDataset
  <1>3. CASE ~Parse /\ ~Reachability
    <2>1. pc \notin {"idle", "parse"} /\ UNCHANGED <<dataset, unitsCount>>
      BY <1>3 DEF Next, vars, disk, Start, AppContext, Enhance, Analyze, Publish, VerifyUnit,
                  SkipVerify, BeginVerify, EndVerify, VerifyFails, BuildOutput, DynamicTest,
                  Report, Abort, Kill, StopsEarly, Goto, Downstream, Reporting
    <2> QED BY <2>1 DEF CountDescribesDataset
  <1> QED BY <1>1, <1>2, <1>3

\* The steps a scan has gone past.
Past ==
    CASE pc = "llm-reachability"            -> {"app-context"}
      [] pc = "enhance"                     -> {"app-context", "llm-reachability"}
      [] pc \in {"analyze", "gate", "verify"} -> {"app-context", "llm-reachability", "enhance"}
      [] pc \in {"build", "dynamic-test"}   -> {"app-context", "llm-reachability", "enhance",
                                                "verify"}
      [] pc = "report"                      -> Optional \ {"report"}
      [] pc = "idle"                        -> Optional
      [] OTHER                              -> {}

\* Up to a point the skip list tells what the step reports tell; nothing is
\* said of the steps to come.
SkipInv ==
    /\ pc \in Places
    /\ pc # "idle" => ended = "running"
    /\ DOMAIN reports = Optional
    /\ pc # "idle" \/ ended = "done" =>
          /\ skipped \subseteq Past
          /\ \A s \in Past : s \in skipped <=> reports[s] \in {"none", "skipped"}
          /\ \A s \in Optional \ Past : reports[s] = "none"
    /\ pc \notin {"idle", "report"} => ~outdated
    /\ pc = "dynamic-test" => output.skipped = skipped
    /\ pc = "report" => output.skipped = skipped \ IF outdated THEN {"dynamic-test"} ELSE {}
    /\ pc = "idle" /\ ended = "done" =>
          output.skipped = skipped \ ({"report"} \cup IF outdated THEN {"dynamic-test"} ELSE {})

\* A step that is gone past, and is in the skip list as its report has it.
LEMMA StepRecorded ==
    ASSUME SkipInv, pc # "idle", pc' \in Places, pc' # "idle", ended' = "running",
           NEW s \in Optional \ Past, Past' = Past \cup {s},
           \/ skipped' = skipped \cup {s} /\ UNCHANGED reports
           \/ reports' = [reports EXCEPT ![s] = "done"] /\ UNCHANGED skipped
           \/ reports' = [reports EXCEPT ![s] = "skipped"] /\ skipped' = skipped \cup {s}
    PROVE  /\ DOMAIN reports' = Optional /\ skipped' \subseteq Past'
           /\ \A t \in Past' : t \in skipped' <=> reports'[t] \in {"none", "skipped"}
           /\ \A t \in Optional \ Past' : reports'[t] = "none"
  <1>1. /\ DOMAIN reports = Optional /\ skipped \subseteq Past
        /\ \A t \in Past : t \in skipped <=> reports[t] \in {"none", "skipped"}
        /\ \A t \in Optional \ Past : reports[t] = "none"
    BY DEF SkipInv
  <1>2. s \notin Past /\ s \notin skipped /\ reports[s] = "none" BY <1>1
  <1>3. DOMAIN reports' = Optional /\ skipped' \subseteq Past' BY <1>1
  <1>4. \A t \in Optional \ {s} : reports'[t] = reports[t] BY <1>1
  <1>5. \A t : t # s => (t \in skipped' <=> t \in skipped) OBVIOUS
  <1>6. Past \subseteq Optional BY DEF Past, Optional
  <1>7. s \in skipped' <=> reports'[s] \in {"none", "skipped"} BY <1>1, <1>2
  <1> QED BY <1>1, <1>2, <1>3, <1>4, <1>5, <1>6, <1>7

LEMMA SkipStep == SkipInv /\ [Next]_vars => SkipInv'
  <1> SUFFICES ASSUME SkipInv, [Next]_vars PROVE SkipInv'
    OBVIOUS
  <1>1. CASE UNCHANGED vars BY <1>1 DEF vars, SkipInv, Past
  <1>2. ASSUME NEW r \in Requests, Start(r) PROVE SkipInv'
    BY <1>2 DEF Start, Forget, Goto, SkipInv, Past, Optional, Places
  <1>3. CASE Abort \/ Kill
    <2>1. Forget /\ pc' = "idle" /\ ended' \in {"aborted", "killed"}
      BY <1>3 DEF Abort, Kill, StopsEarly, Goto
    <2> QED BY <2>1 DEF Forget, SkipInv, Places
  <1>4. ASSUME \/ Parse \/ Publish \/ BeginVerify
               \/ \E u \in Units : Analyze(u) \/ VerifyUnit(u)
        PROVE  SkipInv'
    <2>1. /\ pc \in {"parse", "analyze", "gate", "verify"}
          /\ pc' \in {"app-context", "analyze", "gate", "verify"}
          /\ UNCHANGED <<skipped, reports, outdated, ended>>
          /\ pc = "parse" <=> pc' = "app-context"
      BY <1>4 DEF Parse, Publish, BeginVerify, Analyze, VerifyUnit, Goto, Downstream
    <2>2. Past' = Past BY <2>1 DEF Past
    <2> QED BY <2>1, <2>2 DEF SkipInv, Places
  <1>5. ASSUME \/ AppContext \/ Reachability \/ Enhance
               \/ SkipVerify \/ EndVerify \/ VerifyFails
        PROVE  SkipInv'
    <2>1. PICK s \in {"app-context", "llm-reachability", "enhance", "verify"} :
             /\ s = "app-context" => pc = "app-context" /\ pc' = "llm-reachability"
             /\ s = "llm-reachability" => pc = "llm-reachability" /\ pc' = "enhance"
             /\ s = "enhance" => pc = "enhance" /\ pc' = "analyze"
             /\ s = "verify" => pc \in {"gate", "verify"} /\ pc' = "build"
             /\ \/ skipped' = skipped \cup {s} /\ UNCHANGED reports
                \/ reports' = [reports EXCEPT ![s] = "done"] /\ UNCHANGED skipped
                \/ reports' = [reports EXCEPT ![s] = "skipped"] /\ skipped' = skipped \cup {s}
      <3>1. CASE AppContext BY <3>1 DEF AppContext, Goto, Skip, Ran
      <3>2. CASE Reachability BY <3>2 DEF Reachability, Goto, Skip, Ran
      <3>3. CASE Enhance BY <3>3 DEF Enhance, Goto, Skip, Ran
      <3>4. CASE SkipVerify BY <3>4 DEF SkipVerify, Goto, Skip
      <3>5. CASE EndVerify BY <3>5 DEF EndVerify, Goto, Ran
      <3>6. CASE VerifyFails BY <3>6 DEF VerifyFails, Goto, Skip, Ran
      <3> QED BY <1>5, <3>1, <3>2, <3>3, <3>4, <3>5, <3>6
    <2>2. /\ s \in Optional \ Past /\ Past' = Past \cup {s}
          /\ pc # "idle" /\ pc' \in Places \ {"idle", "dynamic-test", "report"}
          /\ pc \notin {"idle", "report"}
      BY <2>1 DEF Past, Optional, Places
    <2>3. UNCHANGED <<ended, outdated>>
      BY <1>5 DEF AppContext, Reachability, Enhance, SkipVerify, EndVerify, VerifyFails,
                  Upstream, Downstream
    <2>4. ended' = "running" /\ ~outdated' BY <2>2, <2>3 DEF SkipInv
    <2>5. /\ DOMAIN reports' = Optional /\ skipped' \subseteq Past'
          /\ \A t \in Past' : t \in skipped' <=> reports'[t] \in {"none", "skipped"}
          /\ \A t \in Optional \ Past' : reports'[t] = "none"
      BY <2>1, <2>2, <2>4, StepRecorded
    <2> QED BY <2>2, <2>4, <2>5 DEF SkipInv
  <1>6. CASE BuildOutput
    <2>1. /\ pc = "build" /\ UNCHANGED <<reports, outdated, ended>>
          /\ output'.skipped = SkipsAtBuild /\ skipped' = SkipsAtBuild
      BY <1>6 DEF BuildOutput, Built, SkipsAtBuild
    <2>2. ended' = "running" /\ ~outdated /\ ~outdated' BY <2>1 DEF SkipInv
    <2>3. CASE RunsDynamicTest
      <3>1. skipped' = skipped /\ pc' = "dynamic-test" /\ Past' = Past
        BY <1>6, <2>1, <2>3 DEF BuildOutput, SkipsAtBuild, Goto, Past
      <3> QED BY <2>1, <2>2, <3>1 DEF SkipInv, Places
    <2>4. CASE ~RunsDynamicTest
      <3>1. /\ skipped' = skipped \cup {"dynamic-test"} /\ pc' = "report"
            /\ Past' = Past \cup {"dynamic-test"} /\ "dynamic-test" \in Optional \ Past
        BY <1>6, <2>1, <2>4 DEF BuildOutput, SkipsAtBuild, Goto, Past, Optional
      <3>2. /\ DOMAIN reports' = Optional /\ skipped' \subseteq Past'
            /\ \A t \in Past' : t \in skipped' <=> reports'[t] \in {"none", "skipped"}
            /\ \A t \in Optional \ Past' : reports'[t] = "none"
        BY <2>1, <2>2, <3>1, StepRecorded DEF Places
      <3> QED BY <2>1, <2>2, <3>1, <3>2 DEF SkipInv, Places
    <2> QED BY <2>3, <2>4
  <1>7. CASE DynamicTest
    <2>1. /\ pc = "dynamic-test" /\ pc' = "report" /\ UNCHANGED ended
          /\ Past' = Past \cup {"dynamic-test"} /\ "dynamic-test" \in Optional \ Past
      BY <1>7 DEF DynamicTest, Goto, Past, Optional, Reporting
    <2>2. /\ ended' = "running" /\ ~outdated /\ output.skipped = skipped
          /\ "dynamic-test" \notin skipped
      BY <2>1 DEF SkipInv
    <2>3. \/ /\ reports' = [reports EXCEPT !["dynamic-test"] = "done"]
             /\ UNCHANGED <<skipped, output, outdated>>
          \/ /\ reports' = [reports EXCEPT !["dynamic-test"] = "skipped"]
             /\ skipped' = skipped \cup {"dynamic-test"}
             /\ \/ output'.skipped = skipped' /\ UNCHANGED outdated
                \/ outdated' = TRUE /\ UNCHANGED output
      BY <1>7 DEF DynamicTest, Ran, Skip, Built
    <2>4. /\ DOMAIN reports' = Optional /\ skipped' \subseteq Past'
          /\ \A t \in Past' : t \in skipped' <=> reports'[t] \in {"none", "skipped"}
          /\ \A t \in Optional \ Past' : reports'[t] = "none"
      BY <2>1, <2>2, <2>3, StepRecorded DEF Places
    <2>5. output'.skipped = skipped' \ IF outdated' THEN {"dynamic-test"} ELSE {}
      BY <2>2, <2>3
    <2> QED BY <2>1, <2>2, <2>4, <2>5 DEF SkipInv, Places
  <1>8. CASE Report
    <2>1. /\ pc = "report" /\ pc' = "idle" /\ ended' = "done" /\ UNCHANGED <<output, outdated>>
          /\ \/ skipped' = skipped \cup {"report"} /\ UNCHANGED reports
             \/ /\ \E t \in {"done", "partial"} : reports' = [reports EXCEPT !["report"] = t]
                /\ UNCHANGED skipped
      BY <1>8 DEF Report, Goto, Skip, Ran
    <2>2. /\ DOMAIN reports = Optional /\ skipped \subseteq Optional \ {"report"}
          /\ \A t \in Optional \ {"report"} : t \in skipped <=> reports[t] \in {"none", "skipped"}
          /\ reports["report"] = "none"
          /\ output.skipped = skipped \ IF outdated THEN {"dynamic-test"} ELSE {}
      BY <2>1 DEF SkipInv, Past, Optional
    <2>3. Past' = Optional BY <2>1 DEF Past
    <2>4. /\ DOMAIN reports' = Optional /\ skipped' \subseteq Optional
          /\ \A t \in Optional : t \in skipped' <=> reports'[t] \in {"none", "skipped"}
      BY <2>1, <2>2 DEF Optional
    <2>5. output'.skipped = skipped' \ ({"report"} \cup IF outdated' THEN {"dynamic-test"} ELSE {})
      BY <2>1, <2>2
    <2> QED BY <2>1, <2>3, <2>4, <2>5 DEF SkipInv, Places
  <1> QED BY <1>1, <1>2, <1>3, <1>4, <1>5, <1>6, <1>7, <1>8 DEF Next

-----------------------------------------------------------------------------
(* The envelope's verdict columns and the recount of the rows.             *)

\* The envelope was made of the rows that verify worked on.
Enveloped ==
    \E new : /\ DOMAIN new = Admitted /\ \A u \in Admitted : rows[u] = new[u]
             /\ metrics = Envelope(Stage1Metrics(published), new)

MetricsInv ==
    /\ pc \in {"gate", "verify"} => metrics = Stage1Metrics(published)
    /\ pc = "build" => \/ rows = published /\ metrics = Stage1Metrics(published)
                       \/ Verified /\ Enveloped

LEMMA MetricsStep == FlowInv /\ MetricsInv /\ [Next]_vars => MetricsInv'
  <1> SUFFICES ASSUME FlowInv, MetricsInv, [Next]_vars, pc' \in {"gate", "verify", "build"}
               PROVE  MetricsInv'
    BY DEF MetricsInv
  <1>1. CASE UNCHANGED vars
    BY <1>1 DEF vars, disk, MetricsInv, Verified, Admitted, Enveloped
  <1>2. CASE Publish BY <1>2 DEF Publish, Goto, MetricsInv
  <1>3. CASE BeginVerify BY <1>3 DEF BeginVerify, Goto, Downstream, MetricsInv
  <1>4. CASE SkipVerify \/ VerifyFails
    <2>1. pc \in {"gate", "verify"} /\ pc' = "build" BY <1>4 DEF SkipVerify, VerifyFails, Goto
    <2>2. rows' = published' /\ UNCHANGED <<published, metrics>> BY <1>4, UnverifiedFlow
    <2> QED BY <2>1, <2>2 DEF MetricsInv
  <1>5. CASE EndVerify
    <2>1. pc = "verify" /\ pc' = "build" BY <1>5 DEF EndVerify, Goto
    <2>2. Verified' /\ UNCHANGED <<published, Admitted>>
          /\ \E new \in Rewrites : /\ metrics' = Envelope(metrics, new)
                                   /\ DOMAIN new = Admitted
                                   /\ \A u \in Admitted : rows'[u] = new[u]
      BY <1>5, EndFlow
    <2>3. metrics = Stage1Metrics(published) BY <2>1 DEF MetricsInv
    <2>4. Enveloped' BY <2>2, <2>3 DEF Enveloped
    <2> QED BY <2>1, <2>2, <2>4 DEF MetricsInv
  <1>6. CASE \E u \in Units : Analyze(u) \/ VerifyUnit(u)
    BY <1>6 DEF Analyze, VerifyUnit, Downstream, MetricsInv
  <1>7. CASE \/ Parse \/ AppContext \/ Reachability \/ Enhance \/ BuildOutput \/ DynamicTest
             \/ Report \/ Abort \/ Kill \/ \E r \in Requests : Start(r)
    <2>1. pc' \notin {"gate", "verify", "build"}
      BY <1>7 DEF Parse, AppContext, Reachability, Enhance, BuildOutput, DynamicTest, Report,
                  Abort, Kill, StopsEarly, Start, Goto
    <2> QED BY <2>1
  <1> QED BY <1>1, <1>2, <1>3, <1>4, <1>5, <1>6, <1>7 DEF Next

LEMMA DisjointSum ==
    ASSUME NEW S, IsFiniteSet(S), NEW T, IsFiniteSet(T), \A x \in S : x \notin T
    PROVE  /\ IsFiniteSet(S \cup T) /\ Cardinality(S) \in Nat /\ Cardinality(T) \in Nat
           /\ Cardinality(S \cup T) = Cardinality(S) + Cardinality(T)
  <1>1. S \cap T = {} OBVIOUS
  <1>2. Cardinality(S) \in Nat /\ Cardinality(T) \in Nat BY FS_CardinalityType
  <1>3. Cardinality(S \cup T) = Cardinality(S) + Cardinality(T) - 0
    BY <1>1, FS_Union, FS_EmptySet
  <1>4. IsFiniteSet(S \cup T) BY FS_Union
  <1> QED BY <1>2, <1>3, <1>4

\* The rows in a column of the recount.
In(f) == {u \in DOMAIN rows : Column(rows[u]) = f}
BothIn(f) == {u \in DOMAIN rows : rows[u].origin = f /\ rows[u].stage = "incomplete"}
FoundAs(f) == {u \in DOMAIN published : published[u].finding = f}

Columns == Verdicts \cup {"errors", "needs_review"}

\* What MetricsAgree says, in the sets that are counted.
Agreed ==
    /\ metrics["vulnerable"] + metrics["bypassable"]
          = Cardinality(In("vulnerable")) + Cardinality(In("bypassable"))
    /\ \A f \in {"protected", "errors", "needs_review"} : metrics[f] = Cardinality(In(f))
    /\ \A f \in {"inconclusive", "safe"} : metrics[f] = Cardinality(In(f)) + Cardinality(BothIn(f))

LEMMA AgreedIs == Agreed => MetricsAgree
  <1>1. \A f \in Columns : Recount(rows)[f] = Cardinality(In(f))
    BY DEF Recount, Count, In, Columns
  <1>2. \A f : Count(rows, LAMBDA r : r.origin = f /\ r.stage = "incomplete") = Cardinality(BothIn(f))
    BY DEF Count, BothIn
  <1> QED BY <1>1, <1>2 DEF Agreed, MetricsAgree, Columns, Verdicts

LEMMA Stage1Columns ==
    /\ \A f \in Verdicts : Stage1Metrics(published)[f] = Cardinality(FoundAs(f))
    /\ Stage1Metrics(published)["errors"] = Cardinality(FoundAs("error"))
    /\ Stage1Metrics(published)["needs_review"] = 0
  <1> DEFINE m == Stage1Metrics(published)
  <1>1. ASSUME NEW f \in Verdicts PROVE m[f] = Cardinality(FoundAs(f))
    BY DEF Stage1Metrics, Verdicts, Count, FoundAs
  <1>2. m["errors"] = Count(published, LAMBDA r : r.finding = "error")
    BY DEF Stage1Metrics, Verdicts
  <1>3. m["needs_review"] = 0 BY DEF Stage1Metrics, Verdicts
  <1> QED BY <1>1, <1>2, <1>3 DEF Count, FoundAs

\* Verify did not run, or failed: the rows are Stage 1's.
LEMMA UnverifiedAgrees ==
    ASSUME FlowInv, rows = published, metrics = Stage1Metrics(published)
    PROVE  Agreed
  <1>1. \A u \in DOMAIN rows : /\ rows[u].stage = "stage1" /\ rows[u].origin = "none"
                               /\ rows[u].finding \in Stage1Findings
    BY Stage1Fields DEF FlowInv, StoredTypes
  <1>2. \A f \in Verdicts : In(f) = FoundAs(f) BY <1>1 DEF In, FoundAs, Column, Stage1Findings, Verdicts
  <1>3. In("errors") = FoundAs("error")
    BY <1>1 DEF In, FoundAs, Column, Stage1Findings, Verdicts
  <1>4. In("needs_review") = {} BY <1>1 DEF In, Column, Stage1Findings, Verdicts
  <1>5. \A f \in {"inconclusive", "safe"} : BothIn(f) = {} BY <1>1 DEF BothIn
  <1>6. \A f : Cardinality(FoundAs(f)) \in Nat
    <2>1. IsFiniteSet(DOMAIN published)
      BY FS_Subset, ScanAssumption DEF FlowInv, StoredTypes
    <2> QED BY <2>1, FS_Subset, FS_CardinalityType DEF FoundAs
  <1> QED BY <1>2, <1>3, <1>4, <1>5, <1>6, Stage1Columns, FS_EmptySet DEF Agreed, Verdicts

\* The sets the envelope counts, over the rows verify worked on.
LandedIn(f) == {u \in Admitted : Landed(rows[u], f)}
MovedOut(f) == {u \in Admitted : MovedFrom(rows[u], f)}
Failed      == {u \in Admitted : CountedError(rows[u])}
Standing    == {u \in Admitted : Confirmed(rows[u])}
Unfinished  == {u \in Admitted : rows[u].stage = "incomplete"}
LeftAs(f)   == {u \in DOMAIN published \ Admitted : published[u].finding = f}
StayedIn(f) == {u \in Admitted : /\ rows[u].origin = f /\ rows[u].finding = f
                                 /\ rows[u].stage \in {"agreed", "disagreed"}}

LEMMA EnvelopeCounts ==
    ASSUME Enveloped
    PROVE  /\ metrics["vulnerable"] = Cardinality(Standing) /\ metrics["bypassable"] = 0
           /\ \A f \in {"inconclusive", "protected", "safe"} :
                 metrics[f] = Cardinality(FoundAs(f)) + Cardinality(LandedIn(f))
                                - Cardinality(MovedOut(f))
           /\ metrics["errors"] = Cardinality(FoundAs("error")) + Cardinality(Failed)
           /\ metrics["needs_review"] = Cardinality(Unfinished)
  <1> DEFINE m == Stage1Metrics(published)
  <1>1. PICK new : /\ DOMAIN new = Admitted /\ \A u \in Admitted : rows[u] = new[u]
                   /\ metrics = Envelope(m, new)
    BY DEF Enveloped
  <1>2. Count(new, Confirmed) = Cardinality(Standing)
    <2>1. {u \in DOMAIN new : Confirmed(new[u])} = Standing BY <1>1 DEF Standing
    <2> QED BY <2>1 DEF Count
  <1>3. Count(new, CountedError) = Cardinality(Failed)
    <2>1. {u \in DOMAIN new : CountedError(new[u])} = Failed BY <1>1 DEF Failed
    <2> QED BY <2>1 DEF Count
  <1>4. Count(new, LAMBDA r : r.stage = "incomplete") = Cardinality(Unfinished)
    <2>1. {u \in DOMAIN new : new[u].stage = "incomplete"} = Unfinished BY <1>1 DEF Unfinished
    <2> QED BY <2>1 DEF Count
  <1>5. ASSUME NEW f \in {"inconclusive", "protected", "safe"}
        PROVE  metrics[f] = Cardinality(FoundAs(f)) + Cardinality(LandedIn(f))
                                - Cardinality(MovedOut(f))
    <2>1. {u \in DOMAIN new : Landed(new[u], f)} = LandedIn(f) BY <1>1 DEF LandedIn
    <2>2. {u \in DOMAIN new : MovedFrom(new[u], f)} = MovedOut(f) BY <1>1 DEF MovedOut
    <2>3. metrics[f] = m[f] + Cardinality({u \in DOMAIN new : Landed(new[u], f)})
                            - Cardinality({u \in DOMAIN new : MovedFrom(new[u], f)})
      <3> HIDE DEF m
      <3> QED BY <1>1 DEF Envelope, Verdicts, Count
    <2>4. m[f] = Cardinality(FoundAs(f)) BY Stage1Columns DEF Verdicts
    <2> QED BY <2>1, <2>2, <2>3, <2>4
  <1>6. /\ metrics["vulnerable"] = Count(new, Confirmed) /\ metrics["bypassable"] = 0
        /\ metrics["errors"] = m["errors"] + Count(new, CountedError)
        /\ metrics["needs_review"] = Count(new, LAMBDA r : r.stage = "incomplete")
    <2> HIDE DEF m
    <2> QED BY <1>1 DEF Envelope, Verdicts
  <1> QED BY <1>2, <1>3, <1>4, <1>5, <1>6, Stage1Columns

\* Verify has replaced the rows of the admitted units.
LEMMA VerifiedAgrees ==
    ASSUME FlowInv, pc = "build", Verified, Enveloped, FreshVerdictsStand
    PROVE  Agreed
  <1>1. /\ DOMAIN rows = DOMAIN published /\ Admitted \subseteq DOMAIN published
        /\ IsFiniteSet(DOMAIN published)
    <2>1. DOMAIN published \subseteq Units BY DEF FlowInv, StoredTypes
    <2>2. IsFiniteSet(DOMAIN published) BY <2>1, FS_Subset, ScanAssumption
    <2> QED BY <2>2 DEF FlowInv, Progress, Settled, Admitted
  <1>2. ASSUME NEW u \in DOMAIN published \ Admitted
        PROVE  /\ rows[u] = published[u] /\ rows[u].stage = "stage1" /\ rows[u].origin = "none"
               /\ rows[u].finding \in Stage1Findings \ Positive
    <2>1. published[u] \in Stage1Rows /\ ~IsCandidate(published[u])
      BY DEF FlowInv, StoredTypes, Admitted
    <2> QED BY <2>1, Stage1Fields DEF Verified, IsCandidate
  <1>3. ASSUME NEW u \in Admitted
        PROVE  /\ rows[u].stage \in {"agreed", "disagreed", "incomplete", "error"}
               /\ published[u].finding \in Positive \cup {"inconclusive", "safe"}
               /\ rows[u].origin = OriginOf(published[u].finding)
               /\ rows[u].finding \in Findings
               /\ rows[u].rewritten => rows[u].origin = "none" /\ rows[u].finding \in Verdicts
               /\ ~rows[u].rewritten /\ rows[u].stage = "agreed" =>
                     rows[u].finding = published[u].finding
    <2>1. Judged(rows[u], published[u]) BY DEF Verified
    <2>2. IsCandidate(published[u]) BY DEF Admitted
    <2>3. Fresh(u) BY <1>1 DEF FreshVerdictsStand
    <2>4. rows[u].stage \in {"agreed", "disagreed", "incomplete", "error"}
      BY <2>1 DEF Judged, Row, Stages
    <2>5. ~rows[u].rewritten /\ rows[u].stage = "agreed" => rows[u].finding = published[u].finding
      BY <2>1, <2>3, <2>4 DEF Judged, Answer, Fresh
    <2>6. rows[u].finding \in Findings BY <2>1 DEF Judged, Row
    <2> QED BY <2>1, <2>2, <2>4, <2>5, <2>6 DEF Judged, IsCandidate
  <1>4. /\ IsFiniteSet(Standing) /\ IsFiniteSet(Failed) /\ IsFiniteSet(Unfinished)
        /\ \A f : /\ IsFiniteSet(LandedIn(f)) /\ IsFiniteSet(MovedOut(f)) /\ IsFiniteSet(LeftAs(f))
                  /\ IsFiniteSet(StayedIn(f)) /\ IsFiniteSet(BothIn(f)) /\ IsFiniteSet(In(f))
    <2>1. IsFiniteSet(Admitted) /\ IsFiniteSet(DOMAIN rows)
          /\ IsFiniteSet(DOMAIN published \ Admitted)
      BY <1>1, FS_Subset
    <2> QED BY <2>1, FS_Subset DEF Standing, Failed, Unfinished, LandedIn, MovedOut, LeftAs,
                                   StayedIn, BothIn, In
  <1>5. \A f : BothIn(f) = {u \in Admitted : rows[u].origin = f /\ rows[u].stage = "incomplete"}
    BY <1>1, <1>2 DEF BothIn
  <1>6. metrics["vulnerable"] + metrics["bypassable"]
          = Cardinality(In("vulnerable")) + Cardinality(In("bypassable"))
    <2>1. Standing = In("vulnerable") \cup In("bypassable")
      <3>1. \A u \in DOMAIN published \ Admitted : u \notin In("vulnerable") \cup In("bypassable")
        BY <1>2 DEF In, Column, Positive, Verdicts, Stage1Findings
      <3>2. \A u \in Admitted : Confirmed(rows[u]) <=> Column(rows[u]) \in Positive
        BY <1>3 DEF Confirmed, Column, Positive, Verdicts
      <3> QED BY <1>1, <3>1, <3>2 DEF In, Standing, Positive
    <2>2. \A u \in In("vulnerable") : u \notin In("bypassable") BY DEF In
    <2>3. /\ Cardinality(Standing) = Cardinality(In("vulnerable")) + Cardinality(In("bypassable"))
          /\ Cardinality(Standing) \in Nat
      BY <1>4, <2>1, <2>2, DisjointSum, FS_CardinalityType
    <2> QED BY <2>3, EnvelopeCounts
  <1>7. metrics["needs_review"] = Cardinality(In("needs_review"))
    <2>1. Unfinished = In("needs_review")
      <3>1. \A u \in DOMAIN published \ Admitted : Column(rows[u]) # "needs_review"
        BY <1>2 DEF Column, Verdicts
      <3>2. \A u \in Admitted : rows[u].stage = "incomplete" <=> Column(rows[u]) = "needs_review"
        BY <1>3 DEF Column, Verdicts
      <3> QED BY <1>1, <3>1, <3>2 DEF In, Unfinished
    <2> QED BY <2>1, EnvelopeCounts
  <1>8. metrics["errors"] = Cardinality(In("errors"))
    <2>1. FoundAs("error") = LeftAs("error")
      BY <1>1, <1>3 DEF FoundAs, LeftAs, Positive
    <2>2. In("errors") = LeftAs("error") \cup Failed
      <3>1. \A u \in DOMAIN published \ Admitted :
               Column(rows[u]) = "errors" <=> published[u].finding = "error"
        BY <1>2 DEF Column, Verdicts, Stage1Findings
      <3>2. \A u \in Admitted : CountedError(rows[u]) <=> Column(rows[u]) = "errors"
        BY <1>3 DEF CountedError, Column, Verdicts
      <3> QED BY <1>1, <3>1, <3>2 DEF In, Failed, LeftAs
    <2>3. \A u \in LeftAs("error") : u \notin Failed BY DEF LeftAs, Failed
    <2>4. Cardinality(In("errors")) = Cardinality(LeftAs("error")) + Cardinality(Failed)
      <3>1. IsFiniteSet(LeftAs("error")) /\ IsFiniteSet(Failed) BY <1>4
      <3>2. Cardinality(LeftAs("error") \cup Failed)
              = Cardinality(LeftAs("error")) + Cardinality(Failed)
        BY ONLY <2>3, <3>1, DisjointSum
      <3> QED BY <2>2, <3>2
    <2> QED BY <2>1, <2>4, EnvelopeCounts
  <1>9. metrics["protected"] = Cardinality(In("protected"))
    <2>1. FoundAs("protected") = LeftAs("protected")
      BY <1>1, <1>3 DEF FoundAs, LeftAs, Positive
    <2>2. In("protected") = LeftAs("protected") \cup LandedIn("protected")
      <3>1. \A u \in DOMAIN published \ Admitted :
               Column(rows[u]) = "protected" <=> published[u].finding = "protected"
        BY <1>2 DEF Column, Verdicts, Stage1Findings
      <3>2. \A u \in Admitted : Landed(rows[u], "protected") <=> Column(rows[u]) = "protected"
        BY <1>3 DEF Landed, Column, Verdicts, Positive, OriginOf
      <3> QED BY <1>1, <3>1, <3>2 DEF In, LandedIn, LeftAs
    <2>3. MovedOut("protected") = {} BY <1>3 DEF MovedOut, MovedFrom, OriginOf
    <2>4. \A u \in LeftAs("protected") : u \notin LandedIn("protected") BY DEF LeftAs, LandedIn
    <2>5. metrics["protected"] = Cardinality(LeftAs("protected"))
                                   + Cardinality(LandedIn("protected")) - 0
      BY <2>1, <2>3, EnvelopeCounts, FS_EmptySet
    <2>6. /\ IsFiniteSet(LeftAs("protected")) /\ IsFiniteSet(LandedIn("protected")) BY <1>4
    <2>7. /\ Cardinality(LeftAs("protected") \cup LandedIn("protected"))
               = Cardinality(LeftAs("protected")) + Cardinality(LandedIn("protected"))
          /\ Cardinality(LeftAs("protected")) \in Nat /\ Cardinality(LandedIn("protected")) \in Nat
      BY ONLY <2>4, <2>6, DisjointSum
    <2>8. metrics["protected"] = Cardinality(LeftAs("protected"))
                                   + Cardinality(LandedIn("protected"))
      BY ONLY <2>5, <2>7, SMT
    <2> QED BY ONLY <2>2, <2>7, <2>8, Zenon
  <1>10. ASSUME NEW f \in {"inconclusive", "safe"}
         PROVE  metrics[f] = Cardinality(In(f)) + Cardinality(BothIn(f))
    <2> DEFINE N == LeftAs(f)  L == LandedIn(f)  M == MovedOut(f)
               B == BothIn(f)  S == StayedIn(f)
    <2>1. FoundAs(f) = N \cup (M \cup (B \cup S))
      <3>1. \A u \in Admitted : rows[u].origin = f <=> published[u].finding = f
        BY <1>3 DEF OriginOf
      <3>2. \A u \in Admitted : rows[u].origin = f <=> u \in M \cup (B \cup S)
        BY <1>3, <1>5 DEF MovedOut, MovedFrom, StayedIn
      <3>3. M \cup (B \cup S) \subseteq Admitted BY <1>5 DEF MovedOut, StayedIn
      <3> HIDE DEF M, B, S
      <3> QED BY <1>1, <3>1, <3>2, <3>3 DEF FoundAs, LeftAs
    <2>2. In(f) = N \cup (L \cup S)
      <3>1. \A u \in DOMAIN published \ Admitted : Column(rows[u]) = f <=> published[u].finding = f
        BY <1>2 DEF Column, Verdicts, Stage1Findings
      <3>2. \A u \in Admitted : Column(rows[u]) = f <=>
               rows[u].finding = f /\ rows[u].stage \in {"agreed", "disagreed"}
        BY <1>3 DEF Column, Verdicts
      <3>3. \A u \in Admitted :
               (rows[u].finding = f /\ rows[u].stage \in {"agreed", "disagreed"})
                  <=> u \in L \cup S
        BY <1>3 DEF LandedIn, Landed, StayedIn, OriginOf
      <3>4. L \cup S \subseteq Admitted BY DEF LandedIn, StayedIn
      <3> HIDE DEF L, S
      <3> QED BY <1>1, <3>1, <3>2, <3>3, <3>4 DEF In, LeftAs
    <2>3. /\ \A u \in N : u \notin M \cup (B \cup S) /\ u \notin L \cup S
          /\ \A u \in M : u \notin B \cup S
          /\ \A u \in B : u \notin S
          /\ \A u \in L : u \notin S
      BY <1>3, <1>5 DEF LeftAs, LandedIn, Landed, MovedOut, MovedFrom, StayedIn
    <2>4. /\ IsFiniteSet(N) /\ IsFiniteSet(L) /\ IsFiniteSet(M) /\ IsFiniteSet(B) /\ IsFiniteSet(S)
      BY <1>4
    <2>5. metrics[f] = Cardinality(FoundAs(f)) + Cardinality(L) - Cardinality(M)
      BY EnvelopeCounts
    <2> HIDE DEF N, L, M, B, S
    <2>6. /\ Cardinality(N) \in Nat /\ Cardinality(L) \in Nat /\ Cardinality(M) \in Nat
          /\ Cardinality(B) \in Nat /\ Cardinality(S) \in Nat
      BY <2>4, FS_CardinalityType
    <2>7. IsFiniteSet(B \cup S) /\ Cardinality(B \cup S) = Cardinality(B) + Cardinality(S)
      BY <2>3, <2>4, DisjointSum
    <2>8. /\ IsFiniteSet(M \cup (B \cup S))
          /\ Cardinality(M \cup (B \cup S)) = Cardinality(M) + Cardinality(B \cup S)
      BY <2>3, <2>4, <2>7, DisjointSum
    <2>9. Cardinality(FoundAs(f)) = Cardinality(N) + Cardinality(M \cup (B \cup S))
      BY <2>1, <2>3, <2>4, <2>8, DisjointSum
    <2>10. IsFiniteSet(L \cup S) /\ Cardinality(L \cup S) = Cardinality(L) + Cardinality(S)
      BY <2>3, <2>4, DisjointSum
    <2>11. Cardinality(In(f)) = Cardinality(N) + Cardinality(L \cup S)
      BY <2>2, <2>3, <2>4, <2>10, DisjointSum
    <2>12. metrics[f] = Cardinality(In(f)) + Cardinality(B)
      BY <2>5, <2>6, <2>7, <2>8, <2>9, <2>10, <2>11
    <2> QED BY <2>12 DEF B
  <1> QED BY <1>6, <1>7, <1>8, <1>9, <1>10 DEF Agreed

\* The totals the scan reports are those of the files they point to: the
\* envelope's verdict columns and the recount of results_verified.json
\* (core/scanner.py, _post_verify_metrics, and core/verifier.py), units_count
\* and the dataset, the skipped steps and their step reports.
THEOREM EnvelopeTrue == Spec => []EnvelopeAgrees
  <1>1. FlowInv /\ MetricsInv => MetricsAgree
    BY UnverifiedAgrees, VerifiedAgrees, AgreedIs DEF MetricsInv, MetricsAgree
  <1>2. SkipInv => SkipsTold
    <2> SUFFICES ASSUME SkipInv, ended = "done" PROVE SkipsTold
      BY DEF SkipsTold
    <2>1. pc = "idle" BY DEF SkipInv
    <2> QED BY <2>1 DEF SkipInv, SkipsTold, Past
  <1>3. Init => MetricsInv /\ SkipInv /\ CountDescribesDataset
    BY DEF Init, MetricsInv, SkipInv, CountDescribesDataset, Places, Optional
  <1>4. MetricsAgree /\ SkipsTold /\ CountDescribesDataset => EnvelopeAgrees
    BY DEF EnvelopeAgrees
  <1> QED BY <1>1, <1>2, <1>3, <1>4, MetricsStep, SkipStep, CountStep, FlowAlways, PTL DEF Spec
==============================================================================
