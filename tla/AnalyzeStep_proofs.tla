------------------------- MODULE AnalyzeStep_proofs -------------------------
(***************************************************************************)
(* What the analyze step guarantees, for any number of units, threads,     *)
(* backends, datasets and runs, in four parts.  A checkpoint directory     *)
(* and a report speak for one backend.  What the main thread has counted   *)
(* is on disk.  Nothing settled is paid for again, which rests on one fact *)
(* about the hand-over of units: from the queue to a thread, to a future,  *)
(* to the results, a unit is always in exactly one place.  And of all of   *)
(* it, the step implements VerdictStore.                                   *)
(***************************************************************************)
EXTENDS AnalyzeRefinement, FiniteSetTheorems, TLAPS

\* A run that has started has a dataset and a backend.
Started == pc # "idle" => dataset \in Datasets /\ fp \in Backends

\* A unit of the dataset is in the queue, with a thread, in a future, or done.
InHand(u) == \/ u \in pending
             \/ \E w \in Workers : worker[w].unit = u
             \/ \E f \in finished : f.unit = u
             \/ results[u] # NoRow

NoneForgotten ==
    /\ pc = "detect" => \A u \in Scope : InHand(u)
    /\ pc \in {"retry", "retrySave", "publish"} => \A u \in Scope : results[u] # NoRow

RetryingUnit == pc = "retrySave" => retrying \in Units

\* Threads hold units only while the pool is alive.
AtWork == (\E w \in Workers : worker[w].unit # NoUnit) => pc \in {"detect", "abort"}

TypeInv == TypeOK /\ Started /\ NoneForgotten /\ RetryingUnit /\ AtWork

\* The values of rows, datasets and replies, from the assumption on constants.
LEMMA ReplyTyped ==
    ASSUME TypeInv, pc # "idle", NEW u \in Units, NEW row \in Replies(u)
    PROVE  row \in Rows /\ row # NoRow /\ row.fp = fp
  <1>1. dataset \in Datasets /\ fp \in Backends
    BY DEF TypeInv, Started
  <1>2. dataset.cls[u] \in Classes
    BY <1>1, ConstantsAssumption
  <1> QED
    BY <1>1, <1>2, ConstantsAssumption DEF Replies, Rows, Classes

LEMMA ScopeTyped ==
    ASSUME TypeInv, pc # "idle"
    PROVE  Scope \subseteq Units
  BY ConstantsAssumption DEF TypeInv, Started, Scope

\* A set of units of the dataset has a number of elements.
LEMMA CountTyped ==
    ASSUME TypeInv, pc # "idle", NEW S, S \subseteq Scope
    PROVE  Cardinality(S) \in Nat
  <1>1. S \subseteq Units BY ScopeTyped
  <1>2. IsFiniteSet(S) BY <1>1, ConstantsAssumption, FS_Subset
  <1> QED BY <1>2, FS_CardinalityType

LEMMA ReportTyped ==
    ASSUME NEW S \in SUBSET Units, NEW b \in Backends \cup {Legacy},
           NEW f \in [S -> Backends \cup {Legacy}]
    PROVE  [fp |-> b, by |-> f] \in Reports
  <1> DEFINE Over(T) == [fp : Backends \cup {Legacy}, by : [T -> Backends \cup {Legacy}]]
  <1>1. [fp |-> b, by |-> f] \in Over(S) OBVIOUS
  <1>2. Over(S) \in {Over(T) : T \in SUBSET Units} OBVIOUS
  <1> QED BY <1>1, <1>2 DEF Reports

LEMMA TypeInit == Init => TypeInv
  <1> SUFFICES ASSUME Init PROVE TypeInv OBVIOUS
  <1> USE ConstantsAssumption
  <1>1. PICK L \in LegacySets :
           /\ ckpt = [u \in Units |-> IF u \in L THEN LegacyRow ELSE NoRow]
           /\ report \in {NoReport, [fp |-> Legacy, by |-> [u \in L |-> Legacy]]}
    BY DEF Init
  <1>2. LegacyRow \in Rows BY DEF LegacyRow, Rows, Classes
  <1>3. ckpt \in [Units -> Rows \cup {NoRow}] BY <1>1, <1>2
  <1>4. L \in SUBSET Units BY <1>1
  <1>5. [u \in L |-> Legacy] \in [L -> Backends \cup {Legacy}] OBVIOUS
  <1>6. report \in Reports \cup {NoReport} BY <1>1, <1>4, <1>5, ReportTyped
  <1>7. TypeOK BY <1>3, <1>6 DEF Init, TypeOK, NoRows, IdleWorker
  <1>8. Started /\ NoneForgotten /\ RetryingUnit /\ AtWork
    BY DEF Init, Started, NoneForgotten, RetryingUnit, AtWork, IdleWorker
  <1> QED BY <1>7, <1>8 DEF TypeInv

LEMMA GoneTyped ==
    ASSUME TypeInv, ProcessGone, UNCHANGED runs,
           sidecar' \in Backends \cup {NoSidecar, Corrupt},
           ckpt' \in [Units -> Rows \cup {NoRow}],
           archive' \subseteq Units \X Rows,
           summary' \in Summaries \cup {NoSummary},
           report' \in Reports \cup {NoReport},
           oldReports' \subseteq Reports
    PROVE  TypeInv'
  <1>1. TypeOK' BY DEF TypeInv, TypeOK, ProcessGone, NoRows, IdleWorker
  <1>2. Started' /\ NoneForgotten' /\ RetryingUnit' /\ AtWork'
    BY DEF ProcessGone, Started, NoneForgotten, RetryingUnit, AtWork, IdleWorker
  <1> QED BY <1>1, <1>2 DEF TypeInv

\* A thread that ends its future leaves no unit behind.
LEMMA FutureDone ==
    ASSUME TypeInv, NEW w \in Workers, NEW out,
           finished' = finished \cup {[unit |-> worker[w].unit, out |-> out]},
           worker' = [worker EXCEPT ![w] = IdleWorker],
           UNCHANGED <<pc, dataset, pending, results>>
    PROVE  NoneForgotten'
  <1>1. worker \in [Workers -> [unit : Units \cup {NoUnit}, row : Rows \cup {NoRow}]]
    BY DEF TypeInv, TypeOK
  <1>2. ASSUME NEW v, InHand(v) PROVE InHand(v)'
    <2>1. ASSUME NEW x \in Workers, worker[x].unit = v
          PROVE  \/ worker'[x].unit = v
                 \/ \E f \in finished' : f.unit = v
      <3>1. CASE x = w
        <4> DEFINE last == [unit |-> worker[w].unit, out |-> out]
        <4>1. last \in finished' /\ last.unit = v BY <2>1, <3>1
        <4> QED BY <4>1
      <3>2. CASE x # w
        BY <1>1, <2>1, <3>2
      <3> QED BY <3>1, <3>2
    <2> QED BY <1>2, <2>1 DEF InHand
  <1> QED BY <1>2 DEF TypeInv, NoneForgotten, Scope

\* What Publish writes is a report, about units of the dataset.
LEMMA PublishedIsReport ==
    ASSUME TypeInv, Publish PROVE report' \in Reports /\ report' # NoReport
  <1> DEFINE Answered(P) == P \cup {u \in Scope : ~IsError(results[u])}
  <1>0. TypeOK /\ NoneForgotten BY DEF TypeInv
  <1>1. PICK promoted \in SUBSET {u \in Scope : IsError(results[u])} :
           report' = [fp |-> fp, by |-> [u \in Answered(promoted) |-> results[u].fp]]
    BY DEF Publish
  <1>2. Answered(promoted) \in SUBSET Units
    BY ScopeTyped DEF Publish
  <1>3. \A u \in Answered(promoted) : results[u].fp \in Backends \cup {Legacy}
    <2>1. \A u \in Scope : results[u] \in Rows
      BY <1>0, ScopeTyped DEF Publish, NoneForgotten, TypeOK
    <2> QED BY <2>1 DEF Rows
  <1>4. report' \in Reports
    <2>1. [u \in Answered(promoted) |-> results[u].fp]
            \in [Answered(promoted) -> Backends \cup {Legacy}]
      BY <1>3
    <2>2. fp \in Backends \cup {Legacy} BY <1>0 DEF TypeOK
    <2> HIDE DEF Answered
    <2> QED BY <1>1, <1>2, <2>1, <2>2, ReportTyped
  <1> QED BY <1>4, ConstantsAssumption DEF Reports

LEMMA TypeStep == TypeInv /\ [Next]_vars => TypeInv'
  <1> SUFFICES ASSUME TypeInv, [Next]_vars PROVE TypeInv'
    OBVIOUS
  <1> USE DEF TypeInv
  <1>0. /\ TypeOK /\ Started /\ NoneForgotten /\ RetryingUnit /\ AtWork
    OBVIOUS
  <1>1. ASSUME NEW d \in Datasets, NEW b \in Backends, StartRun(d, b)
        PROVE  TypeInv'
    BY <1>0, <1>1, ConstantsAssumption
    DEF StartRun, disk, TypeOK, Started, NoneForgotten, RetryingUnit, AtWork
  <1>2. CASE AdoptDirectory
    BY <1>0, <1>2
    DEF AdoptDirectory, process, TypeOK, Started, NoneForgotten, RetryingUnit, AtWork
  <1>3. CASE ArchiveDirectory
    <2>1. ckpt' \in [Units -> Rows \cup {NoRow}]
      BY <1>3 DEF ArchiveDirectory, NoRows
    <2>2. archive' \subseteq Units \X Rows
      BY <1>0, <1>3 DEF ArchiveDirectory, TypeOK
    <2> QED
      BY <1>0, <1>3, <2>1, <2>2
      DEF ArchiveDirectory, process, TypeOK, Started, NoneForgotten, RetryingUnit, AtWork
  <1>4. CASE StampFresh
    BY <1>0, <1>4
    DEF StampFresh, process, TypeOK, Started, NoneForgotten, RetryingUnit, AtWork
  <1>5. CASE PreserveReport
    BY <1>0, <1>5
    DEF PreserveReport, OtherReport, process, TypeOK, Started, NoneForgotten,
        RetryingUnit, AtWork
  <1>6. CASE Seed
    <2> DEFINE Kept == {u \in Scope : Adoptable(u)}
    <2>1. Cardinality(Kept) \in Nat /\ Cardinality(Scope) \in Nat
      BY <1>6, CountTyped DEF Seed
    <2>2. summary' \in Summaries
      BY <1>6, <2>1 DEF Seed, SummaryOf, Summaries
    <2> QED
      BY <1>0, <1>6, <2>1, <2>2
      DEF Seed, TypeOK, Started, NoneForgotten, RetryingUnit, AtWork
  <1>7. CASE BuildQueue
    <2>1. Scope \subseteq Units BY <1>7, ScopeTyped DEF BuildQueue
    <2>2. results' \in [Units -> Rows \cup {NoRow}]
      BY <1>0, <1>7 DEF BuildQueue, TypeOK
    <2>3. \A u \in Scope : u \in pending' \/ results'[u] # NoRow
      BY <1>7, <2>1 DEF BuildQueue, Adoptable
    <2>4. Scope' = Scope BY <1>7 DEF BuildQueue, Scope
    <2>5. NoneForgotten' BY <1>7, <2>3, <2>4 DEF BuildQueue, NoneForgotten, InHand
    <2> QED
      BY <1>0, <1>7, <2>1, <2>2, <2>5
      DEF BuildQueue, disk, TypeOK, Started, RetryingUnit, AtWork
  <1>8. ASSUME NEW w \in Workers, WorkerTake(w) PROVE TypeInv'
    <2>1. PICK u \in pending :
             /\ pending' = pending \ {u}
             /\ worker' = [worker EXCEPT ![w] = [unit |-> u, row |-> NoRow]]
             /\ calls' = [calls EXCEPT ![u] = @ + 1]
      BY <1>8 DEF WorkerTake
    <2>2. worker' \in [Workers -> [unit : Units \cup {NoUnit}, row : Rows \cup {NoRow}]]
      BY <1>0, <2>1 DEF TypeOK
    <2>3. calls' \in [Units -> Nat] BY <1>0, <2>1 DEF TypeOK
    <2>4. ASSUME NEW v \in Scope, InHand(v), pc = "detect" PROVE InHand(v)'
      <3>1. v = u => worker'[w].unit = v BY <1>0, <2>1 DEF TypeOK
      <3>2. ASSUME NEW x \in Workers, worker[x].unit = v PROVE worker'[x].unit = v
        <4>1. v # NoUnit BY ScopeTyped, ConstantsAssumption, <2>4
        <4>2. x # w BY <1>8, <3>2, <4>1 DEF WorkerTake, IdleWorker
        <4> QED BY <1>0, <2>1, <3>2, <4>2 DEF TypeOK
      <3> QED BY <1>8, <2>1, <2>4, <3>1, <3>2 DEF WorkerTake, InHand
    <2>5. NoneForgotten'
      BY <1>0, <1>8, <2>4 DEF WorkerTake, NoneForgotten, Scope
    <2> QED
      BY <1>0, <1>8, <2>1, <2>2, <2>3, <2>5
      DEF WorkerTake, disk, TypeOK, Started, RetryingUnit, AtWork
  <1>9. ASSUME NEW w \in Workers, WorkerReply(w) PROVE TypeInv'
    <2>1. PICK row \in Replies(worker[w].unit) :
             worker' = [worker EXCEPT ![w].row = row]
      BY <1>9 DEF WorkerReply
    <2>2. worker[w].unit \in Units /\ pc # "idle"
      BY <1>0, <1>9 DEF WorkerReply, Calling, TypeOK, AtWork
    <2>3. row \in Rows BY <2>1, <2>2, ReplyTyped
    <2>4. worker' \in [Workers -> [unit : Units \cup {NoUnit}, row : Rows \cup {NoRow}]]
      BY <1>0, <2>1, <2>3 DEF TypeOK
    <2>5. \A x \in Workers : worker'[x].unit = worker[x].unit
      BY <1>0, <2>1 DEF TypeOK
    <2>6. NoneForgotten' /\ AtWork'
      BY <1>0, <1>9, <2>5 DEF WorkerReply, NoneForgotten, InHand, Scope, AtWork
    <2> QED
      BY <1>0, <1>9, <2>4, <2>6 DEF WorkerReply, disk, TypeOK, Started, RetryingUnit
  <1>10. ASSUME NEW w \in Workers, WorkerRejected(w) PROVE TypeInv'
    <2>1. NoneForgotten' BY <1>10, FutureDone DEF WorkerRejected
    <2>2. worker[w].unit \in Units BY <1>0, <1>10 DEF WorkerRejected, Calling, TypeOK
    <2> QED
      BY <1>0, <1>10, <2>1, <2>2
      DEF WorkerRejected, disk, IdleWorker, TypeOK, Started, RetryingUnit, AtWork
  <1>11. ASSUME NEW w \in Workers, WorkerSave(w) PROVE TypeInv'
    <2>1. NoneForgotten' BY <1>11, FutureDone DEF WorkerSave
    <2>2. worker[w].unit \in Units /\ worker[w].row \in Rows
      BY <1>0, <1>11 DEF WorkerSave, Saving, TypeOK
    <2> QED
      BY <1>0, <1>11, <2>1, <2>2
      DEF WorkerSave, IdleWorker, TypeOK, Started, RetryingUnit, AtWork
  <1>12. ASSUME NEW w \in Workers, WorkerSaveFails(w) PROVE TypeInv'
    <2>1. NoneForgotten' BY <1>12, FutureDone DEF WorkerSaveFails
    <2>2. worker[w].unit \in Units BY <1>0, <1>12 DEF WorkerSaveFails, Saving, TypeOK
    <2> QED
      BY <1>0, <1>12, <2>1, <2>2
      DEF WorkerSaveFails, disk, IdleWorker, TypeOK, Started, RetryingUnit, AtWork
  <1>13. ASSUME NEW f \in finished, Consume(f) PROVE TypeInv'
    <2>1. f.unit \in Units /\ f.out \in Rows /\ f.out # NoRow
      BY <1>0, <1>13, ConstantsAssumption DEF Consume, TypeOK
    <2>2. completed' \in Nat /\ errors' \in Nat
      BY <1>0, <1>13 DEF Consume, CountOutcome, TypeOK
    <2>3. summary' \in Summaries
      <3>1. Cardinality(Scope) \in Nat BY <1>13, CountTyped DEF Consume
      <3> QED BY <1>13, <2>2, <3>1 DEF Consume, SummaryOf, Summaries
    <2>4. ASSUME NEW v \in Scope, InHand(v) PROVE InHand(v)'
      BY <1>0, <1>13, <2>1, <2>4 DEF Consume, InHand, TypeOK
    <2>5. NoneForgotten'
      BY <1>0, <1>13, <2>4 DEF Consume, NoneForgotten, Scope
    <2> QED
      BY <1>0, <1>13, <2>1, <2>2, <2>3, <2>5
      DEF Consume, TypeOK, Started, RetryingUnit, AtWork
  <1>14. CASE CancelPending /\ pc = "detect"
    BY <1>0, <1>14
    DEF CancelPending, disk, TypeOK, Started, NoneForgotten, RetryingUnit, AtWork
  <1>15. ASSUME NEW f \in finished, ConsumeFailed(f) PROVE TypeInv'
    BY <1>0, <1>15
    DEF ConsumeFailed, disk, process, TypeOK, Started, NoneForgotten,
        RetryingUnit, AtWork
  <1>16. CASE AbortExit
    BY <1>0, <1>16, GoneTyped DEF AbortExit, disk, TypeOK
  <1>17. CASE DetectDone
    <2>1. \A u \in Scope : results[u] # NoRow
      <3> SUFFICES ASSUME NEW u \in Scope, results[u] = NoRow PROVE FALSE
        OBVIOUS
      <3>1. u # NoUnit
        BY <1>17, ScopeTyped, ConstantsAssumption DEF DetectDone
      <3>2. InHand(u) BY <1>0, <1>17 DEF DetectDone, NoneForgotten
      <3> QED BY <1>17, <3>1, <3>2 DEF DetectDone, PoolIdle, InHand, IdleWorker
    <2>2. Scope \subseteq Units BY <1>17, ScopeTyped DEF DetectDone
    <2>3. NoneForgotten' BY <1>17, <2>1 DEF DetectDone, NoneForgotten, Scope
    <2> QED
      BY <1>0, <1>17, <2>2, <2>3
      DEF DetectDone, PoolIdle, IdleWorker, disk, TypeOK, Started, RetryingUnit, AtWork
  <1>18. ASSUME NEW u \in Units, RetryUnit(u) PROVE TypeInv'
    <2>1. PICK row \in Replies(u) :
             results' = [results EXCEPT ![u] = row] /\ CountRetry(row)
      BY <1>18 DEF RetryUnit
    <2>2. row \in Rows /\ row # NoRow BY <1>18, ReplyTyped DEF RetryUnit
    <2>3. completed' \in Nat /\ errors' \in Nat
      BY <1>0, <1>18, <2>1 DEF RetryUnit, CountRetry, TypeOK
    <2>4. summary' \in Summaries
      <3>1. Cardinality(Scope) \in Nat BY <1>18, CountTyped DEF RetryUnit
      <3> QED BY <1>18, <2>3, <3>1 DEF RetryUnit, SummaryOf, Summaries
    <2>5. NoneForgotten'
      BY <1>0, <1>18, <2>1, <2>2 DEF RetryUnit, NoneForgotten, Scope, TypeOK
    <2> QED
      BY <1>0, <1>18, <2>1, <2>2, <2>3, <2>4, <2>5
      DEF RetryUnit, TypeOK, Started, RetryingUnit, AtWork
  <1>19. CASE RetrySave
    BY <1>0, <1>19
    DEF RetrySave, TypeOK, Started, NoneForgotten, RetryingUnit, AtWork, Scope
  <1>20. CASE FinishSummary
    <2>1. Cardinality(Scope) \in Nat BY <1>20, CountTyped DEF FinishSummary
    <2>2. summary' \in Summaries
      BY <1>0, <1>20, <2>1 DEF FinishSummary, SummaryOf, Summaries, TypeOK
    <2> QED
      BY <1>0, <1>20, <2>2
      DEF FinishSummary, process, TypeOK, Started, NoneForgotten, RetryingUnit,
          AtWork, Scope
  <1>21. CASE Publish
    <2>4. report' \in Reports BY <1>21, PublishedIsReport
    <2> QED BY <1>0, <1>21, <2>4, GoneTyped DEF Publish, TypeOK
  <1>22. CASE Crash
    BY <1>0, <1>22, GoneTyped DEF Crash, disk, TypeOK
  <1>23. CASE DamageSidecar
    BY <1>0, <1>23
    DEF DamageSidecar, process, TypeOK, Started, NoneForgotten, RetryingUnit,
        AtWork, Scope
  <1>24. CASE UNCHANGED vars
    BY <1>0, <1>24
    DEF vars, disk, process, TypeOK, Started, NoneForgotten, InHand,
        RetryingUnit, AtWork, Scope
  <1> QED
    BY <1>1, <1>2, <1>3, <1>4, <1>5, <1>6, <1>7, <1>8, <1>9, <1>10, <1>11,
       <1>12, <1>13, <1>14, <1>15, <1>16, <1>17, <1>18, <1>19, <1>20, <1>21,
       <1>22, <1>23, <1>24
    DEF Next, MainStep, ConsumeStep, ConsumeRejected, WorkerStep, Environment,
        Interrupt

\* Every variable keeps its type, and no unit of the dataset drops out of a
\* run between the queue and the report.
THEOREM TypeCorrect == Spec => [](TypeOK /\ NoneForgotten)
  <1>1. TypeInv => TypeOK /\ NoneForgotten BY DEF TypeInv
  <1> QED BY <1>1, TypeInit, TypeStep, PTL DEF Spec

-----------------------------------------------------------------------------
(* No backend's verdicts are taken for another's.  The invariant follows   *)
(* the identity from the sidecar to the rows of the directory, from there  *)
(* into the memory of the run the gate let through, and into the reports.  *)

\* Past the gate, the directory is stamped with the run's own backend.
GatePassed ==
    /\ pc \notin {"idle", "identity", "stamp"} => sidecar = fp
    /\ pc = "stamp" => sidecar = NoSidecar

\* Without a stamp there are only rows of unknown origin.
UnstampedIsLegacy ==
    sidecar = NoSidecar =>
        \A u \in Units : ckpt[u] # NoRow => ckpt[u].fp = Legacy

\* What the process holds comes from its own backend, or was adopted.
OwnRows ==
    /\ \A w \in Workers : worker[w].row # NoRow => worker[w].row.fp = fp
    /\ \A f \in finished : f.out \in Rows => f.out.fp = fp
    /\ \A u \in Units : results[u] # NoRow => results[u].fp \in {fp, Legacy}

\* Between runs the process holds nothing.
Between ==
    pc = "idle" => /\ \A w \in Workers : worker[w] = IdleWorker
                   /\ finished = {} /\ results = NoRows

IdentityInv ==
    /\ GatePassed /\ UnstampedIsLegacy /\ OwnRows /\ Between
    /\ OneBackendPerDirectory /\ ReportsSpeakForTheirBackend

LEMMA IdentityInit == Init => IdentityInv
  BY ConstantsAssumption
  DEF Init, IdentityInv, GatePassed, UnstampedIsLegacy, OwnRows, Between,
      OneBackendPerDirectory, ReportsSpeakForTheirBackend, LegacyRow, NoRows,
      IdleWorker

\* The end of a process, however it ends, keeps the identity of the directory.
LEMMA GoneKeepsIdentity ==
    ASSUME IdentityInv, ProcessGone, UNCHANGED <<sidecar, ckpt>>,
           ReportsSpeakForTheirBackend'
    PROVE  IdentityInv'
  BY DEF IdentityInv, ProcessGone, GatePassed, UnstampedIsLegacy, OwnRows,
         Between, OneBackendPerDirectory, NoRows, IdleWorker

\* Steps that leave directory, reports and backend alone.
LEMMA MemoryOnly ==
    ASSUME IdentityInv, UNCHANGED <<sidecar, ckpt, report, oldReports, fp>>,
           pc \notin {"idle", "identity", "stamp"},
           pc' \notin {"idle", "identity", "stamp"},
           OwnRows'
    PROVE  IdentityInv'
  BY DEF IdentityInv, GatePassed, UnstampedIsLegacy, Between,
         OneBackendPerDirectory, ReportsSpeakForTheirBackend

LEMMA IdentityStep == TypeInv /\ IdentityInv /\ [Next]_vars => IdentityInv'
  <1> SUFFICES ASSUME TypeInv, IdentityInv, [Next]_vars PROVE IdentityInv'
    OBVIOUS
  <1>0. /\ TypeOK /\ Started /\ AtWork
        /\ GatePassed /\ UnstampedIsLegacy /\ OwnRows /\ Between
        /\ OneBackendPerDirectory /\ ReportsSpeakForTheirBackend
    BY DEF TypeInv, IdentityInv
  <1>1. ASSUME NEW d \in Datasets, NEW b \in Backends, StartRun(d, b)
        PROVE  IdentityInv'
    BY <1>0, <1>1
    DEF StartRun, disk, IdentityInv, GatePassed, UnstampedIsLegacy, OwnRows,
        Between, OneBackendPerDirectory, ReportsSpeakForTheirBackend, NoRows,
        IdleWorker
  <1>2. CASE AdoptDirectory
    <2>1. fp \in Backends /\ NoSidecar \notin Backends
      BY <1>0, <1>2, ConstantsAssumption DEF AdoptDirectory, Started
    <2>2. \A u \in Units : ckpt[u] # NoRow => ckpt[u].fp \in {fp, Legacy}
      BY <1>0, <1>2, <2>1 DEF AdoptDirectory, UnstampedIsLegacy, OneBackendPerDirectory
    <2> QED
      BY <1>0, <1>2, <2>1, <2>2
      DEF AdoptDirectory, process, IdentityInv, GatePassed, UnstampedIsLegacy,
          OwnRows, Between, OneBackendPerDirectory, ReportsSpeakForTheirBackend
  <1>3. CASE ArchiveDirectory
    <2>1. \A u \in Units : ckpt'[u] = NoRow BY <1>3 DEF ArchiveDirectory, NoRows
    <2> QED
      BY <1>0, <1>3, <2>1
      DEF ArchiveDirectory, process, IdentityInv, GatePassed, UnstampedIsLegacy,
          OwnRows, Between, OneBackendPerDirectory, ReportsSpeakForTheirBackend
  <1>4. CASE StampFresh
    BY <1>0, <1>4, ConstantsAssumption
    DEF StampFresh, process, Started, IdentityInv, GatePassed, UnstampedIsLegacy,
        OwnRows, Between, OneBackendPerDirectory, ReportsSpeakForTheirBackend
  <1>5. CASE PreserveReport
    <2>1. ReportsSpeakForTheirBackend'
      BY <1>0, <1>5 DEF PreserveReport, OtherReport, ReportsSpeakForTheirBackend
    <2> QED
      BY <1>0, <1>5, <2>1
      DEF PreserveReport, process, IdentityInv, GatePassed, UnstampedIsLegacy,
          OwnRows, Between, OneBackendPerDirectory
  <1>6. CASE Seed
    <2>1. OwnRows' BY <1>0, <1>6 DEF Seed, OwnRows
    <2> QED BY <1>6, <2>1, MemoryOnly DEF Seed
  <1>7. CASE BuildQueue
    <2>1. fp \in Backends /\ sidecar = fp
      BY <1>0, <1>7 DEF BuildQueue, Started, GatePassed
    <2>2. OwnRows'
      BY <1>0, <1>7, <2>1 DEF BuildQueue, OwnRows, OneBackendPerDirectory
    <2> QED BY <1>7, <2>2, MemoryOnly DEF BuildQueue, disk
  <1>8. ASSUME NEW w \in Workers, WorkerTake(w) PROVE IdentityInv'
    <2>1. OwnRows' BY <1>0, <1>8 DEF WorkerTake, OwnRows, TypeOK
    <2> QED BY <1>8, <2>1, MemoryOnly DEF WorkerTake, disk
  <1>9. ASSUME NEW w \in Workers, WorkerReply(w) PROVE IdentityInv'
    <2>1. PICK row \in Replies(worker[w].unit) :
             worker' = [worker EXCEPT ![w].row = row]
      BY <1>9 DEF WorkerReply
    <2>2. pc \in {"detect", "abort"} /\ worker[w].unit \in Units
      BY <1>0, <1>9 DEF WorkerReply, Calling, AtWork, TypeOK
    <2>3. row.fp = fp BY <2>1, <2>2, ReplyTyped
    <2>4. worker'[w].row = row /\ \A x \in Workers \ {w} : worker'[x] = worker[x]
      BY <1>0, <2>1 DEF TypeOK
    <2>5. OwnRows' BY <1>0, <1>9, <2>3, <2>4 DEF WorkerReply, OwnRows
    <2> QED BY <1>9, <2>2, <2>5, MemoryOnly DEF WorkerReply, disk
  <1>10. ASSUME NEW w \in Workers, WorkerRejected(w) PROVE IdentityInv'
    <2>1. pc \in {"detect", "abort"} BY <1>0, <1>10 DEF WorkerRejected, Calling, AtWork
    <2>2. OwnRows'
      BY <1>0, <1>10, ConstantsAssumption
      DEF WorkerRejected, OwnRows, IdleWorker, TypeOK
    <2> QED BY <1>10, <2>1, <2>2, MemoryOnly DEF WorkerRejected, disk
  <1>11. ASSUME NEW w \in Workers, WorkerSave(w) PROVE IdentityInv'
    <2>1. pc \in {"detect", "abort"} BY <1>0, <1>11 DEF WorkerSave, Saving, AtWork
    <2>2. sidecar = fp /\ fp \in Backends /\ worker[w].row.fp = fp
      BY <1>0, <1>11, <2>1 DEF WorkerSave, Saving, GatePassed, Started, OwnRows
    <2>3. OwnRows'
      BY <1>0, <1>11, <2>2 DEF WorkerSave, OwnRows, IdleWorker, TypeOK
    <2>4. OneBackendPerDirectory' /\ UnstampedIsLegacy'
      BY <1>0, <1>11, <2>2, ConstantsAssumption
      DEF WorkerSave, OneBackendPerDirectory, UnstampedIsLegacy, TypeOK
    <2> QED
      BY <1>0, <1>11, <2>1, <2>3, <2>4
      DEF WorkerSave, IdentityInv, GatePassed, Between, ReportsSpeakForTheirBackend
  <1>12. ASSUME NEW w \in Workers, WorkerSaveFails(w) PROVE IdentityInv'
    <2>1. pc \in {"detect", "abort"} BY <1>0, <1>12 DEF WorkerSaveFails, Saving, AtWork
    <2>2. OwnRows'
      BY <1>0, <1>12, ConstantsAssumption
      DEF WorkerSaveFails, OwnRows, IdleWorker, TypeOK
    <2> QED BY <1>12, <2>1, <2>2, MemoryOnly DEF WorkerSaveFails, disk
  <1>13. ASSUME NEW f \in finished, Consume(f) PROVE IdentityInv'
    <2>1. OwnRows' BY <1>0, <1>13 DEF Consume, OwnRows, TypeOK
    <2> QED BY <1>13, <2>1, MemoryOnly DEF Consume
  <1>14. CASE CancelPending /\ pc = "detect"
    <2>1. OwnRows' BY <1>0, <1>14 DEF CancelPending, OwnRows
    <2> QED BY <1>14, <2>1, MemoryOnly DEF CancelPending, disk
  <1>15. ASSUME NEW f \in finished, ConsumeFailed(f) PROVE IdentityInv'
    <2>1. OwnRows' BY <1>0, <1>15 DEF ConsumeFailed, process, OwnRows
    <2> QED BY <1>15, <2>1, MemoryOnly DEF ConsumeFailed, disk, process
  <1>16. CASE AbortExit
    BY <1>0, <1>16, GoneKeepsIdentity DEF AbortExit, disk, ReportsSpeakForTheirBackend
  <1>17. CASE DetectDone
    <2>1. OwnRows' BY <1>0, <1>17 DEF DetectDone, OwnRows
    <2> QED BY <1>17, <2>1, MemoryOnly DEF DetectDone, disk
  <1>18. ASSUME NEW u \in Units, RetryUnit(u) PROVE IdentityInv'
    <2>1. PICK row \in Replies(u) : results' = [results EXCEPT ![u] = row]
      BY <1>18 DEF RetryUnit
    <2>2. row.fp = fp BY <1>18, ReplyTyped DEF RetryUnit
    <2>3. OwnRows' BY <1>0, <1>18, <2>1, <2>2 DEF RetryUnit, OwnRows, TypeOK
    <2> QED BY <1>18, <2>3, MemoryOnly DEF RetryUnit
  <1>19. CASE RetrySave
    <2>1. sidecar = fp /\ fp \in Backends
      BY <1>0, <1>19 DEF RetrySave, GatePassed, Started
    <2>2. retrying \in Units BY <1>19 DEF RetrySave, TypeInv, RetryingUnit
    <2>3. OneBackendPerDirectory' /\ UnstampedIsLegacy'
      BY <1>0, <1>19, <2>1, <2>2, ConstantsAssumption
      DEF RetrySave, OneBackendPerDirectory, UnstampedIsLegacy, OwnRows, TypeOK
    <2> QED
      BY <1>0, <1>19, <2>1, <2>3
      DEF RetrySave, IdentityInv, GatePassed, OwnRows, Between,
          ReportsSpeakForTheirBackend
  <1>20. CASE FinishSummary
    <2>1. OwnRows' BY <1>0, <1>20 DEF FinishSummary, process, OwnRows
    <2> QED BY <1>20, <2>1, MemoryOnly DEF FinishSummary, process
  <1>21. CASE Publish
    <2> DEFINE Answered(P) == P \cup {u \in Scope : ~IsError(results[u])}
    <2>1. PICK promoted \in SUBSET {u \in Scope : IsError(results[u])} :
             report' = [fp |-> fp, by |-> [u \in Answered(promoted) |-> results[u].fp]]
      BY <1>21 DEF Publish
    <2>2. \A u \in Scope : u \in Units /\ results[u] # NoRow
      BY <1>21, ScopeTyped DEF Publish, TypeInv, NoneForgotten
    <2>3. \A u \in Answered(promoted) : results[u].fp \in {fp, Legacy}
      BY <1>0, <2>2 DEF OwnRows
    <2>4. \A u \in DOMAIN report'.by : report'.by[u] \in {report'.fp, Legacy}
      BY <2>1, <2>3
    <2>5. ReportsSpeakForTheirBackend'
      BY <1>0, <1>21, <2>4 DEF Publish, ReportsSpeakForTheirBackend
    <2> QED BY <1>21, <2>5, GoneKeepsIdentity DEF Publish
  <1>22. CASE Crash
    BY <1>0, <1>22, GoneKeepsIdentity DEF Crash, disk, ReportsSpeakForTheirBackend
  <1>23. CASE DamageSidecar
    BY <1>0, <1>23, ConstantsAssumption
    DEF DamageSidecar, process, IdentityInv, GatePassed, UnstampedIsLegacy,
        OwnRows, Between, OneBackendPerDirectory, ReportsSpeakForTheirBackend
  <1>24. CASE UNCHANGED vars
    BY <1>0, <1>24
    DEF vars, disk, process, IdentityInv, GatePassed, UnstampedIsLegacy,
        OwnRows, Between, OneBackendPerDirectory, ReportsSpeakForTheirBackend
  <1> QED
    BY <1>1, <1>2, <1>3, <1>4, <1>5, <1>6, <1>7, <1>8, <1>9, <1>10, <1>11,
       <1>12, <1>13, <1>14, <1>15, <1>16, <1>17, <1>18, <1>19, <1>20, <1>21,
       <1>22, <1>23, <1>24
    DEF Next, MainStep, ConsumeStep, ConsumeRejected, WorkerStep, Environment,
        Interrupt

LEMMA IdentityAlways == Spec => [](TypeInv /\ IdentityInv)
  <1>1. Init => TypeInv /\ IdentityInv BY TypeInit, IdentityInit
  <1>2. TypeInv /\ IdentityInv /\ [Next]_vars => TypeInv' /\ IdentityInv'
    BY TypeStep, IdentityStep
  <1> QED BY <1>1, <1>2, PTL DEF Spec

\* sync_identity is fail-closed: a stamped directory never holds the row of
\* another backend, after any sequence of runs, kills and damaged sidecars.
THEOREM DirectoryIdentity == Spec => []OneBackendPerDirectory
  <1>1. IdentityInv => OneBackendPerDirectory BY DEF IdentityInv
  <1> QED BY <1>1, IdentityAlways, PTL

\* No report shows one backend's verdict under another backend's stamp.
THEOREM ReportIdentity == Spec => []ReportsSpeakForTheirBackend
  <1>1. IdentityInv => ReportsSpeakForTheirBackend BY DEF IdentityInv
  <1> QED BY <1>1, IdentityAlways, PTL

\* Once another backend's report is set aside, what is there is one's own.
OwnReport ==
    pc \in {"seed", "queue", "detect", "abort", "retry", "retrySave", "publish"}
      => report = NoReport \/ report.fp = fp

LEMMA OwnReportStep ==
    ASSUME RenameMayFail = FALSE
    PROVE  OwnReport /\ [Next]_vars => OwnReport'
  <1> SUFFICES ASSUME OwnReport, [Next]_vars PROVE OwnReport'
    OBVIOUS
  <1>1. CASE PreserveReport
    BY <1>1 DEF PreserveReport, OtherReport, process, OwnReport
  <1>2. CASE UNCHANGED <<report, fp>>
             /\ (pc' \in {"idle", "identity", "stamp", "preserve"} \/ pc' = pc
                 \/ pc \in {"seed", "queue", "detect", "abort", "retry", "retrySave"})
    BY <1>2 DEF OwnReport
  <1>3. CASE pc' \in {"idle", "identity", "stamp", "preserve"}
    BY <1>3 DEF OwnReport
  <1>4. ASSUME NEW w \in Workers, WorkerStep(w) PROVE UNCHANGED <<report, fp, pc>>
    BY <1>4
    DEF WorkerStep, WorkerTake, WorkerReply, WorkerRejected, WorkerSave,
        WorkerSaveFails, disk
  <1>5. CASE ConsumeStep
    BY <1>2, <1>5
    DEF ConsumeStep, Consume, ConsumeRejected, ConsumeFailed, CancelPending, disk,
        process
  <1>6. CASE Seed \/ BuildQueue \/ DetectDone \/ RetrySave \/ FinishSummary \/ Interrupt
             \/ DamageSidecar \/ \E u \in Units : RetryUnit(u)
    BY <1>2, <1>6
    DEF Seed, BuildQueue, DetectDone, RetrySave, FinishSummary, Interrupt,
        CancelPending, DamageSidecar, RetryUnit, disk, process
  <1>7. CASE AdoptDirectory \/ ArchiveDirectory \/ StampFresh \/ AbortExit \/ Publish
             \/ Crash \/ \E d \in Datasets, b \in Backends : StartRun(d, b)
    BY <1>3, <1>7
    DEF AdoptDirectory, ArchiveDirectory, StampFresh, AbortExit, Publish, Crash,
        StartRun, ProcessGone
  <1>8. CASE UNCHANGED vars
    BY <1>2, <1>8 DEF vars, disk, process
  <1> QED
    BY <1>1, <1>2, <1>4, <1>5, <1>6, <1>7, <1>8 DEF Next, MainStep, Environment

\* Where a rename never fails, no prior report is ever destroyed.
THEOREM ReportsKept ==
    ASSUME RenameMayFail = FALSE
    PROVE  Spec => ReportsPreserved
  <1>1. Init => OwnReport BY DEF Init, OwnReport
  <1>2. OwnReport /\ [Next]_vars => OwnReport' BY OwnReportStep
  <1>3. ASSUME TypeInv, OwnReport, [Next]_vars, report # NoReport, report' # report
        PROVE  \/ report \in oldReports'
               \/ report' # NoReport /\ report'.fp = report.fp
    <2>1. ASSUME NEW w \in Workers, WorkerStep(w) PROVE UNCHANGED report
      BY <2>1
      DEF WorkerStep, WorkerTake, WorkerReply, WorkerRejected, WorkerSave,
          WorkerSaveFails, disk
    <2>2. ConsumeStep => UNCHANGED report
      BY DEF ConsumeStep, Consume, ConsumeRejected, ConsumeFailed, CancelPending, disk
    <2>3. CASE \/ AdoptDirectory \/ ArchiveDirectory \/ StampFresh \/ Seed
               \/ BuildQueue \/ AbortExit \/ DetectDone \/ RetrySave \/ FinishSummary
               \/ Interrupt \/ Crash \/ DamageSidecar \/ UNCHANGED vars
      BY <1>3, <2>3
      DEF AdoptDirectory, ArchiveDirectory, StampFresh, Seed, BuildQueue,
          AbortExit, DetectDone, RetrySave, FinishSummary, Interrupt,
          CancelPending, Crash, DamageSidecar, vars, disk
    <2>4. ASSUME NEW u \in Units, RetryUnit(u) PROVE UNCHANGED report
      BY <2>4 DEF RetryUnit
    <2>5. ASSUME NEW d \in Datasets, NEW b \in Backends, StartRun(d, b)
          PROVE  UNCHANGED report
      BY <2>5 DEF StartRun, disk
    <2>6. CASE PreserveReport BY <1>3, <2>6 DEF PreserveReport
    <2>7. CASE Publish
      <3>1. report.fp = fp BY <1>3, <2>7 DEF Publish, OwnReport
      <3>2. report'.fp = fp BY <2>7 DEF Publish
      <3>3. report' # NoReport BY <1>3, <2>7, PublishedIsReport
      <3> QED BY <3>1, <3>2, <3>3
    <2> QED
      BY <1>3, <2>1, <2>2, <2>3, <2>4, <2>5, <2>6, <2>7
      DEF Next, MainStep, Environment
  <1>4. TypeInv /\ OwnReport /\ [Next]_vars
          => [report # NoReport /\ report' # report
                => \/ report \in oldReports'
                   \/ report' # NoReport /\ report'.fp = report.fp]_vars
    BY <1>3
  <1> QED BY <1>1, <1>2, <1>4, TypeInit, TypeStep, PTL DEF Spec, ReportsPreserved

-----------------------------------------------------------------------------
(* Durability, and what is paid for.                                       *)

\* A unit is in one place at a time.
OnePlace ==
    /\ \A w \in Workers : worker[w].unit # NoUnit =>
          /\ worker[w].unit \notin pending /\ \A f \in finished : f.unit # worker[w].unit
          /\ results[worker[w].unit] = NoRow
          /\ \A x \in Workers : worker[x].unit = worker[w].unit => x = w
    /\ \A u \in pending : results[u] = NoRow /\ \A f \in finished : f.unit # u
    /\ \A f \in finished :
          /\ results[f.unit] = NoRow
          /\ \A g \in finished : g.unit = f.unit => g = f

\* What each phase has not started, or has finished with.
Phases ==
    /\ pc \in {"idle", "identity", "stamp", "preserve", "seed", "queue"}
         => /\ pending = {} /\ results = NoRows
    /\ pc \notin {"detect", "abort"} => finished = {} /\ pending = {}
    /\ pc # "retrySave" => retrying = NoUnit

\* What is asked for has no settled verdict on disk.
Asked ==
    /\ \A u \in pending : ~Adoptable(u)
    /\ \A w \in Workers : worker[w].unit # NoUnit =>
          /\ ~Adoptable(worker[w].unit) /\ calls[worker[w].unit] > 0
    /\ \A u \in retryQ : results[u] # NoRow /\ IsError(results[u])
    /\ pc = "retrySave" =>
          /\ ckpt[retrying] # NoRow /\ IsError(ckpt[retrying])
          /\ retrying \notin retryQ
    /\ pc \notin {"retry", "retrySave", "publish"} => retryQ = {}

DurableInv == OnePlace /\ Phases /\ Asked /\ ConsumedIsDurable

LEMMA DurableInit == Init => DurableInv
  BY ConstantsAssumption
  DEF Init, DurableInv, OnePlace, Phases, Asked, ConsumedIsDurable, NoRows,
      IdleWorker

LEMMA GoneIsDurable ==
    ASSUME ProcessGone PROVE DurableInv'
  BY DEF ProcessGone, DurableInv, OnePlace, Phases, Asked,
         ConsumedIsDurable, NoRows, IdleWorker

\* The facts of DurableInv, by name.
LEMMA DurableParts ==
    DurableInv => OnePlace /\ Phases /\ Asked /\ ConsumedIsDurable
  BY DEF DurableInv

\* A thread ends its future, having saved its row (or not): the unit moves
\* from the thread to the future, and no other unit's row is touched.
LEMMA EndOfFuture ==
    ASSUME TypeInv, DurableInv, NEW w \in Workers, NEW out,
           worker[w].unit # NoUnit,
           finished' = finished \cup {[unit |-> worker[w].unit, out |-> out]},
           worker' = [worker EXCEPT ![w] = IdleWorker],
           \A u \in Units : u # worker[w].unit => ckpt'[u] = ckpt[u],
           out \in Rows => ckpt'[worker[w].unit] = out,
           UNCHANGED <<pc, dataset, pending, results, retryQ, retrying, calls>>
    PROVE  DurableInv'
  <1> DEFINE u0 == worker[w].unit
             last == [unit |-> u0, out |-> out]
  <1>0. OnePlace /\ Phases /\ Asked /\ ConsumedIsDurable BY DurableParts
  <1>1. /\ pc \in {"detect", "abort"} /\ u0 \in Units /\ u0 # NoUnit
        /\ retrying = NoUnit
    BY <1>0 DEF TypeInv, TypeOK, AtWork, Phases
  <1>2. /\ \A x \in Workers : worker[x].unit \in Units \cup {NoUnit}
        /\ \A x \in Workers : x # w => worker'[x] = worker[x]
        /\ worker'[w].unit = NoUnit
        /\ pending \subseteq Units /\ \A f \in finished : f.unit \in Units
    BY DEF TypeInv, TypeOK, IdleWorker
  <1>3. \A x \in Workers : worker'[x].unit # NoUnit =>
           x # w /\ worker'[x].unit = worker[x].unit /\ worker[x].unit # u0
    BY <1>0, <1>1, <1>2 DEF OnePlace
  <1>4. u0 \notin pending /\ results[u0] = NoRow /\ \A f \in finished : f.unit # u0
    BY <1>0, <1>1 DEF OnePlace
  <1>5. \A f \in finished' : f \in finished \/ f.unit = u0
    OBVIOUS
  <1>6. OnePlace'
    <2>1. ASSUME NEW x \in Workers, worker'[x].unit # NoUnit
          PROVE  /\ worker'[x].unit \notin pending' /\ \A f \in finished' : f.unit # worker'[x].unit
                 /\ results'[worker'[x].unit] = NoRow
                 /\ \A y \in Workers : worker'[y].unit = worker'[x].unit => y = x
      BY <1>0, <1>2, <1>3, <1>5, <2>1 DEF OnePlace
    <2>2. \A v \in pending' : results'[v] = NoRow /\ \A f \in finished' : f.unit # v
      BY <1>0, <1>4, <1>5 DEF OnePlace
    <2>3. \A f \in finished' : results'[f.unit] = NoRow
      BY <1>0, <1>4 DEF OnePlace
    <2>4. \A f, g \in finished' : g.unit = f.unit => g = f
      BY <1>0, <1>4 DEF OnePlace
    <2> QED BY <2>1, <2>2, <2>3, <2>4 DEF OnePlace
  <1>7. Phases' BY <1>0, <1>1 DEF Phases
  <1>8. \A v \in Units : v # u0 => (Adoptable(v)' <=> Adoptable(v))
    BY DEF Adoptable, IsStale, IsError
  <1>9. Asked'
    <2>1. \A v \in pending' : ~Adoptable(v)'
      BY <1>0, <1>2, <1>4, <1>8 DEF Asked
    <2>2. \A x \in Workers : worker'[x].unit # NoUnit =>
             ~Adoptable(worker[x].unit)' /\ calls'[worker'[x].unit] > 0
      BY <1>0, <1>2, <1>3, <1>8 DEF Asked
    <2> QED
      BY <1>0, <1>1, <2>1, <2>2 DEF Asked, Adoptable, IsError, IsStale
  <1>10. ConsumedIsDurable'
    <2>1. \A f \in finished' : f.out \in Rows => ckpt'[f.unit] = f.out
      BY <1>0, <1>2, <1>4 DEF ConsumedIsDurable
    <2>2. \A u \in Units : results'[u] # NoRow /\ u # retrying' => ckpt'[u] = results'[u]
      BY <1>0, <1>4 DEF ConsumedIsDurable
    <2> QED BY <2>1, <2>2 DEF ConsumedIsDurable
  <1> QED BY <1>6, <1>7, <1>9, <1>10 DEF DurableInv

LEMMA DurableStep == TypeInv /\ DurableInv /\ [Next]_vars => DurableInv'
  <1> SUFFICES ASSUME TypeInv, DurableInv, [Next]_vars PROVE DurableInv'
    OBVIOUS
  <1>0. /\ TypeOK /\ Started /\ AtWork /\ RetryingUnit
        /\ OnePlace /\ Phases /\ Asked /\ ConsumedIsDurable
    BY DurableParts DEF TypeInv
  <1>1. ASSUME NEW d \in Datasets, NEW b \in Backends, StartRun(d, b)
        PROVE  DurableInv'
    BY <1>0, <1>1
    DEF StartRun, disk, AtWork, DurableInv, OnePlace, Phases, Asked, ConsumedIsDurable
  <1>2. CASE AdoptDirectory
    BY <1>0, <1>2
    DEF AdoptDirectory, process, AtWork, DurableInv, OnePlace, Phases, Asked,
        ConsumedIsDurable
  <1>3. CASE ArchiveDirectory
    BY <1>0, <1>3
    DEF ArchiveDirectory, process, AtWork, DurableInv, OnePlace, Phases, Asked,
        ConsumedIsDurable, NoRows
  <1>4. CASE StampFresh
    BY <1>0, <1>4
    DEF StampFresh, process, AtWork, DurableInv, OnePlace, Phases, Asked,
        ConsumedIsDurable
  <1>5. CASE PreserveReport
    BY <1>0, <1>5
    DEF PreserveReport, process, AtWork, DurableInv, OnePlace, Phases, Asked,
        ConsumedIsDurable
  <1>6. CASE Seed
    BY <1>0, <1>6
    DEF Seed, AtWork, DurableInv, OnePlace, Phases, Asked, ConsumedIsDurable
  <1>7. CASE BuildQueue
    <2>1. Scope \subseteq Units BY <1>7, ScopeTyped DEF BuildQueue
    <2>2. /\ finished = {} /\ \A w \in Workers : worker[w].unit = NoUnit
          /\ UNCHANGED <<ckpt, dataset, finished, worker, retryQ, retrying>>
          /\ retrying = NoUnit /\ retryQ = {} /\ pc' = "detect"
      BY <1>0, <1>7 DEF BuildQueue, disk, AtWork, Phases, Asked
    <2>3. \A u \in pending' : ~Adoptable(u) /\ results'[u] = NoRow
      BY <1>7, <2>1 DEF BuildQueue
    <2>4. \A u \in Units : Adoptable(u)' <=> Adoptable(u)
      BY <2>2 DEF Adoptable, IsStale, IsError
    <2>5. OnePlace' BY <2>2, <2>3 DEF OnePlace
    <2>6. Asked' BY <1>7, <2>1, <2>2, <2>3, <2>4 DEF Asked, BuildQueue
    <2>7. ConsumedIsDurable'
      BY <1>7, <2>2 DEF BuildQueue, ConsumedIsDurable
    <2> QED BY <2>2, <2>5, <2>6, <2>7 DEF DurableInv, Phases
  <1>8. ASSUME NEW w \in Workers, WorkerTake(w) PROVE DurableInv'
    <2>1. PICK u \in pending :
             /\ pending' = pending \ {u}
             /\ worker' = [worker EXCEPT ![w] = [unit |-> u, row |-> NoRow]]
             /\ calls' = [calls EXCEPT ![u] = @ + 1]
      BY <1>8 DEF WorkerTake
    <2>2. /\ u \in Units /\ calls'[u] = calls[u] + 1 /\ calls[u] \in Nat
          /\ worker'[w].unit = u
          /\ \A x \in Workers : x # w => worker'[x] = worker[x]
          /\ \A v \in Units : calls'[v] >= calls[v]
          /\ \A x \in Workers : worker[x].unit \in Units \cup {NoUnit}
      BY <1>0, <2>1 DEF TypeOK
    <2>3. UNCHANGED <<ckpt, pc, dataset, finished, results, retryQ, retrying>>
      BY <1>8 DEF WorkerTake, disk
    <2>4. \A v : Adoptable(v)' <=> Adoptable(v)
      BY <2>3 DEF Adoptable, IsStale, IsError
    <2>5. u \notin pending' /\ pending' \subseteq pending
      BY <2>1
    <2>6. \A x \in Workers : x # w /\ worker'[x].unit # NoUnit => worker'[x].unit # u
      BY <1>0, <2>2 DEF OnePlace
    <2>7. OnePlace'
      <3>1. ASSUME NEW x \in Workers, worker'[x].unit # NoUnit
            PROVE  /\ worker'[x].unit \notin pending'
                   /\ \A f \in finished' : f.unit # worker'[x].unit
                   /\ results'[worker'[x].unit] = NoRow
                   /\ \A y \in Workers : worker'[y].unit = worker'[x].unit => y = x
        BY <1>0, <2>2, <2>3, <2>5, <2>6, <3>1 DEF OnePlace
      <3> QED BY <1>0, <2>3, <2>5, <3>1 DEF OnePlace
    <2>8. Asked'
      <3>1. \A x \in Workers : worker'[x].unit # NoUnit =>
               ~Adoptable(worker'[x].unit) /\ calls'[worker'[x].unit] > 0
        <4> SUFFICES ASSUME NEW x \in Workers, worker'[x].unit # NoUnit
                     PROVE  ~Adoptable(worker'[x].unit) /\ calls'[worker'[x].unit] > 0
          OBVIOUS
        <4>1. CASE x = w BY <1>0, <2>2, <4>1 DEF Asked
        <4>2. CASE x # w
          <5>1. worker'[x].unit = worker[x].unit /\ worker[x].unit \in Units
            BY <2>2, <4>2
          <5>2. ~Adoptable(worker[x].unit) /\ calls[worker[x].unit] > 0
            BY <1>0, <5>1 DEF Asked
          <5>3. calls[worker[x].unit] \in Nat /\ calls'[worker[x].unit] \in Nat
            BY <1>0, <2>1, <5>1 DEF TypeOK
          <5>4. calls'[worker[x].unit] > 0 BY <2>2, <5>1, <5>2, <5>3
          <5> QED BY <5>1, <5>2, <5>4
        <4> QED BY <4>1, <4>2
      <3>2. \A x \in Workers : worker'[x].unit # NoUnit =>
               ~(Adoptable(worker[x].unit)') /\ calls'[worker'[x].unit] > 0
        BY <2>4, <3>1
      <3> QED BY <1>0, <2>3, <2>4, <2>5, <3>2 DEF Asked, IsError
    <2>9. Phases' /\ ConsumedIsDurable'
      BY <1>0, <1>8, <2>1, <2>3 DEF WorkerTake, Phases, ConsumedIsDurable
    <2> QED BY <2>7, <2>8, <2>9 DEF DurableInv
  <1>9. ASSUME NEW w \in Workers, WorkerReply(w) PROVE DurableInv'
    <2>1. \A x \in Workers : worker'[x].unit = worker[x].unit
      BY <1>0, <1>9 DEF WorkerReply, TypeOK
    <2>2. UNCHANGED <<disk, pc, dataset, pending, finished, results, retryQ,
                      retrying, calls>>
      BY <1>9 DEF WorkerReply
    <2> QED
      BY <1>0, <2>1, <2>2
      DEF disk, DurableInv, OnePlace, Phases, Asked, ConsumedIsDurable, Adoptable,
          IsStale, IsError
  <1>10. ASSUME NEW w \in Workers, WorkerRejected(w) PROVE DurableInv'
    BY <1>10, EndOfFuture, ConstantsAssumption DEF WorkerRejected, Calling, disk
  <1>11. ASSUME NEW w \in Workers, WorkerSave(w) PROVE DurableInv'
    <2>1. worker[w].unit \in Units /\ ckpt'[worker[w].unit] = worker[w].row
      BY <1>0, <1>11 DEF WorkerSave, Saving, TypeOK
    <2> QED BY <1>0, <1>11, <2>1, EndOfFuture DEF WorkerSave, Saving, TypeOK
  <1>12. ASSUME NEW w \in Workers, WorkerSaveFails(w) PROVE DurableInv'
    BY <1>12, EndOfFuture, ConstantsAssumption DEF WorkerSaveFails, Saving, disk
  <1>13. ASSUME NEW f \in finished, Consume(f) PROVE DurableInv'
    <2>1. /\ f.unit \in Units /\ f.out \in Rows
          /\ results' = [results EXCEPT ![f.unit] = f.out]
          /\ finished' = finished \ {f} /\ pc = "detect"
          /\ UNCHANGED <<ckpt, pc, dataset, pending, worker, retryQ, retrying, calls>>
      BY <1>0, <1>13 DEF Consume, TypeOK
    <2>2. \A u \in Units : u # f.unit => results'[u] = results[u]
      BY <1>0, <2>1 DEF TypeOK
    <2>3. \A g \in finished' : g.unit # f.unit /\ g \in finished
      BY <1>0, <2>1 DEF OnePlace
    <2>4. OnePlace' BY <1>0, <2>1, <2>2, <2>3 DEF OnePlace, TypeOK
    <2>5. Asked'
      BY <1>0, <2>1 DEF Asked, Adoptable, IsStale, IsError
    <2>6. ConsumedIsDurable'
      BY <1>0, <2>1, <2>2, <2>3 DEF ConsumedIsDurable, TypeOK
    <2>7. Phases' BY <1>0, <2>1 DEF Phases
    <2> QED BY <2>4, <2>5, <2>6, <2>7 DEF DurableInv
  <1>14. CASE CancelPending /\ pc = "detect"
    BY <1>0, <1>14
    DEF CancelPending, disk, DurableInv, OnePlace, Phases, Asked, ConsumedIsDurable,
        Adoptable, IsStale, IsError
  <1>15. ASSUME NEW f \in finished, ConsumeFailed(f) PROVE DurableInv'
    BY <1>0, <1>15
    DEF ConsumeFailed, disk, process, DurableInv, OnePlace, Phases, Asked,
        ConsumedIsDurable, Adoptable, IsStale, IsError
  <1>16. CASE AbortExit BY <1>16, GoneIsDurable DEF AbortExit
  <1>17. CASE DetectDone
    <2>1. /\ pending = {} /\ finished = {}
          /\ \A w \in Workers : worker[w].unit = NoUnit
      BY <1>17 DEF DetectDone, PoolIdle, IdleWorker
    <2> QED
      BY <1>0, <1>17, <2>1
      DEF DetectDone, disk, DurableInv, OnePlace, Phases, Asked, ConsumedIsDurable,
          IsError
  <1>18. ASSUME NEW u \in Units, RetryUnit(u) PROVE DurableInv'
    <2>1. /\ finished = {} /\ pending = {} /\ retrying = NoUnit /\ u # NoUnit
          /\ \A w \in Workers : worker[w].unit = NoUnit
          /\ results[u] # NoRow /\ IsError(results[u]) /\ ckpt[u] = results[u]
      BY <1>0, <1>18, ConstantsAssumption
      DEF RetryUnit, Phases, AtWork, Asked, ConsumedIsDurable
    <2>2. /\ UNCHANGED <<ckpt, dataset, pending, worker, finished>>
          /\ retrying' = u /\ pc' = "retrySave" /\ retryQ' = retryQ \ {u}
          /\ \A v \in Units : v # u => results'[v] = results[v]
      BY <1>0, <1>18 DEF RetryUnit, TypeOK
    <2>3. retryQ \subseteq Units BY <1>0 DEF TypeOK
    <2>4. OnePlace' BY <2>1, <2>2 DEF OnePlace
    <2>5. Asked' BY <1>0, <2>1, <2>2, <2>3 DEF Asked, IsError
    <2>6. Phases' /\ ConsumedIsDurable'
      BY <1>0, <2>1, <2>2, ConstantsAssumption DEF Phases, ConsumedIsDurable
    <2> QED BY <2>4, <2>5, <2>6 DEF DurableInv
  <1>19. CASE RetrySave
    <2>1. /\ finished = {} /\ pending = {} /\ retrying \in Units
          /\ \A w \in Workers : worker[w].unit = NoUnit
      BY <1>0, <1>19 DEF RetrySave, Phases, AtWork, RetryingUnit
    <2>2. /\ UNCHANGED <<results, pending, worker, finished, retryQ>>
          /\ retrying' = NoUnit /\ pc' = "retry"
          /\ ckpt'[retrying] = results[retrying]
          /\ \A v \in Units : v # retrying => ckpt'[v] = ckpt[v]
      BY <1>0, <1>19, <2>1 DEF RetrySave, TypeOK
    <2>3. OnePlace' BY <2>1, <2>2 DEF OnePlace
    <2>4. Asked' BY <1>0, <2>1, <2>2 DEF Asked, IsError
    <2>5. Phases' /\ ConsumedIsDurable'
      BY <1>0, <2>1, <2>2 DEF Phases, ConsumedIsDurable
    <2> QED BY <2>3, <2>4, <2>5 DEF DurableInv
  <1>20. CASE FinishSummary
    BY <1>0, <1>20
    DEF FinishSummary, process, DurableInv, OnePlace, Phases, Asked,
        ConsumedIsDurable, AtWork, IsError
  <1>21. CASE Publish BY <1>21, GoneIsDurable DEF Publish
  <1>22. CASE Crash BY <1>22, GoneIsDurable DEF Crash
  <1>23. CASE DamageSidecar
    BY <1>0, <1>23
    DEF DamageSidecar, process, AtWork, DurableInv, OnePlace, Phases, Asked,
        ConsumedIsDurable
  <1>24. CASE UNCHANGED vars
    BY <1>0, <1>24
    DEF vars, disk, process, DurableInv, OnePlace, Phases, Asked,
        ConsumedIsDurable, Adoptable, IsStale, IsError
  <1> QED
    BY <1>1, <1>2, <1>3, <1>4, <1>5, <1>6, <1>7, <1>8, <1>9, <1>10, <1>11,
       <1>12, <1>13, <1>14, <1>15, <1>16, <1>17, <1>18, <1>19, <1>20, <1>21,
       <1>22, <1>23, <1>24
    DEF Next, MainStep, ConsumeStep, ConsumeRejected, WorkerStep, Environment,
        Interrupt

LEMMA DurableAlways == Spec => [](TypeInv /\ DurableInv)
  <1>1. Init => TypeInv /\ DurableInv BY TypeInit, DurableInit
  <1>2. TypeInv /\ DurableInv /\ [Next]_vars => TypeInv' /\ DurableInv'
    BY TypeStep, DurableStep
  <1> QED BY <1>1, <1>2, PTL DEF Spec

\* Whatever the counters have seen is on disk, the retried row in flight apart.
THEOREM ConsumedDurable == Spec => []ConsumedIsDurable
  <1>1. DurableInv => ConsumedIsDurable BY DEF DurableInv
  <1> QED BY <1>1, DurableAlways, PTL

\* A call is made for u, or a row of the directory goes, only in these steps.
LEMMA CallsAndRows ==
    ASSUME TypeInv, [Next]_vars, NEW u \in Units
    PROVE  /\ calls'[u] > calls[u] =>
                 \/ u \in pending \/ (pc = "retry" /\ RetryUnit(u))
           /\ ckpt'[u] # ckpt[u] =>
                 \/ ArchiveDirectory
                 \/ \E w \in Workers : WorkerSave(w) /\ worker[w].unit = u
                 \/ RetrySave /\ retrying = u
  <1>0. TypeOK BY DEF TypeInv
  <1>1. calls[u] \in Nat BY <1>0 DEF TypeOK
  <1>2. ASSUME NEW w \in Workers, WorkerStep(w)
        PROVE  /\ calls'[u] > calls[u] => u \in pending
               /\ ckpt'[u] # ckpt[u] => WorkerSave(w) /\ worker[w].unit = u
    BY <1>0, <1>1, <1>2
    DEF WorkerStep, WorkerTake, WorkerReply, WorkerRejected, WorkerSave,
        WorkerSaveFails, disk, TypeOK
  <1>3. ASSUME NEW v \in Units, RetryUnit(v)
        PROVE  /\ calls'[u] > calls[u] => pc = "retry" /\ RetryUnit(u)
               /\ ckpt' = ckpt
    <2>1. ckpt' = ckpt /\ pc = "retry" BY <1>3 DEF RetryUnit
    <2>2. CASE v = u BY <1>3, <2>1, <2>2
    <2>3. CASE v # u
      <3>1. calls'[u] = calls[u] BY <1>0, <1>3, <2>3 DEF RetryUnit, TypeOK
      <3> QED BY <1>1, <2>1, <3>1
    <2> QED BY <2>1, <2>2, <2>3
  <1>4. CASE ProcessGone /\ UNCHANGED ckpt
    BY <1>1, <1>4 DEF ProcessGone
  <1>5. CASE UNCHANGED <<calls, ckpt>>
    BY <1>1, <1>5
  <1>6. CASE ArchiveDirectory
    BY <1>1, <1>6 DEF ArchiveDirectory, process
  <1>7. CASE RetrySave
    BY <1>0, <1>1, <1>7 DEF RetrySave, TypeOK
  <1>8. CASE ConsumeStep
    <2>1. UNCHANGED <<calls, ckpt>>
      BY <1>8
      DEF ConsumeStep, Consume, ConsumeRejected, ConsumeFailed, CancelPending,
          disk, process
    <2> QED BY <2>1, <1>5
  <1>9. ASSUME NEW d \in Datasets, NEW b \in Backends, StartRun(d, b)
        PROVE  UNCHANGED <<calls, ckpt>>
    BY <1>9 DEF StartRun, disk
  <1>10. CASE \/ AdoptDirectory \/ StampFresh \/ PreserveReport \/ Seed
              \/ BuildQueue \/ DetectDone \/ FinishSummary \/ Interrupt
              \/ DamageSidecar \/ UNCHANGED vars
    <2>1. UNCHANGED <<calls, ckpt>>
      BY <1>10
      DEF AdoptDirectory, StampFresh, PreserveReport, Seed, BuildQueue, DetectDone,
          FinishSummary, Interrupt, CancelPending, DamageSidecar, vars, disk, process
    <2> QED BY <2>1, <1>5
  <1>11. CASE AbortExit \/ Publish \/ Crash
    BY <1>4, <1>11 DEF AbortExit, Publish, Crash, disk
  <1> QED
    BY <1>2, <1>3, <1>5, <1>6, <1>7, <1>8, <1>9, <1>10, <1>11
    DEF Next, MainStep, Environment

\* No call is paid for a unit whose up-to-date verdict is on disk.
THEOREM NothingPaidTwice == Spec => PaidOnce
  <1>1. ASSUME TypeInv, DurableInv, [Next]_vars
        PROVE  \A u \in Units :
                  calls'[u] > calls[u] /\ ckpt[u] # NoRow /\ ckpt[u].kind = "verdict"
                    => ckpt[u].cls = "sentinel" /\ dataset.cls[u] = "final"
    <2> SUFFICES ASSUME NEW u \in Units, calls'[u] > calls[u], ckpt[u] # NoRow,
                        ckpt[u].kind = "verdict"
                 PROVE  ckpt[u].cls = "sentinel" /\ dataset.cls[u] = "final"
      OBVIOUS
    <2>0. Asked /\ ConsumedIsDurable /\ Phases BY <1>1, DurableParts
    <2>1. u \in pending \/ (pc = "retry" /\ RetryUnit(u))
      BY <1>1, CallsAndRows
    <2>2. CASE u \in pending
      BY <2>0, <2>2 DEF Asked, Adoptable, IsError, IsStale
    <2>3. CASE pc = "retry" /\ RetryUnit(u)
      <3>1. ckpt[u] = results[u] /\ IsError(results[u])
        BY <2>0, <2>3, ConstantsAssumption
        DEF RetryUnit, Asked, ConsumedIsDurable, Phases
      <3> QED BY <3>1 DEF IsError
    <2> QED BY <2>1, <2>2, <2>3
  <1>2. TypeInv /\ DurableInv /\ [Next]_vars
          => [\A u \in Units :
                calls'[u] > calls[u] /\ ckpt[u] # NoRow /\ ckpt[u].kind = "verdict"
                  => ckpt[u].cls = "sentinel" /\ dataset.cls[u] = "final"]_vars
    BY <1>1
  <1> QED BY <1>2, DurableAlways, PTL DEF Spec, PaidOnce

\* A verdict leaves the directory only for an archive, or for a fresh answer
\* about a unit that has been classified since.
THEOREM VerdictsKept == Spec => VerdictsNeverLost
  <1>1. ASSUME TypeInv, DurableInv, [Next]_vars
        PROVE  \A u \in Units :
                  ckpt[u] # NoRow /\ ckpt[u].kind = "verdict" /\ ckpt'[u] # ckpt[u]
                    => \/ <<u, ckpt[u]>> \in archive'
                       \/ ckpt[u].cls = "sentinel" /\ dataset.cls[u] = "final"
                          /\ calls[u] > 0
    <2> SUFFICES ASSUME NEW u \in Units, ckpt[u] # NoRow,
                        ckpt[u].kind = "verdict", ckpt'[u] # ckpt[u]
                 PROVE  \/ <<u, ckpt[u]>> \in archive'
                        \/ ckpt[u].cls = "sentinel" /\ dataset.cls[u] = "final"
                           /\ calls[u] > 0
      OBVIOUS
    <2>0. Asked BY <1>1, DurableParts
    <2>1. CASE ArchiveDirectory
      BY <2>1 DEF ArchiveDirectory
    <2>2. ASSUME NEW w \in Workers, WorkerSave(w), worker[w].unit = u
          PROVE  ckpt[u].cls = "sentinel" /\ dataset.cls[u] = "final" /\ calls[u] > 0
      BY <2>0, <2>2 DEF WorkerSave, Saving, Asked, Adoptable, IsError, IsStale
    <2>3. CASE RetrySave /\ retrying = u
      BY <2>0, <2>3 DEF RetrySave, Asked, IsError
    <2> QED BY <1>1, <2>1, <2>2, <2>3, CallsAndRows
  <1>2. TypeInv /\ DurableInv /\ [Next]_vars
          => [\A u \in Units :
                ckpt[u] # NoRow /\ ckpt[u].kind = "verdict" /\ ckpt'[u] # ckpt[u]
                  => \/ <<u, ckpt[u]>> \in archive'
                     \/ ckpt[u].cls = "sentinel" /\ dataset.cls[u] = "final"
                        /\ calls[u] > 0]_vars
    BY <1>1
  <1> QED BY <1>2, DurableAlways, PTL DEF Spec, VerdictsNeverLost

-----------------------------------------------------------------------------
(* The step keeps the promise of VerdictStore.  Each step that touches the *)
(* sidecar, a row or the report is matched with the step of the store it   *)
(* stands for; that it is allowed there is what the identity of the        *)
(* directory and the durability of the rows are needed for.                *)

\* An error is never adopted: the run that holds one got it from its own model.
OwnErrors ==
    \A u \in Units : results[u] # NoRow /\ IsError(results[u]) => results[u].fp = fp

\* What a retry is about to save is its own model's answer.
Retried ==
    pc = "retrySave" => results[retrying] # NoRow /\ results[retrying].fp = fp

LEMMA OwnErrorsStep == TypeInv /\ IdentityInv /\ OwnErrors /\ [Next]_vars => OwnErrors'
  <1> SUFFICES ASSUME TypeInv, IdentityInv, OwnErrors, [Next]_vars PROVE OwnErrors'
    OBVIOUS
  <1>0. TypeOK /\ OwnRows /\ Between BY DEF TypeInv, IdentityInv
  <1>1. CASE UNCHANGED <<results, fp>> BY <1>1 DEF OwnErrors, IsError
  <1>2. CASE results' = NoRows BY <1>2 DEF OwnErrors, NoRows
  <1>3. ASSUME NEW d \in Datasets, NEW b \in Backends, StartRun(d, b)
        PROVE  results' = NoRows
    BY <1>0, <1>3 DEF StartRun, Between
  <1>4. ASSUME NEW w \in Workers, WorkerStep(w) PROVE UNCHANGED <<results, fp>>
    BY <1>4
    DEF WorkerStep, WorkerTake, WorkerReply, WorkerRejected, WorkerSave,
        WorkerSaveFails
  <1>5. CASE BuildQueue BY <1>5 DEF BuildQueue, Adoptable, OwnErrors, IsError
  <1>6. ASSUME NEW f \in finished, Consume(f) PROVE OwnErrors'
    <2>1. f.unit \in Units /\ f.out.fp = fp /\ fp' = fp
      BY <1>0, <1>6 DEF Consume, OwnRows, TypeOK
    <2>2. /\ results'[f.unit] = f.out
          /\ \A u \in Units : u # f.unit => results'[u] = results[u]
      BY <1>0, <1>6, <2>1 DEF Consume, TypeOK
    <2> QED BY <2>1, <2>2 DEF OwnErrors, IsError
  <1>7. ASSUME NEW f \in finished, ConsumeRejected(f) \/ ConsumeFailed(f)
        PROVE  UNCHANGED <<results, fp>>
    BY <1>7 DEF ConsumeRejected, CancelPending, ConsumeFailed, process
  <1>8. ASSUME NEW u \in Units, RetryUnit(u) PROVE OwnErrors'
    <2>1. PICK row \in Replies(u) : results' = [results EXCEPT ![u] = row]
      BY <1>8 DEF RetryUnit
    <2>2. row.fp = fp BY <1>8, ReplyTyped DEF RetryUnit
    <2>3. /\ results'[u] = row /\ fp' = fp
          /\ \A v \in Units : v # u => results'[v] = results[v]
      BY <1>0, <1>8, <2>1 DEF RetryUnit, TypeOK
    <2> QED BY <2>2, <2>3 DEF OwnErrors, IsError
  <1>9. AbortExit \/ Publish \/ Crash => results' = NoRows
    BY DEF AbortExit, Publish, Crash, ProcessGone
  <1>10. ASSUME \/ AdoptDirectory \/ ArchiveDirectory \/ StampFresh \/ PreserveReport
                \/ Seed \/ DetectDone \/ RetrySave \/ FinishSummary \/ Interrupt
                \/ DamageSidecar \/ UNCHANGED vars
         PROVE  UNCHANGED <<results, fp>>
    BY <1>10
    DEF AdoptDirectory, ArchiveDirectory, StampFresh, PreserveReport, Seed,
        DetectDone, RetrySave, FinishSummary, Interrupt, CancelPending,
        DamageSidecar, process, vars
  <1> QED
    BY <1>1, <1>2, <1>3, <1>4, <1>5, <1>6, <1>7, <1>8, <1>9, <1>10
    DEF Next, MainStep, ConsumeStep, Environment

LEMMA RetriedStep == TypeInv /\ Retried /\ [Next]_vars => Retried'
  <1> SUFFICES ASSUME TypeInv, Retried, [Next]_vars PROVE Retried'
    OBVIOUS
  <1>1. CASE pc' # "retrySave" BY <1>1 DEF Retried
  <1>2. CASE UNCHANGED <<pc, fp, results, retrying>> BY <1>2 DEF Retried
  <1>3. ASSUME NEW u \in Units, RetryUnit(u) PROVE Retried'
    <2>1. PICK row \in Replies(u) : results' = [results EXCEPT ![u] = row]
      BY <1>3 DEF RetryUnit
    <2>2. row # NoRow /\ row.fp = fp BY <1>3, ReplyTyped DEF RetryUnit
    <2>3. results'[u] = row BY <2>1 DEF TypeInv, TypeOK
    <2> QED BY <1>3, <2>2, <2>3 DEF RetryUnit, Retried
  <1>4. ASSUME NEW w \in Workers, WorkerStep(w) PROVE UNCHANGED <<pc, fp, results, retrying>>
    BY <1>4
    DEF WorkerStep, WorkerTake, WorkerReply, WorkerRejected, WorkerSave,
        WorkerSaveFails
  <1>5. ASSUME \/ AdoptDirectory \/ ArchiveDirectory \/ StampFresh \/ PreserveReport
               \/ Seed \/ BuildQueue \/ ConsumeStep \/ AbortExit \/ DetectDone
               \/ RetrySave \/ FinishSummary \/ Publish \/ Interrupt \/ Crash
               \/ \E d \in Datasets, b \in Backends : StartRun(d, b)
        PROVE  pc' # "retrySave"
    BY <1>5
    DEF AdoptDirectory, ArchiveDirectory, StampFresh, PreserveReport, Seed,
        BuildQueue, ConsumeStep, Consume, ConsumeRejected, ConsumeFailed,
        CancelPending, AbortExit, DetectDone, RetrySave, FinishSummary, Publish,
        Interrupt, Crash, StartRun, ProcessGone
  <1>6. DamageSidecar \/ UNCHANGED vars => UNCHANGED <<pc, fp, results, retrying>>
    BY DEF DamageSidecar, process, vars
  <1> QED
    BY <1>1, <1>2, <1>3, <1>4, <1>5, <1>6 DEF Next, MainStep, Environment

-----------------------------------------------------------------------------
(* The steps of the store.                                                 *)

\* What the store does not see.
LEMMA Unseen ==
    /\ UNCHANGED sidecar => Owner' = Owner
    /\ UNCHANGED ckpt => Held' = Held
    /\ UNCHANGED <<sidecar, ckpt, report>> => UNCHANGED Store!store
  BY DEF Owner, Held, IsError, Store!store

\* A stamped directory is its backend's.
LEMMA Stamped ==
    ASSUME sidecar = fp, fp \in Backends
    PROVE  Owner = fp /\ Owner \in Backends
  BY ConstantsAssumption DEF Owner

\* The row of one unit is written, by a backend that owns the directory.
LEMMA RowWritten ==
    ASSUME TypeOK, NEW u \in Units, NEW row \in Rows, row.fp = fp,
           sidecar = fp, fp \in Backends,
           ckpt' = [ckpt EXCEPT ![u] = row], UNCHANGED <<sidecar, report>>
    PROVE  Store!Settle(u) \/ Store!Withdraw(u)
  <1>1. Owner = fp /\ Owner \in Backends /\ Owner' = Owner BY Stamped, Unseen
  <1>2. row # NoRow BY ConstantsAssumption
  <1>3. \A v \in Units : ckpt'[v] = IF v = u THEN row ELSE ckpt[v] BY DEF TypeOK
  <1> DEFINE new == IF IsError(row) THEN NoReport ELSE Owner
  <1>4. Held' = [v \in Units |-> IF v = u THEN new ELSE Held[v]]
    BY <1>1, <1>2, <1>3 DEF Held, IsError
  <1>5. Held' = [Held EXCEPT ![u] = new]
    BY <1>4 DEF Held
  <1> QED BY <1>1, <1>5 DEF Store!Settle, Store!Withdraw

LEMMA RefinesInit == Init => Store!StoreInit
  <1> SUFFICES ASSUME Init PROVE Store!StoreInit OBVIOUS
  <1>1. PICK L \in LegacySets :
           /\ ckpt = [u \in Units |-> IF u \in L THEN LegacyRow ELSE NoRow]
           /\ report \in {NoReport, [fp |-> Legacy, by |-> [u \in L |-> Legacy]]}
    BY DEF Init
  <1>2. Owner = Nobody BY DEF Init, Owner
  <1>3. Held \in [Units -> {Legacy, NoReport}]
    BY <1>1 DEF Held, LegacyRow
  <1>4. \/ report = NoReport
        \/ report.fp = Legacy /\ \A u \in DOMAIN report.by : report.by[u] = Legacy
    <2>1. CASE report = NoReport BY <2>1
    <2>2. CASE report = [fp |-> Legacy, by |-> [u \in L |-> Legacy]] BY <2>2
    <2> QED BY <1>1, <2>1, <2>2
  <1> QED BY <1>2, <1>3, <1>4 DEF Store!StoreInit

\* The report shows what the directory holds, and what its run adds.
LEMMA PublishRefines ==
    ASSUME TypeInv, IdentityInv, DurableInv, OwnErrors, Publish
    PROVE  Store!Report
  <1> DEFINE Answered(P) == P \cup {u \in Scope : ~IsError(results[u])}
  <1>0. /\ TypeOK /\ Started /\ NoneForgotten /\ OwnRows
        /\ Phases /\ ConsumedIsDurable /\ sidecar = fp /\ fp \in Backends
    BY DurableParts DEF TypeInv, IdentityInv, GatePassed, Publish, Started
  <1>1. PICK promoted \in SUBSET {u \in Scope : IsError(results[u])} :
           report' = [fp |-> fp, by |-> [u \in Answered(promoted) |-> results[u].fp]]
    BY DEF Publish
  <1>2. report' # NoReport /\ report'.fp = fp BY <1>1, PublishedIsReport
  <1>3. Scope \subseteq Units BY ScopeTyped DEF Publish
  <1>4. ASSUME NEW u \in Answered(promoted)
        PROVE  u \in Units /\ results[u].fp = IF Held[u] # NoReport THEN Held[u] ELSE fp
    <2>1. u \in Scope /\ u \in Units BY <1>3
    <2>2. results[u] # NoRow BY <1>0, <2>1 DEF NoneForgotten, Publish
    <2>3. ckpt[u] = results[u]
      BY <1>0, <2>1, <2>2, ConstantsAssumption DEF ConsumedIsDurable, Phases, Publish
    <2>4. CASE IsError(results[u])
      BY <2>1, <2>2, <2>3, <2>4 DEF OwnErrors, Held
    <2>5. CASE ~IsError(results[u])
      <3>1. results[u].fp # NoReport
        BY <1>0, <2>1, <2>2, MarksAssumption DEF OwnRows
      <3> QED BY <2>1, <2>2, <2>3, <2>5, <3>1 DEF Held
    <2> QED BY <2>1, <2>4, <2>5
  <1>5. DOMAIN report'.by = Answered(promoted)
        /\ \A u \in Answered(promoted) : report'.by[u] = results[u].fp
    BY <1>1
  <1>6. Owner = fp /\ Owner \in Backends /\ Owner' = Owner /\ Held' = Held
    BY <1>0, Stamped, Unseen DEF Publish
  <1> HIDE DEF Answered
  <1> QED BY <1>2, <1>4, <1>5, <1>6 DEF Store!Report

LEMMA RefinesStep ==
    ASSUME TypeInv, IdentityInv, DurableInv, OwnErrors, Retried, [Next]_vars
    PROVE  [Store!StoreNext]_(Store!store)
  <1>0. /\ TypeOK /\ Started /\ GatePassed /\ UnstampedIsLegacy /\ OwnRows
        /\ OneBackendPerDirectory /\ AtWork /\ RetryingUnit
        /\ ConsumedIsDurable /\ Asked
    BY DurableParts DEF TypeInv, IdentityInv
  <1>1. ASSUME UNCHANGED <<sidecar, ckpt, report>>
        PROVE  [Store!StoreNext]_(Store!store)
    BY <1>1, Unseen
  <1>2. CASE AdoptDirectory
    <2>1. fp \in Backends /\ fp # NoSidecar
      BY <1>0, <1>2, ConstantsAssumption DEF AdoptDirectory, Started
    <2>2. CASE sidecar = fp BY <1>1, <1>2, <2>2 DEF AdoptDirectory
    <2>3. CASE sidecar = NoSidecar
      <3>1. Owner = Nobody /\ Owner' = fp
        BY <1>2, <2>1, <2>3, ConstantsAssumption DEF Owner, AdoptDirectory
      <3>2. \A u \in Units : Held[u] \in {Legacy, NoReport}
        BY <1>0, <2>3 DEF Held, UnstampedIsLegacy
      <3>3. Store!Claim(fp) BY <1>2, <3>1, <3>2, Unseen DEF Store!Claim, AdoptDirectory
      <3> QED BY <2>1, <3>3 DEF Store!StoreNext
    <2> QED BY <1>2, <2>2, <2>3 DEF AdoptDirectory
  <1>3. CASE ArchiveDirectory
    <2>1. Owner # Nobody /\ Owner' = Nobody
      BY <1>0, <1>3, ConstantsAssumption, MarksAssumption
      DEF Owner, ArchiveDirectory, TypeOK
    <2>2. Held' = [u \in Units |-> NoReport] BY <1>3 DEF Held, NoRows, ArchiveDirectory
    <2>3. Store!Clear BY <1>3, <2>1, <2>2 DEF Store!Clear, ArchiveDirectory
    <2> QED BY <2>3 DEF Store!StoreNext
  <1>4. CASE StampFresh
    <2>1. fp \in Backends /\ sidecar = NoSidecar /\ fp # NoSidecar /\ fp # Corrupt
      BY <1>0, <1>4, ConstantsAssumption DEF StampFresh, Started, GatePassed
    <2>2. Owner = Nobody /\ Owner' = fp BY <1>4, <2>1 DEF Owner, StampFresh
    <2>3. \A u \in Units : Held[u] \in {Legacy, NoReport}
      BY <1>0, <2>1 DEF Held, UnstampedIsLegacy
    <2>4. Store!Claim(fp) BY <1>4, <2>2, <2>3, Unseen DEF Store!Claim, StampFresh
    <2> QED BY <2>1, <2>4 DEF Store!StoreNext
  <1>5. CASE PreserveReport
    <2>1. CASE OtherReport /\ report' = NoReport
      <3>1. Owner = fp
        BY <1>0, <1>5, Stamped DEF PreserveReport, GatePassed, Started
      <3>2. Store!Retire
        BY <1>5, <2>1, <3>1, Unseen DEF Store!Retire, PreserveReport, OtherReport
      <3> QED BY <3>2 DEF Store!StoreNext
    <2>2. CASE UNCHANGED report BY <1>1, <1>5, <2>2 DEF PreserveReport
    <2> QED BY <1>5, <2>1, <2>2 DEF PreserveReport
  <1>6. ASSUME NEW w \in Workers, WorkerSave(w) PROVE Store!StoreNext
    <2>1. pc \in {"detect", "abort"} /\ worker[w].unit \in Units /\ worker[w].row \in Rows
      BY <1>0, <1>6 DEF WorkerSave, Saving, AtWork, TypeOK
    <2>2. sidecar = fp /\ fp \in Backends /\ worker[w].row.fp = fp
      BY <1>0, <1>6, <2>1 DEF WorkerSave, Saving, GatePassed, Started, OwnRows
    <2>3. \/ Store!Settle(worker[w].unit)
          \/ Store!Withdraw(worker[w].unit)
      BY <1>0, <1>6, <2>1, <2>2, RowWritten DEF WorkerSave
    <2> QED BY <2>1, <2>3 DEF Store!StoreNext
  <1>7. CASE RetrySave
    <2>1. sidecar = fp /\ fp \in Backends /\ retrying \in Units
      BY <1>0, <1>7 DEF RetrySave, GatePassed, Started, RetryingUnit
    <2>2. results[retrying] \in Rows /\ results[retrying].fp = fp
      BY <1>0, <1>7, <2>1 DEF RetrySave, TypeOK, OwnRows, Retried
    <2>3. Store!Settle(retrying) \/ Store!Withdraw(retrying)
      BY <1>0, <1>7, <2>1, <2>2, RowWritten DEF RetrySave
    <2> QED BY <2>1, <2>3 DEF Store!StoreNext
  <1>8. CASE Publish BY <1>8, PublishRefines DEF Store!StoreNext
  <1>9. CASE DamageSidecar
    <2>1. Owner = sidecar /\ Owner' = Unknown
      BY <1>9, ConstantsAssumption DEF Owner, DamageSidecar
    <2>2. Store!LoseClaim BY <1>9, <2>1, Unseen DEF Store!LoseClaim, DamageSidecar
    <2> QED BY <2>2 DEF Store!StoreNext
  <1>10. ASSUME NEW w \in Workers,
                WorkerTake(w) \/ WorkerReply(w) \/ WorkerRejected(w) \/ WorkerSaveFails(w)
         PROVE  UNCHANGED <<sidecar, ckpt, report>>
    BY <1>10 DEF WorkerTake, WorkerReply, WorkerRejected, WorkerSaveFails, disk
  <1>11. ASSUME ConsumeStep PROVE UNCHANGED <<sidecar, ckpt, report>>
    BY <1>11
    DEF ConsumeStep, Consume, ConsumeRejected, ConsumeFailed, CancelPending, disk
  <1>12. ASSUME NEW u \in Units, RetryUnit(u) PROVE UNCHANGED <<sidecar, ckpt, report>>
    BY <1>12 DEF RetryUnit
  <1>13. ASSUME NEW d \in Datasets, NEW b \in Backends, StartRun(d, b)
         PROVE  UNCHANGED <<sidecar, ckpt, report>>
    BY <1>13 DEF StartRun, disk
  <1>14. ASSUME \/ Seed \/ BuildQueue \/ AbortExit \/ DetectDone \/ FinishSummary
                \/ Interrupt \/ Crash \/ UNCHANGED vars
         PROVE  UNCHANGED <<sidecar, ckpt, report>>
    BY <1>14
    DEF Seed, BuildQueue, AbortExit, DetectDone, FinishSummary, Interrupt,
        CancelPending, Crash, vars, disk
  <1> QED
    BY <1>1, <1>2, <1>3, <1>4, <1>5, <1>6, <1>7, <1>8, <1>9, <1>10, <1>11, <1>12,
       <1>13, <1>14
    DEF Next, MainStep, WorkerStep, Environment

\* Whatever the threads, kills and restarts, the output directory behaves as a
\* store of verdicts with one owner, whose reports show what it holds.
THEOREM AnalyzeImplementsStore == Spec => ImplementsVerdictStore
  <1>1. Init => OwnErrors /\ Retried BY DEF Init, OwnErrors, Retried, NoRows
  <1>2. TypeInv /\ IdentityInv /\ DurableInv /\ OwnErrors /\ Retried /\ [Next]_vars
          => [Store!StoreNext]_(Store!store)
    BY RefinesStep
  <1> QED
    BY <1>1, <1>2, OwnErrorsStep, RetriedStep, RefinesInit, IdentityAlways, DurableAlways, PTL
    DEF Spec, ImplementsVerdictStore, Store!StoreSpec

-----------------------------------------------------------------------------
(* The summary.  Each unit of the dataset that has a row in the results is *)
(* counted once, as a verdict or as an error; what is counted as a verdict *)
(* is on disk, and is not stale: it was adopted as fresh, or was asked for *)
(* with the class the dataset has now.                                     *)

\* A verdict on u that the next run would adopt.
Fresh(row, u) == row # NoRow /\ ~IsError(row) => ~IsStale(row, u)

Located ==
    /\ pending \subseteq Scope /\ retryQ \subseteq Scope
    /\ \A w \in Workers : worker[w].unit # NoUnit =>
          worker[w].unit \in Scope /\ Fresh(worker[w].row, worker[w].unit)
    /\ \A f \in finished : f.unit \in Scope /\ (f.out \in Rows => Fresh(f.out, f.unit))
    /\ \A u \in Units : results[u] # NoRow => u \in Scope /\ Fresh(results[u], u)

LEMMA RepliesFresh ==
    ASSUME NEW u, NEW row \in Replies(u) PROVE Fresh(row, u)
  BY DEF Replies, Fresh, IsError, IsStale

LEMMA NothingLocated ==
    ASSUME pending = {}, retryQ = {}, finished = {}, results = NoRows,
           \A w \in Workers : worker[w].unit = NoUnit
    PROVE  Located
  BY DEF Located, NoRows

LEMMA LocatedStep == TypeInv /\ DurableInv /\ Located /\ [Next]_vars => Located'
  <1> SUFFICES ASSUME TypeInv, DurableInv, Located, [Next]_vars PROVE Located'
    OBVIOUS
  <1>0. TypeOK /\ AtWork /\ Phases /\ Asked /\ OnePlace
    BY DurableParts DEF TypeInv
  <1>1. CASE UNCHANGED <<dataset, pending, retryQ, worker, finished, results>>
    BY <1>1 DEF Located, Scope, Fresh, IsError, IsStale
  <1>2. ASSUME NEW d \in Datasets, NEW b \in Backends, StartRun(d, b) PROVE Located'
    BY <1>0, <1>2, NothingLocated
    DEF StartRun, AtWork, Phases, Asked, Located, NoRows
  <1>3. CASE BuildQueue
    <2>1. /\ pending' = {u \in Scope : ~Adoptable(u)} /\ UNCHANGED <<dataset, worker, retryQ>>
          /\ results' = [u \in Units |-> IF u \in Scope /\ Adoptable(u) THEN ckpt[u] ELSE NoRow]
          /\ finished' = {} /\ retryQ = {} /\ \A w \in Workers : worker[w].unit = NoUnit
      BY <1>0, <1>3 DEF BuildQueue, Phases, Asked, AtWork
    <2> QED BY <2>1 DEF Located, Scope, Fresh, IsError, IsStale, Adoptable
  <1>4. ASSUME NEW w \in Workers, WorkerTake(w) PROVE Located'
    <2>1. PICK u \in pending : /\ pending' = pending \ {u}
                               /\ worker' = [worker EXCEPT ![w] = [unit |-> u, row |-> NoRow]]
      BY <1>4 DEF WorkerTake
    <2>2. /\ UNCHANGED <<dataset, retryQ, finished, results>>
          /\ worker'[w].unit = u /\ worker'[w].row = NoRow
          /\ \A x \in Workers : x # w => worker'[x] = worker[x]
      BY <1>0, <1>4, <2>1 DEF WorkerTake, TypeOK
    <2> QED BY <2>1, <2>2 DEF Located, Scope, Fresh, IsError, IsStale
  <1>5. ASSUME NEW w \in Workers, WorkerReply(w) PROVE Located'
    <2>1. PICK row \in Replies(worker[w].unit) : worker' = [worker EXCEPT ![w].row = row]
      BY <1>5 DEF WorkerReply
    <2>2. /\ UNCHANGED <<dataset, pending, retryQ, finished, results>>
          /\ worker'[w].unit = worker[w].unit /\ worker'[w].row = row
          /\ \A x \in Workers : x # w => worker'[x] = worker[x]
      BY <1>0, <1>5, <2>1 DEF WorkerReply, TypeOK
    <2>3. Fresh(row, worker[w].unit) BY <2>1, RepliesFresh
    <2> QED BY <2>2, <2>3 DEF Located, Scope, Fresh, IsError, IsStale
  <1>6. ASSUME NEW w \in Workers, worker[w].unit # NoUnit,
               NEW out, out \in Rows => out = worker[w].row,
               finished' = finished \cup {[unit |-> worker[w].unit, out |-> out]},
               worker' = [worker EXCEPT ![w] = IdleWorker],
               UNCHANGED <<dataset, pending, retryQ, results>>
        PROVE  Located'
    <2>1. /\ worker'[w].unit = NoUnit
          /\ \A x \in Workers : x # w => worker'[x] = worker[x]
      BY <1>0, <1>6 DEF TypeOK, IdleWorker
    <2> QED BY <1>6, <2>1 DEF Located, Scope, Fresh, IsError, IsStale
  <1>7. ASSUME NEW w \in Workers, WorkerRejected(w) \/ WorkerSave(w) \/ WorkerSaveFails(w)
        PROVE  Located'
    BY <1>6, <1>7, ConstantsAssumption
    DEF WorkerRejected, WorkerSave, WorkerSaveFails, Calling, Saving
  <1>8. ASSUME NEW f \in finished, Consume(f) PROVE Located'
    <2>1. /\ finished' = finished \ {f} /\ UNCHANGED <<dataset, pending, retryQ, worker>>
          /\ f.out \in Rows /\ f.unit \in Units /\ results'[f.unit] = f.out
          /\ \A u \in Units : u # f.unit => results'[u] = results[u]
      BY <1>0, <1>8 DEF Consume, TypeOK
    <2> QED BY <2>1 DEF Located, Scope, Fresh, IsError, IsStale
  <1>9. ASSUME NEW f \in finished, ConsumeRejected(f) \/ ConsumeFailed(f) PROVE Located'
    BY <1>9
    DEF ConsumeRejected, CancelPending, ConsumeFailed, process, Located, Scope, Fresh,
        IsError, IsStale
  <1>10. CASE Interrupt
    BY <1>10 DEF Interrupt, CancelPending, Located, Scope, Fresh, IsError, IsStale
  <1>11. CASE DetectDone
    BY <1>11 DEF DetectDone, Located, Scope, Fresh, IsError, IsStale
  <1>12. ASSUME NEW u \in Units, RetryUnit(u) PROVE Located'
    <2>1. PICK row \in Replies(u) : results' = [results EXCEPT ![u] = row]
      BY <1>12 DEF RetryUnit
    <2>2. /\ UNCHANGED <<dataset, pending, worker, finished>> /\ retryQ' = retryQ \ {u}
          /\ u \in retryQ /\ results'[u] = row
          /\ \A v \in Units : v # u => results'[v] = results[v]
      BY <1>0, <1>12, <2>1 DEF RetryUnit, TypeOK
    <2>3. Fresh(row, u) BY RepliesFresh
    <2> QED BY <2>2, <2>3 DEF Located, Scope, Fresh, IsError, IsStale
  <1>13. CASE AbortExit \/ Publish \/ Crash
    <2>1. ProcessGone BY <1>13 DEF AbortExit, Publish, Crash
    <2>2. \A w \in Workers : worker'[w].unit = NoUnit BY <2>1 DEF ProcessGone, IdleWorker
    <2> QED BY <2>1, <2>2 DEF ProcessGone, Located, NoRows
  <1>14. ASSUME \/ AdoptDirectory \/ ArchiveDirectory \/ StampFresh \/ PreserveReport
                \/ Seed \/ RetrySave \/ FinishSummary \/ DamageSidecar \/ UNCHANGED vars
         PROVE  UNCHANGED <<dataset, pending, retryQ, worker, finished, results>>
    BY <1>14
    DEF AdoptDirectory, ArchiveDirectory, StampFresh, PreserveReport, Seed, RetrySave,
        FinishSummary, DamageSidecar, process, vars
  <1> QED
    BY <1>1, <1>2, <1>3, <1>4, <1>5, <1>7, <1>8, <1>9, <1>10, <1>11, <1>12, <1>13, <1>14
    DEF Next, MainStep, ConsumeStep, WorkerStep, Environment

Counting == {"detect", "abort", "retry", "retrySave", "publish"}

Settled    == {u \in Scope : results[u] # NoRow /\ ~IsError(results[u])}
Failed     == {u \in Scope : results[u] # NoRow /\ IsError(results[u])}
Adoptables == {u \in Scope : Adoptable(u)}

Counted ==
    /\ pc = "queue" => completed = Cardinality(Adoptables) /\ errors = 0
    /\ pc \in Counting => completed = Cardinality(Settled) /\ errors = Cardinality(Failed)
    /\ pc \in Counting \cup {"queue"} =>
          \E phase : /\ summary = SummaryOf(phase, completed, errors)
                     /\ pc = "publish" => phase = "done"

LEMMA ScopeFinite ==
    ASSUME TypeInv, pc # "idle", NEW S, S \subseteq Scope
    PROVE  IsFiniteSet(S) /\ Cardinality(S) \in Nat /\ Cardinality(S) <= Cardinality(Scope)
           /\ Cardinality(Scope) \in Nat
  <1>1. Scope \subseteq Units BY ScopeTyped
  <1>2. IsFiniteSet(Scope) BY <1>1, ConstantsAssumption, FS_Subset
  <1> QED BY <1>2, FS_Subset, FS_CardinalityType

\* A unit's row is counted with what it says.
LEMMA RowCounted ==
    ASSUME TypeInv, pc \in Counting, pc' \in Counting, pc' # "publish",
           completed = Cardinality(Settled), errors = Cardinality(Failed),
           NEW u \in Scope, NEW row \in Rows, results' = [results EXCEPT ![u] = row],
           UNCHANGED dataset,
           summary' = SummaryOf("in_progress", completed', errors'),
           \/ results[u] = NoRow /\ CountOutcome(row)
           \/ results[u] # NoRow /\ IsError(results[u]) /\ CountRetry(row)
    PROVE  Counted'
  <1>0. /\ pc # "idle" /\ Scope' = Scope /\ u \in Units
        /\ pc' # "queue" /\ pc' \in Counting
    BY ScopeTyped DEF Counting, Scope
  <1>1. /\ results'[u] = row /\ row # NoRow
        /\ \A v \in Scope : v # u => results'[v] = results[v]
    BY <1>0, ScopeTyped, ConstantsAssumption DEF TypeInv, TypeOK
  <1>2. Settled \subseteq Scope /\ Failed \subseteq Scope BY DEF Settled, Failed
  <1>3. /\ IsFiniteSet(Settled) /\ IsFiniteSet(Failed)
        /\ Cardinality(Settled) \in Nat /\ Cardinality(Failed) \in Nat
    BY <1>0, <1>2, ScopeFinite
  <1>4. ASSUME results[u] = NoRow, CountOutcome(row)
        PROVE  completed' = Cardinality(Settled') /\ errors' = Cardinality(Failed')
    <2>1. u \notin Settled /\ u \notin Failed BY <1>4 DEF Settled, Failed
    <2>2. CASE IsError(row)
      <3>1. Settled' = Settled /\ Failed' = Failed \cup {u}
        BY <1>0, <1>1, <1>4, <2>2 DEF Settled, Failed, IsError
      <3> QED BY <1>3, <1>4, <2>1, <2>2, <3>1, FS_AddElement DEF CountOutcome
    <2>3. CASE ~IsError(row)
      <3>1. Failed' = Failed /\ Settled' = Settled \cup {u}
        BY <1>0, <1>1, <1>4, <2>3 DEF Settled, Failed, IsError
      <3> QED BY <1>3, <1>4, <2>1, <2>3, <3>1, FS_AddElement DEF CountOutcome
    <2> QED BY <2>2, <2>3
  <1>5. ASSUME results[u] # NoRow, IsError(results[u]), CountRetry(row)
        PROVE  completed' = Cardinality(Settled') /\ errors' = Cardinality(Failed')
    <2>1. u \notin Settled /\ u \in Failed BY <1>5 DEF Settled, Failed
    <2>2. CASE IsError(row)
      <3>1. Settled' = Settled /\ Failed' = Failed
        BY <1>0, <1>1, <1>5, <2>2 DEF Settled, Failed, IsError
      <3> QED BY <1>5, <2>2, <3>1 DEF CountRetry
    <2>3. CASE ~IsError(row)
      <3>1. Failed' = Failed \ {u} /\ Settled' = Settled \cup {u}
        BY <1>0, <1>1, <1>5, <2>3 DEF Settled, Failed, IsError
      <3>2. /\ Cardinality(Settled') = Cardinality(Settled) + 1
            /\ Cardinality(Failed') = Cardinality(Failed) - 1
        BY <1>3, <2>1, <3>1, FS_AddElement, FS_RemoveElement
      <3>3. Cardinality(Failed) > 0
        <4>1. Failed # {} BY <2>1
        <4> QED BY <1>3, <4>1, FS_EmptySet
      <3> QED BY <1>3, <1>5, <2>3, <3>2, <3>3 DEF CountRetry
    <2> QED BY <2>2, <2>3
  <1>6. completed' = Cardinality(Settled') /\ errors' = Cardinality(Failed')
    BY <1>4, <1>5
  <1>7. summary' = SummaryOf("in_progress", completed, errors)'
    BY <1>0 DEF SummaryOf
  <1> QED BY <1>0, <1>6, <1>7 DEF Counted

LEMMA CountedStep ==
    TypeInv /\ DurableInv /\ Located /\ Counted /\ [Next]_vars => Counted'
  <1> SUFFICES ASSUME TypeInv, DurableInv, Located, Counted, [Next]_vars PROVE Counted'
    OBVIOUS
  <1>0. TypeOK /\ AtWork /\ Phases /\ Asked /\ OnePlace
    BY DurableParts DEF TypeInv
  <1>1. ASSUME pc' \notin Counting \cup {"queue"} PROVE Counted' BY <1>1 DEF Counted
  <1>2. ASSUME UNCHANGED <<dataset, results, completed, errors, summary>>,
               pc' \in Counting => pc \in Counting, pc' # "queue",
               pc' = "publish" => pc = "publish"
        PROVE  Counted'
    <2>1. Settled' = Settled /\ Failed' = Failed /\ Scope' = Scope
      BY <1>2 DEF Settled, Failed, Scope, IsError
    <2> QED BY <1>2, <2>1 DEF Counted, SummaryOf
  <1>3. CASE Seed
    <2>1. /\ pc' = "queue" /\ UNCHANGED <<ckpt, dataset>> /\ errors' = 0
          /\ completed' = Cardinality(Adoptables)
          /\ summary' = SummaryOf("in_progress", completed', 0)
      BY <1>3 DEF Seed, Adoptables
    <2>2. Adoptables' = Adoptables /\ Scope' = Scope
      BY <2>1 DEF Adoptables, Adoptable, IsError, IsStale, Scope
    <2> QED BY <2>1, <2>2 DEF Counted, SummaryOf, Counting
  <1>4. CASE BuildQueue
    <2>1. /\ pc = "queue" /\ pc' = "detect"
          /\ UNCHANGED <<dataset, completed, errors, summary>>
          /\ results' = [u \in Units |-> IF u \in Scope /\ Adoptable(u) THEN ckpt[u] ELSE NoRow]
      BY <1>4 DEF BuildQueue, disk
    <2>2. Scope' = Scope /\ Scope \subseteq Units BY <2>1, ScopeTyped DEF Scope
    <2>3. Settled' = Adoptables /\ Failed' = {}
      BY <2>1, <2>2 DEF Settled, Failed, Adoptables, Adoptable, IsError
    <2>4. completed' = Cardinality(Settled') /\ errors' = Cardinality(Failed')
      BY <2>1, <2>3, FS_EmptySet DEF Counted
    <2>5. PICK phase : summary = SummaryOf(phase, completed, errors) BY <2>1 DEF Counted
    <2>6. summary' = SummaryOf(phase, completed, errors)'
      BY <2>1, <2>2, <2>5 DEF SummaryOf
    <2> QED BY <2>1, <2>4, <2>6 DEF Counted
  <1>5. ASSUME NEW f \in finished, Consume(f) PROVE Counted'
    <2>1. /\ f.unit \in Scope /\ f.out \in Rows /\ results[f.unit] = NoRow
          /\ pc = "detect" /\ pc' = "detect" /\ pc \in Counting
      BY <1>0, <1>5 DEF Consume, Located, OnePlace, Counting
    <2>2. completed = Cardinality(Settled) /\ errors = Cardinality(Failed)
      BY <2>1 DEF Counted
    <2> QED BY <1>5, <2>1, <2>2, RowCounted DEF Consume
  <1>6. ASSUME NEW u \in Units, RetryUnit(u) PROVE Counted'
    <2>1. /\ u \in Scope /\ results[u] # NoRow /\ IsError(results[u])
          /\ pc = "retry" /\ pc' = "retrySave" /\ pc \in Counting /\ pc' \in Counting
          /\ UNCHANGED dataset /\ summary' = SummaryOf("in_progress", completed', errors')
      BY <1>0, <1>6 DEF RetryUnit, Located, Asked, Counting
    <2>2. PICK row \in Replies(u) :
             results' = [results EXCEPT ![u] = row] /\ CountRetry(row)
      BY <1>6 DEF RetryUnit
    <2>3. row \in Rows BY <2>1, ReplyTyped
    <2>4. completed = Cardinality(Settled) /\ errors = Cardinality(Failed)
      BY <2>1 DEF Counted
    <2> QED BY <2>1, <2>2, <2>3, <2>4, RowCounted
  <1>7. CASE FinishSummary
    <2>1. /\ pc = "retry" /\ pc' = "publish" /\ summary' = SummaryOf("done", completed, errors)
          /\ UNCHANGED <<dataset, results, completed, errors>>
      BY <1>7 DEF FinishSummary, process
    <2>2. Settled' = Settled /\ Failed' = Failed /\ Scope' = Scope
      BY <2>1 DEF Settled, Failed, Scope, IsError
    <2>3. summary' = SummaryOf("done", completed, errors)' BY <2>1, <2>2 DEF SummaryOf
    <2> QED BY <2>1, <2>2, <2>3 DEF Counted, Counting
  <1>8. ASSUME NEW w \in Workers, WorkerStep(w) PROVE Counted'
    <2>1. /\ UNCHANGED <<pc, dataset, results, completed, errors, summary>>
          /\ worker[w].unit # NoUnit \/ pc \in {"detect", "abort"}
      BY <1>8
      DEF WorkerStep, WorkerTake, WorkerReply, WorkerRejected, WorkerSave, WorkerSaveFails,
          Calling, Saving, disk
    <2>2. pc \in {"detect", "abort"} BY <1>0, <1>8, <2>1 DEF AtWork
    <2> QED BY <1>2, <2>1, <2>2
  <1>9. ASSUME NEW f \in finished, ConsumeRejected(f) \/ ConsumeFailed(f) PROVE Counted'
    <2>1. /\ pc = "detect" /\ pc' = "abort"
          /\ UNCHANGED <<dataset, results, completed, errors, summary>>
      BY <1>9 DEF ConsumeRejected, CancelPending, ConsumeFailed, process, disk
    <2> QED BY <1>2, <2>1 DEF Counting
  <1>10. CASE Interrupt \/ DetectDone \/ RetrySave
    <2>1. /\ pc \in Counting /\ pc' \in {"abort", "retry"}
          /\ UNCHANGED <<dataset, results, completed, errors, summary>>
      BY <1>10 DEF Interrupt, CancelPending, DetectDone, RetrySave, disk, Counting
    <2> QED BY <1>2, <2>1
  <1>11. CASE \/ AdoptDirectory \/ ArchiveDirectory \/ StampFresh \/ PreserveReport
              \/ AbortExit \/ Publish \/ Crash \/ DamageSidecar
              \/ \E d \in Datasets, b \in Backends : StartRun(d, b)
    BY <1>1, <1>11
    DEF AdoptDirectory, ArchiveDirectory, StampFresh, PreserveReport, AbortExit, Publish,
        Crash, DamageSidecar, StartRun, ProcessGone, Counting
  <1>12. CASE UNCHANGED vars
    <2>1. UNCHANGED <<pc, ckpt, dataset, results, completed, errors, summary>>
      BY <1>12 DEF vars, disk, process
    <2>2. /\ Settled' = Settled /\ Failed' = Failed /\ Scope' = Scope
          /\ Adoptables' = Adoptables
      BY <2>1 DEF Settled, Failed, Scope, Adoptables, Adoptable, IsError, IsStale
    <2> QED BY <2>1, <2>2 DEF Counted, SummaryOf
  <1> QED
    BY <1>3, <1>4, <1>5, <1>6, <1>7, <1>8, <1>9, <1>10, <1>11, <1>12
    DEF Next, MainStep, ConsumeStep, Environment

LEMMA SummaryRight ==
    ASSUME TypeInv, DurableInv, Located, Counted PROVE SummaryAccounts
  <1>0. Phases /\ ConsumedIsDurable /\ NoneForgotten BY DurableParts DEF TypeInv
  <1>1. ASSUME pc \in Counting \cup {"queue"}
        PROVE  /\ pc # "idle" /\ Scope \subseteq Units
               /\ summary.completed = completed /\ summary.errors = errors
               /\ summary.total = Cardinality(Scope)
               /\ pc = "publish" => summary.phase = "done"
    BY <1>1, ScopeTyped DEF Counted, SummaryOf, Counting
  <1>2. ASSUME pc \in Counting
        PROVE  /\ completed + errors <= Cardinality(Scope)
               /\ completed <= Cardinality(Adoptables)
                                 + (IF pc = "retrySave" THEN 1 ELSE 0)
    <2>0. pc # "idle" /\ Scope \subseteq Units BY <1>1, <1>2
    <2>1. completed = Cardinality(Settled) /\ errors = Cardinality(Failed)
      BY <1>2 DEF Counted
    <2>2. /\ Settled \subseteq Scope /\ Failed \subseteq Scope /\ Settled \cap Failed = {}
          /\ Adoptables \subseteq Scope
      BY DEF Settled, Failed, Adoptables
    <2>3. /\ IsFiniteSet(Settled) /\ IsFiniteSet(Failed) /\ IsFiniteSet(Adoptables)
          /\ Cardinality(Settled) \in Nat /\ Cardinality(Failed) \in Nat
          /\ Cardinality(Adoptables) \in Nat
      BY <2>0, <2>2, ScopeFinite
    <2>4. Cardinality(Settled \cup Failed) = Cardinality(Settled) + Cardinality(Failed)
      <3>1. Cardinality(Settled \cap Failed) = 0 BY <2>2, FS_EmptySet
      <3>2. Cardinality(Settled \cup Failed) =
               Cardinality(Settled) + Cardinality(Failed) - Cardinality(Settled \cap Failed)
        BY <2>3, FS_Union
      <3> QED BY <2>3, <3>1, <3>2
    <2>5. Cardinality(Settled \cup Failed) <= Cardinality(Scope)
      <3>1. Settled \cup Failed \subseteq Scope BY <2>2
      <3> QED BY <2>0, <3>1, ScopeFinite
    <2>6. Settled \ {retrying} \subseteq Adoptables
      <3> SUFFICES ASSUME NEW u \in Settled, u # retrying PROVE Adoptable(u)
        BY <2>2 DEF Adoptables
      <3>1. u \in Units /\ results[u] # NoRow /\ ~IsError(results[u])
        BY <2>0 DEF Settled
      <3>2. ckpt[u] = results[u] /\ ~IsStale(results[u], u)
        BY <1>0, <3>1 DEF ConsumedIsDurable, Located, Fresh
      <3> QED BY <3>1, <3>2 DEF Adoptable
    <2>7. CASE pc = "retrySave"
      <3>1. Settled \subseteq Adoptables \cup {retrying} BY <2>6
      <3>2. /\ IsFiniteSet(Adoptables \cup {retrying})
            /\ Cardinality(Adoptables \cup {retrying}) \in Nat
            /\ Cardinality(Adoptables \cup {retrying}) <= Cardinality(Adoptables) + 1
        <4>1. /\ IsFiniteSet(Adoptables \cup {retrying})
              /\ \/ Cardinality(Adoptables \cup {retrying}) = Cardinality(Adoptables)
                 \/ Cardinality(Adoptables \cup {retrying}) = Cardinality(Adoptables) + 1
          BY <2>3, FS_AddElement
        <4> HIDE DEF Adoptables
        <4> QED BY <2>3, <4>1
      <3>3. Cardinality(Settled) <= Cardinality(Adoptables \cup {retrying})
        BY <3>1, <3>2, FS_Subset
      <3> QED BY <2>1, <2>3, <2>4, <2>5, <2>7, <3>2, <3>3
    <2>8. CASE pc # "retrySave"
      <3>1. retrying \notin Settled
        BY <1>0, <2>0, <2>8, ConstantsAssumption DEF Phases, Settled
      <3>2. Settled \subseteq Adoptables BY <2>6, <3>1
      <3>3. Cardinality(Settled) <= Cardinality(Adoptables) BY <2>3, <3>2, FS_Subset
      <3> QED BY <2>1, <2>3, <2>4, <2>5, <2>8, <3>3
    <2> QED BY <2>7, <2>8
  <1>3. ASSUME pc = "queue"
        PROVE  completed + errors <= Cardinality(Scope) /\ completed <= Cardinality(Adoptables)
    <2>1. completed = Cardinality(Adoptables) /\ errors = 0 BY <1>3 DEF Counted
    <2>2. Adoptables \subseteq Scope /\ pc # "idle" BY <1>3 DEF Adoptables
    <2> QED BY <2>1, <2>2, ScopeFinite
  <1>4. ASSUME pc = "publish"
        PROVE  /\ \A u \in Scope : results[u] # NoRow
               /\ completed = Cardinality({u \in Scope : ~IsError(results[u])})
               /\ errors = Cardinality({u \in Scope : IsError(results[u])})
    <2>1. \A u \in Scope : results[u] # NoRow BY <1>0, <1>4 DEF NoneForgotten
    <2>2. /\ Settled = {u \in Scope : ~IsError(results[u])}
          /\ Failed = {u \in Scope : IsError(results[u])}
      BY <2>1 DEF Settled, Failed
    <2> QED BY <1>4, <2>1, <2>2 DEF Counted, Counting
  <1>5. ASSUME pc \in Counting \cup {"queue"}
        PROVE  /\ completed + errors <= Cardinality(Scope)
               /\ completed <= Cardinality(Adoptables)
                                 + (IF pc = "retrySave" THEN 1 ELSE 0)
    <2>1. CASE pc = "queue"
      <3>1. completed \in Nat /\ Cardinality(Adoptables) \in Nat
        <4>1. Adoptables \subseteq Scope /\ pc # "idle" BY <2>1 DEF Adoptables
        <4> QED BY <4>1, ScopeFinite DEF TypeInv, TypeOK
      <3> QED BY <1>3, <2>1, <3>1
    <2> QED BY <1>2, <1>5, <2>1
  <1> QED
    BY <1>1, <1>4, <1>5 DEF SummaryAccounts, Adoptables, Counting

\* _seed_summary, _summary_callback and the retry: the summary counts each unit
\* once, and no verdict that is not on disk, the retried row in flight apart.
THEOREM SummaryCounts == Spec => []SummaryAccounts
  <1>1. Init => Located
    BY NothingLocated DEF Init, IdleWorker
  <1>2. Init => Counted BY DEF Init, Counted, Counting
  <1>3. TypeInv /\ DurableInv /\ Located /\ Counted => SummaryAccounts BY SummaryRight
  <1> QED
    BY <1>1, <1>2, <1>3, TypeInit, DurableInit, TypeStep, DurableStep, LocatedStep,
       CountedStep, PTL
    DEF Spec
=============================================================================
