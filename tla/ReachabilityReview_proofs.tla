--------------------- MODULE ReachabilityReview_proofs ---------------------
(***************************************************************************)
(* What the reachability pass guarantees, for any dataset, signals, batch  *)
(* size, number of passes and edits, and wherever a save fails or the pass *)
(* is killed.  A unit's record, the stash and what is still to be written  *)
(* of it are together what the pass returns of it; a unit is in one of the *)
(* queue, the batch and the records; and each lost reply is counted with   *)
(* the units it was about.                                                 *)
(***************************************************************************)
EXTENDS ReachabilityRefilter, FiniteSetTheorems, WellFoundedInduction, TLAPS

Places == {"idle", "loop", "attempt", "split", "halves", "commit", "save", "publish",
           "returned", "filtered"}
Asking == {"attempt", "split", "halves", "commit"}

ReviewTypes ==
    /\ disk \in [Ids -> {NoRecord} \cup SUBSET Keys]
    /\ base \in [Ids -> {NoRecord} \cup SUBSET Keys]
    /\ stash \in [Ids -> SUBSET Keys]
    /\ returned \subseteq Ids \X Keys /\ parsed \subseteq Ids \X Keys
    /\ queue \subseteq Ids /\ batch \subseteq Ids /\ accepted \subseteq Ids
    /\ adopted \subseteq Ids /\ reviewed \subseteq Ids
    /\ writing \subseteq Ids /\ flushing \subseteq Ids
    /\ pc \in Places

\* What is queued, asked for or about to be written has no record of this pass.
Unrecorded ==
    /\ \A u \in queue \cup writing : base[u] = NoRecord
    /\ queue \cap writing = {}
    /\ pc \in Asking => /\ \A u \in batch : base[u] = NoRecord
                        /\ queue \cap batch = {}
    /\ pc \in {"halves", "commit"} => accepted \subseteq batch
    /\ pc \in {"attempt", "split"} => accepted = {}
    /\ pc = "halves" => /\ halves \in Seq(SUBSET batch)
                        /\ halves # <<>>
    /\ pc # "save" => writing = {} /\ flushing = {}
    /\ \A u \in flushing : base[u] # NoRecord

\* What the next pass can adopt is what this one knows to be on disk.
OnDiskKnown == pc # "idle" => \A u \in Ids : Adoptable(u) => base[u] = disk[u]

\* What the pass knows of a unit, wherever it keeps it.
Known(u) == (IF base[u] = NoRecord THEN {} ELSE base[u]) \cup stash[u]
               \cup (IF u \in writing THEN About(u, parsed) ELSE {})

Applied ==
    \A u \in Ids :
        /\ Known(u) = About(u, returned)
        /\ base[u] # NoRecord /\ stash[u] # {} => u \in flushing \cup failed

RecordsInv == ReviewTypes /\ Unrecorded /\ OnDiskKnown /\ Applied

-----------------------------------------------------------------------------
(* Batches.                                                                *)

LEMMA FirstPart == ASSUME NEW n, NEW S PROVE First(n, S) \subseteq S
  BY DEF First

LEMMA RepliesTyped == ASSUME NEW S \in Replies PROVE S \subseteq Ids \X Keys
  BY ReachabilityAssumption

LEMMA NotSets == ASSUME NEW S \in SUBSET Keys PROVE S # NoRecord
  BY ReachabilityAssumption

\* A step that asks, counts or tells touches no record.
LEMMA AskingStep ==
    ASSUME RecordsInv, UNCHANGED <<disk, edited, records>>, pc # "idle", pc' # "idle",
           pc = "save" => pc' = "loop" /\ writing = {} /\ flushing = {},
           pc # "commit", pc' # "save", pc' \in Places, UNCHANGED history,
           queue' \subseteq queue, batch' \subseteq Ids, accepted' \subseteq Ids,
           reviewed' \subseteq Ids, parsed' \subseteq Ids \X Keys,
           pc' \in Asking => /\ pc = "loop" => /\ batch' \subseteq queue
                                               /\ queue' = queue \ batch'
                             /\ pc # "loop" => pc \in Asking /\ batch' = batch,
           pc' \in {"halves", "commit"} => accepted' \subseteq batch',
           pc' \in {"attempt", "split"} => accepted' = {},
           pc' = "halves" => halves' \in Seq(SUBSET batch') /\ halves' # <<>>
    PROVE  RecordsInv'
  <1>1. /\ UNCHANGED <<disk, edited, adopted, base, stash, flushing, writing, returned, failed>>
        /\ writing = {} /\ flushing = {}
    BY DEF records, RecordsInv, Unrecorded
  <1>2. ReviewTypes' BY <1>1 DEF RecordsInv, ReviewTypes
  <1>3. Unrecorded'
    <2>1. pc' \in Asking => (\A u \in batch' : base'[u] = NoRecord) /\ queue' \cap batch' = {}
      BY <1>1 DEF RecordsInv, Unrecorded
    <2> QED BY <1>1, <2>1 DEF RecordsInv, Unrecorded
  <1>4. OnDiskKnown' BY <1>1 DEF RecordsInv, OnDiskKnown, Adoptable
  <1>5. Applied' BY <1>1 DEF RecordsInv, Applied, Known, About
  <1> QED BY <1>2, <1>3, <1>4, <1>5 DEF RecordsInv

LEMMA AskingActions ==
    ASSUME RecordsInv,
           \/ NextBatch \/ Split \/ Publish \/ Finish \/ \E s \in Scans : Refilter(s)
           \/ \E S \in Replies : AttemptOk(S) \/ HalfOk(S)
           \/ \E o \in Losses : AttemptLost(o) \/ HalfLost(o)
    PROVE  RecordsInv'
  <1>0. ReviewTypes /\ Unrecorded BY DEF RecordsInv
  <1>1. CASE NextBatch
    <2>1. /\ pc = "loop" /\ pc' = "attempt" /\ batch' \subseteq queue
          /\ queue' = queue \ batch' /\ parsed' = {} /\ accepted' = {}
          /\ UNCHANGED <<onDisk, records, history, reviewed>>
      BY <1>1, FirstPart DEF NextBatch
    <2> QED BY <1>0, <2>1, AskingStep DEF ReviewTypes, Asking, Places, onDisk
  <1>2. ASSUME NEW S \in Replies, AttemptOk(S) PROVE RecordsInv'
    BY <1>0, <1>2, RepliesTyped, AskingStep
    DEF AttemptOk, ReviewTypes, Asking, Places, onDisk
  <1>3. ASSUME NEW o \in Losses, AttemptLost(o) PROVE RecordsInv'
    BY <1>0, <1>3, AskingStep
    DEF AttemptLost, ReviewTypes, Unrecorded, Asking, Places, onDisk
  <1>4. CASE Split
    <2>1. First((Cardinality(batch) + 1) \div 2, batch) \subseteq batch BY FirstPart
    <2>2. /\ halves' \in Seq(SUBSET batch) /\ halves' # <<>>
          /\ batch' = batch /\ pc = "split" /\ pc' = "halves"
      BY <1>4, <2>1 DEF Split
    <2> QED
      BY <1>0, <1>4, <2>2, AskingStep
      DEF Split, ReviewTypes, Unrecorded, Asking, Places, onDisk
  <1>5. ASSUME pc = "halves", AfterHalf, UNCHANGED records,
               parsed' \subseteq Ids \X Keys, reviewed' \subseteq Ids,
               accepted' \in {accepted, accepted \cup Head(halves)}
        PROVE  RecordsInv'
    <2>1. /\ halves \in Seq(SUBSET batch) /\ halves # <<>> /\ accepted \subseteq batch
      BY <1>0, <1>5 DEF Unrecorded
    <2>2. Head(halves) \subseteq batch /\ Tail(halves) \in Seq(SUBSET batch) BY <2>1
    <2>3. /\ UNCHANGED <<onDisk, queue, batch, records, history>>
          /\ pc' \in {"halves", "publish", "commit"} /\ halves' = Tail(halves)
          /\ pc' = "halves" => halves' # <<>>
      BY <1>5 DEF AfterHalf
    <2>4. accepted' \subseteq batch BY <1>5, <2>1, <2>2
    <2> QED
      BY <1>0, <1>5, <2>2, <2>3, <2>4, AskingStep
      DEF ReviewTypes, Asking, Places, onDisk
  <1>6. ASSUME NEW S \in Replies, HalfOk(S) PROVE RecordsInv'
    <2>1. /\ halves \in Seq(SUBSET batch) /\ halves # <<>> /\ batch \subseteq Ids
          /\ accepted \subseteq Ids
      BY <1>0, <1>6 DEF HalfOk, Unrecorded, ReviewTypes
    <2>2. Head(halves) \subseteq Ids BY <2>1
    <2> QED
      BY <1>0, <1>5, <1>6, <2>1, <2>2, RepliesTyped DEF HalfOk, AfterHalf, ReviewTypes
  <1>7. ASSUME NEW o \in Losses, HalfLost(o) PROVE RecordsInv'
    BY <1>0, <1>5, <1>7 DEF HalfLost, AfterHalf, ReviewTypes
  <1>8. CASE Publish \/ Finish \/ \E s \in Scans : Refilter(s)
    BY <1>0, <1>8, AskingStep
    DEF Publish, Finish, Refilter, ReviewTypes, Asking, Places, replies, onDisk
  <1> QED BY <1>1, <1>2, <1>3, <1>4, <1>6, <1>7, <1>8

-----------------------------------------------------------------------------
(* Signals and records.                                                    *)

\* What the accepted replies say goes to the stash, or into the records that
\* are about to be written.
LEMMA CommitStep == ASSUME RecordsInv, Commit PROVE RecordsInv'
  <1>0. ReviewTypes /\ Unrecorded /\ OnDiskKnown /\ Applied BY DEF RecordsInv
  <1>1. /\ pc = "commit" /\ pc' = "save" /\ returned' = returned \cup parsed
        /\ writing' = accepted /\ accepted \subseteq batch
        /\ flushing' = {u \in Ids : stash'[u] # {} /\ base[u] # NoRecord}
        /\ UNCHANGED <<disk, edited, queue, batch, parsed, accepted, adopted, base, failed,
                       reviewed>>
    BY <1>0 DEF Commit, onDisk, replies, Unrecorded
  <1>2. \A u \in Ids : stash'[u] = IF u \in accepted THEN stash[u]
                                   ELSE stash[u] \cup About(u, parsed)
    BY DEF Commit
  <1>3. \A u \in Ids : About(u, parsed) \subseteq Keys BY DEF About
  <1>4. stash' \in [Ids -> SUBSET Keys] BY <1>0, <1>3 DEF Commit, ReviewTypes
  <1>5. ReviewTypes' BY <1>0, <1>1, <1>4 DEF ReviewTypes, Places
  <1>6. Unrecorded' BY <1>0, <1>1 DEF ReviewTypes, Unrecorded, Asking
  <1>7. OnDiskKnown' BY <1>0, <1>1 DEF OnDiskKnown, Adoptable
  <1>8. Applied'
    <2> SUFFICES ASSUME NEW u \in Ids
                 PROVE  /\ Known(u)' = About(u, returned)'
                        /\ base'[u] # NoRecord /\ stash'[u] # {}
                             => u \in flushing' \cup failed'
      BY DEF Applied
    <2>1. About(u, returned') = About(u, returned) \cup About(u, parsed) BY <1>1 DEF About
    <2>2. Known(u) = (IF base[u] = NoRecord THEN {} ELSE base[u]) \cup stash[u]
      BY <1>0, <1>1 DEF Known, Unrecorded
    <2>3. Known(u) = About(u, returned) BY <1>0 DEF Applied
    <2>4. About(u, parsed)' = About(u, parsed) BY <1>1 DEF About
    <2>5. Known(u)' = About(u, returned')
      BY <1>1, <1>2, <2>1, <2>2, <2>3, <2>4 DEF Known
    <2> QED BY <1>1, <2>5 DEF About
  <1> QED BY <1>5, <1>6, <1>7, <1>8 DEF RecordsInv

\* A record is written: what is known of its unit is now all in it.
LEMMA RecordStep ==
    ASSUME RecordsInv, NEW u \in Ids, NEW R \in SUBSET Keys, pc = "save", pc' = pc,
           base' = [base EXCEPT ![u] = R], stash' = [stash EXCEPT ![u] = {}],
           R = Known(u), u \notin queue, u \notin writing', u \notin flushing \/ base[u] # NoRecord,
           \/ disk' = [disk EXCEPT ![u] = R] /\ edited' = edited \ {u}
           \/ UNCHANGED <<disk, edited>> /\ ~Adoptable(u),
           flushing' = flushing \ {u}, writing' \in {writing, writing \ {u}},
           UNCHANGED <<replies, adopted, returned>>, failed \subseteq failed'
    PROVE  RecordsInv'
  <1>0. ReviewTypes /\ Unrecorded /\ OnDiskKnown /\ Applied BY DEF RecordsInv
  <1>1. R # NoRecord BY NotSets
  <1>2. /\ base'[u] = R /\ stash'[u] = {}
        /\ \A v \in Ids \ {u} : base'[v] = base[v] /\ stash'[v] = stash[v]
    BY <1>0 DEF ReviewTypes
  <1>3. UNCHANGED <<queue, batch, halves, parsed, accepted, adopted, returned, reviewed>>
    BY DEF replies
  <1>4. ReviewTypes' BY <1>0, <1>3 DEF ReviewTypes
  <1>5. Unrecorded'
    BY <1>0, <1>1, <1>2, <1>3 DEF ReviewTypes, Unrecorded, Asking
  <1>6. OnDiskKnown'
    <2> SUFFICES ASSUME NEW v \in Ids, Adoptable(v)' PROVE base'[v] = disk'[v]
      BY DEF OnDiskKnown
    <2>1. CASE v = u
      BY <1>0, <1>2, <2>1 DEF Adoptable, ReviewTypes
    <2>2. CASE v # u
      <3>1. disk'[v] = disk[v] /\ (v \in edited' <=> v \in edited)
        BY <1>0, <2>2 DEF ReviewTypes
      <3>2. Adoptable(v) BY <3>1 DEF Adoptable
      <3> QED BY <1>0, <1>2, <2>2, <3>1, <3>2 DEF OnDiskKnown
    <2> QED BY <2>1, <2>2
  <1>7. Applied'
    <2> SUFFICES ASSUME NEW v \in Ids
                 PROVE  /\ Known(v)' = About(v, returned)'
                        /\ base'[v] # NoRecord /\ stash'[v] # {}
                             => v \in flushing' \cup failed'
      BY DEF Applied
    <2>1. /\ Known(v) = About(v, returned)
          /\ base[v] # NoRecord /\ stash[v] # {} => v \in flushing \cup failed
          /\ About(v, returned)' = About(v, returned) /\ About(v, parsed)' = About(v, parsed)
      BY <1>0, <1>3 DEF Applied, About
    <2>2. CASE v = u
      BY <1>1, <1>2, <2>1, <2>2 DEF Known
    <2>3. CASE v # u
      BY <1>2, <2>1, <2>3 DEF Known
    <2> QED BY <2>2, <2>3
  <1> QED BY <1>4, <1>5, <1>6, <1>7 DEF RecordsInv

LEMMA SaveStep ==
    ASSUME RecordsInv, NEW u \in Ids, Flush(u) \/ FlushFails(u) \/ Write(u) \/ WriteFails(u)
    PROVE  RecordsInv'
  <1>0. ReviewTypes /\ Unrecorded /\ OnDiskKnown /\ Applied BY DEF RecordsInv
  <1>1. CASE Flush(u)
    <2>1. u \notin queue /\ u \notin writing /\ base[u] # NoRecord
      BY <1>0, <1>1 DEF Flush, Unrecorded
    <2>2. Flushed(u) = Known(u) BY <2>1 DEF Flushed, Known
    <2>3. base[u] \in SUBSET Keys /\ stash[u] \in SUBSET Keys BY <1>0, <2>1 DEF ReviewTypes
    <2>4. Flushed(u) \in SUBSET Keys BY <2>3 DEF Flushed
    <2> QED BY <1>1, <2>1, <2>2, <2>4, RecordStep DEF Flush
  <1>2. CASE FlushFails(u)
    <2>1. /\ flushing' = flushing \ {u} /\ failed' = failed \cup {u} /\ pc' = pc
          /\ UNCHANGED <<disk, edited, queue, batch, halves, parsed, accepted, adopted, base,
                         stash, writing, returned, reviewed>>
      BY <1>2 DEF FlushFails, onDisk, replies
    <2>2. ReviewTypes' BY <1>0, <2>1 DEF ReviewTypes
    <2>3. Unrecorded' BY <1>0, <2>1 DEF Unrecorded
    <2>4. OnDiskKnown' BY <1>0, <2>1 DEF OnDiskKnown, Adoptable
    <2>5. Applied' BY <1>0, <2>1 DEF Applied, Known, About
    <2> QED BY <2>2, <2>3, <2>4, <2>5 DEF RecordsInv
  <1>3. CASE Write(u) \/ WriteFails(u)
    <2>1. /\ Keep(u) /\ pc = "save" /\ u \in writing /\ u \notin queue /\ base[u] = NoRecord
          /\ flushing = {}
      BY <1>0, <1>3 DEF Write, WriteFails, Keep, Unrecorded
    <2>2. Own(u) = Known(u) BY <2>1 DEF Own, Known
    <2>3. About(u, parsed) \in SUBSET Keys /\ stash[u] \in SUBSET Keys
      BY <1>0 DEF About, ReviewTypes
    <2>4. Own(u) \in SUBSET Keys BY <2>3 DEF Own
    <2>5. ~Adoptable(u)
      <3>1. Adoptable(u) => base[u] = disk[u] BY <1>0, <2>1 DEF OnDiskKnown
      <3> QED BY <2>1, <3>1 DEF Adoptable
    <2>6. /\ base' = [base EXCEPT ![u] = Own(u)] /\ stash' = [stash EXCEPT ![u] = {}]
          /\ writing' = writing \ {u} /\ flushing' = flushing \ {u} /\ pc' = pc
          /\ UNCHANGED <<replies, adopted, returned>>
      BY <2>1 DEF Keep
    <2>7. /\ \/ disk' = [disk EXCEPT ![u] = Own(u)] /\ edited' = edited \ {u}
             \/ UNCHANGED <<disk, edited>> /\ ~Adoptable(u)
          /\ failed \subseteq failed'
      BY <1>3, <2>5 DEF Write, WriteFails
    <2> QED BY <2>1, <2>2, <2>4, <2>6, <2>7, RecordStep
  <1> QED BY <1>1, <1>2, <1>3

-----------------------------------------------------------------------------
(* Passes, kills and edits.                                                *)

LEMMA StartStep == ASSUME RecordsInv, StartPass PROVE RecordsInv'
  <1>0. ReviewTypes BY DEF RecordsInv
  <1>1. /\ pc' = "loop" /\ batch' = {} /\ halves' = <<>> /\ parsed' = {} /\ accepted' = {}
        /\ stash' = Empty /\ flushing' = {} /\ writing' = {} /\ reviewed' = {}
        /\ UNCHANGED <<disk, edited>>
    BY DEF StartPass, Memory
  <1>2. /\ adopted' = {u \in Ids : Adoptable(u)} /\ queue' = Ids \ adopted'
        /\ base' = [u \in Ids |-> IF Adoptable(u) THEN disk[u] ELSE NoRecord]
        /\ returned' = {s \in Ids \X Keys : Adoptable(s[1]) /\ s[2] \in disk[s[1]]}
    BY DEF StartPass
  <1>3. Empty \in [Ids -> SUBSET Keys] /\ \A u \in Ids : Empty[u] = {} BY DEF Empty
  <1>4. \A u \in Ids : Adoptable(u)' <=> Adoptable(u) BY <1>1 DEF Adoptable
  <1>5. ReviewTypes' BY <1>0, <1>1, <1>2, <1>3 DEF ReviewTypes, Places
  <1>6. Unrecorded' BY <1>1, <1>2 DEF Unrecorded, Asking
  <1>7. OnDiskKnown' BY <1>1, <1>2, <1>4 DEF OnDiskKnown
  <1>8. Applied'
    <2> SUFFICES ASSUME NEW u \in Ids
                 PROVE  Known(u)' = About(u, returned)' /\ stash'[u] = {}
      BY DEF Applied
    <2>1. Known(u)' = IF Adoptable(u) THEN disk[u] ELSE {}
      BY <1>1, <1>2, <1>3 DEF Known, Adoptable
    <2>2. Adoptable(u) => disk[u] \subseteq Keys BY <1>0 DEF ReviewTypes, Adoptable
    <2>3. About(u, returned') = IF Adoptable(u) THEN disk[u] ELSE {}
      BY <1>2, <2>2 DEF About
    <2> QED BY <1>1, <1>3, <2>1, <2>3 DEF About
  <1> QED BY <1>5, <1>6, <1>7, <1>8 DEF RecordsInv

LEMMA OutsideStep ==
    ASSUME RecordsInv, Gone \/ \E u \in Ids : Edit(u) PROVE RecordsInv'
  <1>0. ReviewTypes /\ Unrecorded /\ Applied BY DEF RecordsInv
  <1>1. CASE Gone
    <2>1. /\ pc' = "idle" /\ batch' = {} /\ halves' = <<>> /\ parsed' = {} /\ accepted' = {}
          /\ stash' = Empty /\ flushing' = {} /\ writing' = {} /\ reviewed' = {}
          /\ queue' = {} /\ adopted' = {} /\ returned' = {}
          /\ base' = [u \in Ids |-> NoRecord] /\ UNCHANGED <<disk, edited>>
      BY <1>1 DEF Gone, Memory, onDisk
    <2>2. Empty \in [Ids -> SUBSET Keys] /\ \A u \in Ids : Empty[u] = {} BY DEF Empty
    <2>3. ReviewTypes' BY <1>0, <2>1, <2>2 DEF ReviewTypes, Places
    <2>4. Unrecorded' BY <2>1 DEF Unrecorded, Asking
    <2>5. OnDiskKnown' BY <2>1 DEF OnDiskKnown
    <2>6. Applied' BY <2>1, <2>2 DEF Applied, Known, About
    <2> QED BY <2>3, <2>4, <2>5, <2>6 DEF RecordsInv
  <1>2. CASE \E u \in Ids : Edit(u)
    <2>1. /\ pc = "idle" /\ pc' = pc
          /\ UNCHANGED <<disk, queue, batch, halves, parsed, accepted, adopted, base, stash,
                         flushing, writing, returned, reviewed, failed>>
      BY <1>2 DEF Edit, replies, records
    <2>2. ReviewTypes' BY <1>0, <2>1 DEF ReviewTypes
    <2>3. Unrecorded' BY <1>0, <2>1 DEF Unrecorded
    <2>4. OnDiskKnown' BY <2>1 DEF OnDiskKnown
    <2>5. Applied' BY <1>0, <2>1 DEF Applied, Known, About
    <2> QED BY <2>2, <2>3, <2>4, <2>5 DEF RecordsInv
  <1> QED BY <1>1, <1>2

LEMMA RecordsInit == RefilterInit => RecordsInv
  <1> SUFFICES ASSUME RefilterInit PROVE RecordsInv OBVIOUS
  <1>1. Empty \in [Ids -> SUBSET Keys] /\ \A u \in Ids : Empty[u] = {} BY DEF Empty
  <1>2. ReviewTypes BY <1>1 DEF RefilterInit, Init, ReviewTypes, Places
  <1>3. Unrecorded BY DEF RefilterInit, Init, Unrecorded, Asking
  <1>4. OnDiskKnown BY DEF RefilterInit, Init, OnDiskKnown
  <1>5. Applied BY <1>1 DEF RefilterInit, Init, Applied, Known, About
  <1> QED BY <1>2, <1>3, <1>4, <1>5 DEF RecordsInv

LEMMA RecordsStep == RecordsInv /\ [RefilterNext]_allVars => RecordsInv'
  <1> SUFFICES ASSUME RecordsInv, [RefilterNext]_allVars PROVE RecordsInv'
    OBVIOUS
  <1>1. CASE StartPass BY <1>1, StartStep
  <1>2. CASE Commit BY <1>2, CommitStep
  <1>3. CASE \E u \in Ids : Flush(u) \/ FlushFails(u) \/ Write(u) \/ WriteFails(u)
    BY <1>3, SaveStep
  <1>4. CASE (\E u \in Ids : Edit(u)) \/ NextScan \/ KillScan
    BY <1>4, OutsideStep DEF NextScan, KillScan, Kill
  <1>5. CASE UNCHANGED vars
    BY <1>5
    DEF vars, onDisk, replies, records, history, RecordsInv, ReviewTypes, Unrecorded,
        OnDiskKnown, Adoptable, Applied, Known, About
  <1> QED
    BY <1>1, <1>2, <1>3, <1>4, <1>5, AskingActions
    DEF RefilterNext, ReviewWork, allVars

LEMMA RecordsAlways == RefilterSpec => []RecordsInv
  BY RecordsInit, RecordsStep, PTL DEF RefilterSpec

\* The signal stash and its flush: what the next pass will adopt of a unit is
\* what this one has returned of it, whichever batches said so.
THEOREM AdoptedApplied == RefilterSpec => []AdoptedIsApplied
  <1>1. RecordsInv => AdoptedIsApplied
    <2> SUFFICES ASSUME RecordsInv, pc = "returned", NEW u \in Ids, Adoptable(u)
                 PROVE  /\ disk[u] \cup stash[u] = About(u, returned)
                        /\ stash[u] # {} => u \in failed
      BY DEF AdoptedIsApplied
    <2>1. /\ base[u] = disk[u] /\ base[u] # NoRecord /\ writing = {} /\ flushing = {}
          /\ Known(u) = About(u, returned)
          /\ stash[u] # {} => u \in flushing \cup failed
      BY DEF RecordsInv, Unrecorded, OnDiskKnown, Applied, Adoptable
    <2> QED BY <2>1 DEF Known
  <1> QED BY <1>1, RecordsAlways, PTL

\* record_units and the flush: a signal on disk of an unchanged unit stays.
THEOREM SignalsStay == RefilterSpec => SignalsKept
  <1> DEFINE Keeps ==
        \A u \in Ids : Adoptable(u) /\ disk'[u] # NoRecord => disk[u] \subseteq disk'[u]
  <1>1. RecordsInv /\ [RefilterNext]_allVars => [Keeps]_vars
    <2> SUFFICES ASSUME RecordsInv, RefilterNext, NEW u \in Ids, Adoptable(u)
                 PROVE  disk[u] \subseteq disk'[u]
      BY DEF allVars
    <2>0. ReviewTypes /\ Unrecorded /\ OnDiskKnown BY DEF RecordsInv
    <2>1. ASSUME UNCHANGED disk PROVE disk[u] \subseteq disk'[u] BY <2>1
    <2>2. ASSUME NEW v \in Ids, Flush(v) PROVE disk[u] \subseteq disk'[u]
      <3>1. base[u] = disk[u] BY <2>0, <2>2 DEF OnDiskKnown, Flush
      <3> QED BY <2>0, <2>2, <3>1 DEF Flush, Flushed, ReviewTypes
    <2>3. ASSUME NEW v \in Ids, Write(v) PROVE disk[u] \subseteq disk'[u]
      <3>1. base[v] = NoRecord /\ pc # "idle" BY <2>0, <2>3 DEF Write, Keep, Unrecorded
      <3>2. u # v BY <2>0, <3>1 DEF OnDiskKnown, Adoptable
      <3> QED BY <2>0, <2>3, <3>2 DEF Write, ReviewTypes
    <2> QED
      BY <2>1, <2>2, <2>3
      DEF RefilterNext, ReviewWork, StartPass, NextBatch, Split, Commit, Publish, Finish,
          AttemptOk, HalfOk, AttemptLost, HalfLost, AfterHalf, FlushFails, WriteFails, Edit,
          Refilter, NextScan, KillScan, Kill, Gone, onDisk
  <1> QED BY <1>1, RecordsAlways, PTL DEF SignalsKept, RefilterSpec

-----------------------------------------------------------------------------
(* What was heard is not lost by a kill.  While a signal about an adoptable *)
(* unit is only in the stash, and no save of it has failed, the whole batch *)
(* that raised it is still to be written: that is what the order of flush   *)
(* and own records is for.  Between passes it is on disk, or asked again.   *)

HeardTypes == heard \subseteq [about : Ids, key : Keys, by : SUBSET Ids]

HeardReturned == pc # "idle" => \A h \in heard : h.key \in About(h.about, returned)

HeardUnwritten ==
    pc # "idle" => \A h \in heard : Adoptable(h.about) /\ ~Noted(h) =>
                                     h.about \in failed \/ h.by \subseteq writing

HeardBetween == pc = "idle" => \A h \in heard : Answered(h) => Noted(h)

HeardInv == HeardTypes /\ HeardReturned /\ HeardUnwritten /\ HeardBetween

LEMMA HeardSafe == ASSUME RecordsInv, HeardInv PROVE SignalsHeard
  <1> SUFFICES ASSUME NEW h \in heard, Answered(h), ~Noted(h) PROVE h.about \in failed
    BY DEF SignalsHeard
  <1>1. pc # "idle" BY DEF HeardInv, HeardBetween
  <1>2. PICK v \in h.by : Adoptable(v) BY DEF Answered
  <1>3. Adoptable(h.about) /\ v \in Ids BY DEF Answered, HeardInv, HeardTypes
  <1>4. base[v] # NoRecord
    BY <1>1, <1>2, <1>3 DEF RecordsInv, OnDiskKnown, Adoptable
  <1>5. v \notin writing BY <1>4 DEF RecordsInv, Unrecorded
  <1> QED BY <1>1, <1>2, <1>3, <1>5 DEF HeardInv, HeardUnwritten

\* A signal that an adoptable unit's record lacks waits for a flush, or for none.
LEMMA HeardStashed ==
    ASSUME RecordsInv, HeardInv, pc # "idle", NEW h \in heard,
           Adoptable(h.about), ~Noted(h)
    PROVE  h.about \in flushing \cup failed
  <1>1. h.about \in Ids /\ h.key \in About(h.about, returned)
    BY DEF HeardInv, HeardTypes, HeardReturned
  <1> PICK u \in Ids : u = h.about BY <1>1
  <1>2. base[u] = disk[u] /\ disk[u] # NoRecord
    BY DEF RecordsInv, OnDiskKnown, Adoptable
  <1>3. u \notin writing BY <1>2 DEF RecordsInv, Unrecorded
  <1>4. Known(u) = base[u] \cup stash[u] BY <1>2, <1>3 DEF Known
  <1>5. h.key \in Known(u) BY <1>1 DEF RecordsInv, Applied
  <1>6. h.key \in stash[u] BY <1>2, <1>4, <1>5 DEF Noted
  <1> QED BY <1>2, <1>6 DEF RecordsInv, Applied

\* A step that writes no record and forgets nothing.
LEMMA HeardAlone ==
    ASSUME HeardInv, UNCHANGED <<disk, edited, writing, returned, heard>>,
           pc # "idle", pc' # "idle", failed \subseteq failed'
    PROVE  HeardInv'
BY DEF HeardInv, HeardTypes, HeardReturned, HeardUnwritten, HeardBetween, Adoptable,
       Noted, About

\* A record of w is written, of all that is known of w; while others are in the
\* flush, the batch's own records wait.
LEMMA HeardRecorded ==
    ASSUME RecordsInv, HeardInv, NEW w \in Ids, pc = "save", pc' = pc,
           \/ disk' = [disk EXCEPT ![w] = Known(w)] /\ edited' = edited \ {w}
           \/ UNCHANGED <<disk, edited>> /\ ~Adoptable(w),
           UNCHANGED <<returned, heard>>, failed \subseteq failed',
           writing' = writing \/ flushing = {}
    PROVE  HeardInv'
  <1>0. ReviewTypes BY DEF RecordsInv
  <1>1. HeardTypes' /\ HeardReturned' /\ HeardBetween'
    BY DEF HeardInv, HeardTypes, HeardReturned, HeardBetween, About
  <1>2. ASSUME NEW h \in heard, Adoptable(h.about)', ~Noted(h)'
        PROVE  h.about \in failed' \/ h.by \subseteq writing'
    <2>1. h.about \in Ids /\ h.key \in About(h.about, returned)
      BY DEF HeardInv, HeardTypes, HeardReturned
    <2> PICK u \in Ids : u = h.about BY <2>1
    <2>2. u # w
      <3> SUFFICES ASSUME u = w PROVE FALSE OBVIOUS
      <3>1. h.key \in Known(w) BY <2>1 DEF RecordsInv, Applied
      <3>2. disk' = [disk EXCEPT ![w] = Known(w)] BY <1>2 DEF Adoptable
      <3>3. disk'[w] = Known(w) BY <1>0, <3>2 DEF ReviewTypes
      <3> QED BY <1>2, <3>1, <3>3 DEF Noted, Adoptable
    <2>3. disk'[u] = disk[u] /\ (u \in edited' <=> u \in edited)
      BY <1>0, <2>2 DEF ReviewTypes
    <2>4. Adoptable(h.about) /\ ~Noted(h) BY <1>2, <2>3 DEF Adoptable, Noted
    <2>5. CASE writing' = writing
      BY <2>4, <2>5 DEF HeardInv, HeardUnwritten
    <2>6. CASE flushing = {}
      BY <2>4, <2>6, HeardStashed
    <2> QED BY <2>5, <2>6
  <1>3. HeardUnwritten' BY <1>2 DEF HeardUnwritten
  <1> QED BY <1>1, <1>3 DEF HeardInv

LEMMA HeardSaves ==
    ASSUME RecordsInv, HeardInv, NEW w \in Ids,
           Flush(w) \/ FlushFails(w) \/ Write(w) \/ WriteFails(w)
    PROVE  HeardInv'
  <1>0. ReviewTypes /\ Unrecorded /\ OnDiskKnown BY DEF RecordsInv
  <1>1. CASE Flush(w)
    <2>1. w \notin writing /\ base[w] # NoRecord BY <1>0, <1>1 DEF Flush, Unrecorded
    <2>2. Flushed(w) = Known(w) BY <2>1 DEF Flushed, Known
    <2> QED BY <1>1, <2>2, HeardRecorded DEF Flush, history
  <1>2. CASE FlushFails(w)
    BY <1>2, HeardAlone DEF FlushFails, onDisk, history
  <1>3. CASE Write(w) \/ WriteFails(w)
    <2>1. /\ Keep(w) /\ w \in writing /\ base[w] = NoRecord /\ pc = "save" /\ pc' = pc
          /\ flushing = {} /\ UNCHANGED <<returned, heard>>
      BY <1>0, <1>3 DEF Write, WriteFails, Keep, Unrecorded, history
    <2>2. Own(w) = Known(w) BY <2>1 DEF Own, Known
    <2>3. ~Adoptable(w) BY <1>0, <2>1 DEF OnDiskKnown, Adoptable
    <2>4. /\ \/ disk' = [disk EXCEPT ![w] = Known(w)] /\ edited' = edited \ {w}
             \/ UNCHANGED <<disk, edited>> /\ ~Adoptable(w)
          /\ failed \subseteq failed'
      BY <1>3, <2>2, <2>3 DEF Write, WriteFails
    <2> QED BY <2>1, <2>4, HeardRecorded
  <1> QED BY <1>1, <1>2, <1>3

LEMMA HeardCommit == ASSUME RecordsInv, HeardInv, Commit PROVE HeardInv'
  <1>1. /\ pc = "commit" /\ pc' = "save" /\ returned' = returned \cup parsed
        /\ writing' = accepted /\ flushing = {}
        /\ UNCHANGED <<disk, edited, failed>>
    BY DEF Commit, onDisk, RecordsInv, Unrecorded
  <1>2. parsed \subseteq Ids \X Keys /\ accepted \subseteq Ids
    BY DEF RecordsInv, ReviewTypes
  <1>3. ASSUME NEW h \in heard' \ heard
        PROVE  /\ h \in [about : Ids, key : Keys, by : SUBSET Ids]
               /\ h.key \in About(h.about, parsed) /\ h.by = accepted
    <2>1. PICK s \in parsed : h = [about |-> s[1], key |-> s[2], by |-> accepted]
      BY <1>3 DEF Commit
    <2>2. s = <<s[1], s[2]>> /\ s[1] \in Ids /\ s[2] \in Keys BY <1>2
    <2> QED BY <1>2, <2>1, <2>2 DEF About
  <1>4. HeardTypes' BY <1>3 DEF HeardInv, HeardTypes
  <1>5. HeardReturned'
    <2> SUFFICES ASSUME NEW h \in heard' PROVE h.key \in About(h.about, returned')
      BY DEF HeardReturned, About
    <2> QED BY <1>1, <1>3 DEF HeardInv, HeardReturned, About
  <1>6. HeardUnwritten'
    <2> SUFFICES ASSUME NEW h \in heard', Adoptable(h.about)', ~Noted(h)'
                 PROVE  h.about \in failed' \/ h.by \subseteq writing'
      BY DEF HeardUnwritten
    <2>1. CASE h \in heard
      <3>1. Adoptable(h.about) /\ ~Noted(h) BY <1>1 DEF Adoptable, Noted
      <3> QED BY <1>1, <2>1, <3>1, HeardStashed
    <2>2. CASE h \notin heard
      BY <1>1, <1>3, <2>2
    <2> QED BY <2>1, <2>2
  <1> QED BY <1>1, <1>4, <1>5, <1>6 DEF HeardInv, HeardBetween

LEMMA HeardOutside ==
    ASSUME RecordsInv, HeardInv, StartPass \/ Gone \/ \E u \in Ids : Edit(u)
    PROVE  HeardInv'
  <1>1. CASE StartPass
    <2>1. /\ pc = "idle" /\ pc' = "loop" /\ UNCHANGED <<disk, edited>>
          /\ heard' = {h \in heard : Answered(h)}
          /\ returned' = {s \in Ids \X Keys : Adoptable(s[1]) /\ s[2] \in disk[s[1]]}
      BY <1>1 DEF StartPass, Memory
    <2>2. ASSUME NEW h \in heard'
          PROVE  /\ h \in [about : Ids, key : Keys, by : SUBSET Ids] /\ Noted(h)
                 /\ h.key \in About(h.about, returned')
      <3>1. h \in heard /\ Adoptable(h.about) /\ Noted(h)
        BY <2>1 DEF HeardInv, HeardBetween, Answered
      <3>2. h \in [about : Ids, key : Keys, by : SUBSET Ids] BY <3>1 DEF HeardInv, HeardTypes
      <3> QED BY <2>1, <3>1, <3>2 DEF About, Noted
    <2>3. \A h \in heard' : Noted(h)' BY <2>1, <2>2 DEF Noted
    <2>4. HeardReturned' BY <2>2 DEF HeardReturned, About
    <2> QED
      BY <2>1, <2>2, <2>3, <2>4 DEF HeardInv, HeardTypes, HeardUnwritten, HeardBetween
  <1>2. CASE Gone
    <2>1. /\ pc' = "idle" /\ UNCHANGED <<disk, edited>>
          /\ heard' = {h \in heard : h.about \in failed => Noted(h)}
      BY <1>2 DEF Gone, Memory, onDisk
    <2>2. SignalsHeard BY HeardSafe
    <2>3. ASSUME NEW h \in heard', Answered(h)' PROVE Noted(h)'
      <3>1. h \in heard /\ Answered(h) BY <2>1, <2>3 DEF Answered, Adoptable
      <3>2. Noted(h) BY <2>1, <2>2, <3>1 DEF SignalsHeard
      <3> QED BY <2>1, <3>2 DEF Noted
    <2> QED
      BY <2>1, <2>3
      DEF HeardInv, HeardTypes, HeardReturned, HeardUnwritten, HeardBetween
  <1>3. CASE \E u \in Ids : Edit(u)
    <2>1. /\ pc = "idle" /\ pc' = "idle" /\ edited \subseteq edited'
          /\ UNCHANGED <<disk, heard>>
      BY <1>3 DEF Edit
    <2>2. ASSUME NEW h \in heard', Answered(h)' PROVE Noted(h)'
      <3>1. h \in heard /\ Answered(h) BY <2>1, <2>2 DEF Answered, Adoptable
      <3> QED BY <2>1, <3>1 DEF HeardInv, HeardBetween, Noted
    <2> QED
      BY <2>1, <2>2
      DEF HeardInv, HeardTypes, HeardReturned, HeardUnwritten, HeardBetween
  <1> QED BY <1>1, <1>2, <1>3

LEMMA HeardStep == RecordsInv /\ HeardInv /\ [RefilterNext]_allVars => HeardInv'
  <1> SUFFICES ASSUME RecordsInv, HeardInv, [RefilterNext]_allVars PROVE HeardInv'
    OBVIOUS
  <1>1. CASE StartPass \/ NextScan \/ KillScan \/ \E u \in Ids : Edit(u)
    BY <1>1, HeardOutside DEF NextScan, KillScan, Kill
  <1>2. CASE Commit BY <1>2, HeardCommit
  <1>3. CASE \E u \in Ids : Flush(u) \/ FlushFails(u) \/ Write(u) \/ WriteFails(u)
    BY <1>3, HeardSaves
  <1>4. CASE \/ NextBatch \/ Split \/ Publish \/ Finish \/ \E s \in Scans : Refilter(s)
             \/ \E S \in Replies : AttemptOk(S) \/ HalfOk(S)
             \/ \E o \in Losses : AttemptLost(o) \/ HalfLost(o)
    <2>1. /\ UNCHANGED <<disk, edited, writing, returned, heard, failed>>
          /\ pc # "idle" /\ pc' # "idle"
      BY <1>4
      DEF NextBatch, Split, Publish, Finish, Refilter, AttemptOk, HalfOk, AttemptLost,
          HalfLost, AfterHalf, onDisk, records, history
    <2> QED BY <2>1, HeardAlone
  <1>5. CASE UNCHANGED vars
    BY <1>5
    DEF vars, onDisk, records, history, HeardInv, HeardTypes, HeardReturned, HeardUnwritten,
        HeardBetween, Answered, Noted, Adoptable, About
  <1> QED
    BY <1>1, <1>2, <1>3, <1>4, <1>5 DEF RefilterNext, ReviewWork, allVars

\* Whatever kills, failed saves and edits come between the batch that raises a
\* signal and the pass that adopts its unit: llm_reachability.py:1043-1062.
THEOREM HeardIsKept == RefilterSpec => []SignalsHeard
  <1>1. RefilterInit => HeardInv
    BY DEF RefilterInit, Init, HeardInv, HeardTypes, HeardReturned, HeardUnwritten, HeardBetween
  <1> QED BY <1>1, HeardStep, HeardSafe, RecordsAlways, PTL DEF RefilterSpec

-----------------------------------------------------------------------------
(* Sets of units, and the first of them.                                   *)

LEMMA IdsFinite == ASSUME NEW S, S \subseteq Ids
                   PROVE  /\ IsFiniteSet(S) /\ Cardinality(S) \in Nat /\ Cardinality(S) <= Size
                          /\ Cardinality(S) = Size => S = Ids
  <1>1. IsFiniteSet(Ids) /\ Cardinality(Ids) = Size
    BY ReachabilityAssumption, FS_Interval DEF Ids
  <1> QED BY <1>1, FS_Subset, FS_CardinalityType

LEMMA Parts ==
    ASSUME NEW S, S \subseteq Ids, NEW T, T \subseteq S
    PROVE  Cardinality(S \ T) = Cardinality(S) - Cardinality(T)
  <1>1. S \cap T = T OBVIOUS
  <1>2. IsFiniteSet(S) BY IdsFinite
  <1>3. Cardinality(S \ T) = Cardinality(S) - Cardinality(S \cap T)
    BY <1>2, FS_Difference
  <1> QED BY <1>1, <1>3

LEMMA SmallSets ==
    ASSUME NEW S, S \subseteq Ids
    PROVE  (Cardinality(S) = 0 <=> S = {}) /\ (S # {} => Cardinality(S) >= 1)
  BY IdsFinite, FS_EmptySet

LEMMA Least == ASSUME NEW S, S \subseteq Nat, S # {}
               PROVE  \E n \in S : \A m \in S : n <= m
  <1> DEFINE R == OpToRel(<, Nat)
  <1>1. IsWellFoundedOn(R, Nat) BY NatLessThanWellFounded
  <1>2. \E n \in S : \A m \in S : <<m, n>> \notin R
    <2> HIDE DEF R
    <2> QED BY <1>1, WFMin
  <1>3. PICK n \in S : \A m \in S : <<m, n>> \notin R BY <1>2
  <1>4. \A m \in S : ~(m < n) BY <1>3 DEF OpToRel
  <1> HIDE DEF R
  <1>5. \A m \in S : n <= m BY <1>4
  <1> QED BY <1>5

LEMMA Last == ASSUME NEW S, S \subseteq Ids, S # {}
              PROVE  \E n \in S : \A m \in S : m <= n
  <1> DEFINE B == {n \in Nat : \A m \in S : m <= n}
  <1>1. Size \in B BY ReachabilityAssumption DEF Ids
  <1>2. PICK n \in B : \A b \in B : n <= b BY <1>1, Least
  <1>3. n \in S
    <2> SUFFICES ASSUME n \notin S PROVE FALSE OBVIOUS
    <2>1. \A m \in S : m \in 1..Size /\ m <= n /\ m # n BY <1>2 DEF Ids
    <2>2. n - 1 \in B BY <1>2, <2>1
    <2> QED BY <1>2, <2>2
  <1> QED BY <1>2, <1>3

LEMMA FirstOnes ==
    ASSUME NEW S, S \subseteq Ids, S # {}, NEW n \in Nat
    PROVE  /\ n >= 1 => First(n, S) # {}
           /\ Cardinality(S) > n => First(n, S) # S
  <1>1. ASSUME n >= 1 PROVE First(n, S) # {}
    <2>1. S \subseteq Nat BY DEF Ids
    <2>2. PICK a \in S : \A v \in S : a <= v BY <2>1, Least
    <2>3. {v \in S : v <= a} = {a}
      <3>1. \A v \in S : v <= a => v = a BY <2>1, <2>2
      <3>2. a <= a BY <2>1
      <3> QED BY <3>1, <3>2
    <2>4. Cardinality({a}) = 1 BY FS_Singleton
    <2> QED BY <1>1, <2>3, <2>4 DEF First
  <1>2. ASSUME Cardinality(S) > n PROVE First(n, S) # S
    <2>1. PICK z \in S : \A v \in S : v <= z BY Last
    <2>2. {v \in S : v <= z} = S BY <2>1
    <2>3. Cardinality(S) \in Nat BY IdsFinite
    <2>4. z \notin First(n, S) BY <1>2, <2>2, <2>3 DEF First
    <2> QED BY <2>4
  <1> QED BY <1>1, <1>2

-----------------------------------------------------------------------------
(* What the counters say.                                                  *)

Uncovered == Ids \ (adopted \cup reviewed)

\* The units whose reply is still to come.
ToAsk ==
    queue \cup (IF pc \in {"attempt", "split"} THEN batch ELSE {})
          \cup (IF pc = "halves" THEN UNION {halves[i] : i \in DOMAIN halves} ELSE {})

\* The counters without the batch that is to be split.
Settled == IF pc = "split" THEN Revised ELSE count

CountsRight ==
    /\ Settled \in [Counters -> Nat] /\ ToAsk \subseteq Uncovered
    /\ Settled["units"] + Cardinality(ToAsk) = Cardinality(Uncovered)
    /\ Settled["dropped"] + Settled["failed"] > 0 <=> Settled["units"] > 0
    /\ Settled["truncated"] <= Settled["dropped"]

\* A batch, and each of its halves, is of some units.
BatchesSound ==
    /\ pc \in {"attempt", "split"} => batch # {}
    /\ pc = "split" => Cardinality(batch) >= 2
    /\ pc = "halves" =>
          /\ accepted \subseteq reviewed
          /\ \A i \in DOMAIN halves : halves[i] # {}
          /\ \A i, j \in DOMAIN halves : i # j => halves[i] \cap halves[j] = {}
    /\ pc = "returned" => queue = {}

CoverageInv == BatchesSound /\ (pc # "idle" => CountsRight)

LEMMA NoChange ==
    ASSUME CountsRight, ToAsk' = ToAsk, Uncovered' = Uncovered, Settled' = Settled
    PROVE  CountsRight'
  BY DEF CountsRight

LEMMA Reviewed ==
    ASSUME CountsRight, NEW B, B \subseteq ToAsk, ToAsk' = ToAsk \ B,
           Uncovered' = Uncovered \ B, Settled' = Settled
    PROVE  CountsRight'
  <1>1. ToAsk \subseteq Uncovered /\ Uncovered \subseteq Ids BY DEF CountsRight, Uncovered
  <1>2. /\ Cardinality(ToAsk \ B) = Cardinality(ToAsk) - Cardinality(B)
        /\ Cardinality(Uncovered \ B) = Cardinality(Uncovered) - Cardinality(B)
    BY <1>1, Parts
  <1>3. /\ Cardinality(ToAsk) \in Nat /\ Cardinality(Uncovered) \in Nat
        /\ Cardinality(B) \in Nat
    BY <1>1, IdsFinite
  <1>4. Settled["units"] \in Nat BY DEF CountsRight, Counters
  <1>5. Settled["units"] + Cardinality(ToAsk)' = Cardinality(Uncovered)'
    BY <1>2, <1>3, <1>4 DEF CountsRight
  <1>6. ToAsk' \subseteq Uncovered' BY <1>1
  <1> QED BY <1>5, <1>6 DEF CountsRight

LEMMA Lost ==
    ASSUME CountsRight, NEW o \in Losses, NEW B, B \subseteq ToAsk, B # {},
           ToAsk' = ToAsk \ B, Uncovered' = Uncovered,
           Settled' = [c \in Counters |-> Settled[c] + Delta(o, Cardinality(B))[c]]
    PROVE  CountsRight'
  <1>1. ToAsk \subseteq Uncovered /\ Uncovered \subseteq Ids BY DEF CountsRight, Uncovered
  <1>2. Cardinality(ToAsk \ B) = Cardinality(ToAsk) - Cardinality(B) BY <1>1, Parts
  <1>3. /\ Cardinality(ToAsk) \in Nat /\ Cardinality(Uncovered) \in Nat
        /\ Cardinality(B) \in Nat /\ Cardinality(B) >= 1
    BY <1>1, IdsFinite, SmallSets
  <1>4. /\ Settled["units"] \in Nat /\ Settled["dropped"] \in Nat
        /\ Settled["failed"] \in Nat /\ Settled["truncated"] \in Nat
    BY DEF CountsRight, Counters
  <1>5. /\ Settled'["units"] = Settled["units"] + Cardinality(B)
        /\ Settled'["dropped"] = Settled["dropped"] + IF o = "failed" THEN 0 ELSE 1
        /\ Settled'["failed"] = Settled["failed"] + IF o = "failed" THEN 1 ELSE 0
        /\ Settled'["truncated"] = Settled["truncated"] + IF o = "truncated" THEN 1 ELSE 0
    BY DEF Delta, Counters, Losses
  <1>6. Settled' \in [Counters -> Nat]
    <2>1. \A c \in Counters : Settled'[c] \in Nat BY <1>3, <1>4, <1>5 DEF Counters
    <2> QED BY <2>1
  <1>7. /\ Settled'["units"] + Cardinality(ToAsk') = Cardinality(Uncovered')
        /\ Settled'["dropped"] + Settled'["failed"] > 0 <=> Settled'["units"] > 0
        /\ Settled'["truncated"] <= Settled'["dropped"]
    BY <1>2, <1>3, <1>4, <1>5 DEF CountsRight, Losses
  <1>8. ToAsk' \subseteq Uncovered' BY <1>1
  <1> QED BY <1>6, <1>7, <1>8 DEF CountsRight

\* The half that is tried, and the rest.
LEMMA TriedHalf ==
    ASSUME RecordsInv, CoverageInv, pc = "halves", halves' = Tail(halves)
    PROVE  /\ Head(halves) # {} /\ Head(halves) \subseteq ToAsk /\ Head(halves) \subseteq Ids
           /\ halves # <<>>
           /\ queue \cup UNION {halves'[i] : i \in DOMAIN halves'} = ToAsk \ Head(halves)
           /\ \A i \in DOMAIN halves' : halves'[i] # {}
           /\ \A i, j \in DOMAIN halves' : i # j => halves'[i] \cap halves'[j] = {}
  <1>1. /\ halves \in Seq(SUBSET batch) /\ halves # <<>> /\ queue \cap batch = {}
        /\ batch \subseteq Ids
    BY DEF RecordsInv, Unrecorded, ReviewTypes, Asking
  <1>2. /\ DOMAIN halves = 1..Len(halves) /\ Len(halves) \in Nat /\ Len(halves) >= 1
        /\ DOMAIN halves' = 1..(Len(halves) - 1)
        /\ \A i \in 1..(Len(halves) - 1) : halves'[i] = halves[i + 1]
        /\ Head(halves) = halves[1] /\ Head(halves) \subseteq batch
    BY <1>1
  <1>3. /\ \A i \in DOMAIN halves : halves[i] # {}
        /\ \A i, j \in DOMAIN halves : i # j => halves[i] \cap halves[j] = {}
    BY DEF CoverageInv, BatchesSound
  <1>4. ToAsk = queue \cup UNION {halves[i] : i \in DOMAIN halves} BY DEF ToAsk
  <1>5. \A i \in DOMAIN halves' : i + 1 \in DOMAIN halves /\ i + 1 # 1 BY <1>2
  <1>6. 1 \in DOMAIN halves BY <1>2
  <1>7. queue \cup UNION {halves'[i] : i \in DOMAIN halves'} = ToAsk \ Head(halves)
    <2>1. ASSUME NEW x \in UNION {halves'[i] : i \in DOMAIN halves'}
          PROVE  x \in ToAsk \ Head(halves)
      <3>1. PICK i \in DOMAIN halves' : x \in halves'[i] OBVIOUS
      <3>2. i + 1 \in DOMAIN halves /\ i + 1 # 1 /\ x \in halves[i + 1]
        BY <1>2, <1>5, <3>1
      <3>3. x \notin halves[1] BY <1>3, <1>6, <3>2
      <3> QED BY <1>2, <1>4, <3>2, <3>3
    <2>2. ASSUME NEW x \in ToAsk \ Head(halves), x \notin queue
          PROVE  x \in UNION {halves'[i] : i \in DOMAIN halves'}
      <3>1. PICK i \in DOMAIN halves : x \in halves[i] BY <1>4, <2>2
      <3>2. i # 1 BY <1>2, <2>2, <3>1
      <3>3. i - 1 \in DOMAIN halves' /\ (i - 1) + 1 = i BY <1>2, <3>1, <3>2
      <3>4. halves'[i - 1] = halves[i] BY <1>2, <3>3
      <3> QED BY <3>1, <3>3, <3>4
    <2>3. queue \subseteq ToAsk \ Head(halves) BY <1>1, <1>2, <1>4
    <2> QED BY <2>1, <2>2, <2>3
  <1>8. /\ \A i \in DOMAIN halves' : halves'[i] # {}
        /\ \A i, j \in DOMAIN halves' : i # j => halves'[i] \cap halves'[j] = {}
    <2>1. \A i \in DOMAIN halves' : halves'[i] # {} BY <1>2, <1>3, <1>5
    <2>2. ASSUME NEW i \in DOMAIN halves', NEW j \in DOMAIN halves', i # j
          PROVE  halves'[i] \cap halves'[j] = {}
      <3>1. i + 1 \in DOMAIN halves /\ j + 1 \in DOMAIN halves /\ i + 1 # j + 1
        BY <1>2, <2>2
      <3> QED BY <1>2, <1>3, <3>1
    <2> QED BY <2>1, <2>2
  <1> QED BY <1>1, <1>2, <1>3, <1>4, <1>6, <1>7, <1>8

LEMMA AskedStep ==
    ASSUME RecordsInv, CoverageInv,
           \/ NextBatch \/ Split
           \/ \E S \in Replies : AttemptOk(S) \/ HalfOk(S)
           \/ \E o \in Losses : AttemptLost(o) \/ HalfLost(o)
    PROVE  CoverageInv'
  <1>0. /\ ReviewTypes /\ Unrecorded /\ BatchesSound /\ (pc # "idle" => CountsRight)
        /\ queue \subseteq Ids /\ batch \subseteq Ids
    BY DEF RecordsInv, CoverageInv, ReviewTypes
  <1>1. CASE NextBatch
    <2>1. /\ pc = "loop" /\ pc' = "attempt" /\ queue # {}
          /\ batch' = First(BatchSize, queue) /\ queue' = queue \ batch'
          /\ UNCHANGED <<count, adopted, reviewed>>
      BY <1>1 DEF NextBatch, records
    <2>2. batch' \subseteq queue /\ batch' # {}
      BY <1>0, <2>1, FirstPart, FirstOnes, ReachabilityAssumption
    <2>3. ToAsk' = ToAsk BY <2>1, <2>2 DEF ToAsk
    <2>4. Uncovered' = Uncovered /\ Settled' = Settled BY <2>1 DEF Uncovered, Settled
    <2>5. CountsRight' BY <1>0, <2>1, <2>3, <2>4, NoChange
    <2> QED BY <2>1, <2>2, <2>5 DEF CoverageInv, BatchesSound
  <1>2. ASSUME NEW S \in Replies, AttemptOk(S) PROVE CoverageInv'
    <2>1. /\ pc = "attempt" /\ pc' = "commit" /\ reviewed' = reviewed \cup batch
          /\ UNCHANGED <<queue, batch, count, adopted>>
      BY <1>2 DEF AttemptOk, records
    <2>2. queue \cap batch = {} BY <1>0, <2>1 DEF Unrecorded, Asking
    <2>3. /\ batch \subseteq ToAsk /\ ToAsk' = ToAsk \ batch
          /\ Uncovered' = Uncovered \ batch /\ Settled' = Settled
      BY <2>1, <2>2 DEF ToAsk, Uncovered, Settled
    <2>4. CountsRight' BY <1>0, <2>1, <2>3, Reviewed
    <2> QED BY <2>1, <2>4 DEF CoverageInv, BatchesSound
  <1>3. ASSUME NEW o \in Losses, AttemptLost(o) PROVE CoverageInv'
    <2>1. /\ pc = "attempt" /\ count' = Counted(o, Cardinality(batch)) /\ lost' = o
          /\ pc' \in {"split", "publish"} /\ (pc' = "split" => Cardinality(batch) >= 2)
          /\ UNCHANGED <<queue, batch, adopted, reviewed>>
      BY <1>3 DEF AttemptLost, records
    <2>2. /\ queue \cap batch = {} /\ batch # {} /\ Settled = count /\ CountsRight
          /\ count \in [Counters -> Nat] /\ Cardinality(batch) \in Nat
      BY <1>0, <2>1, IdsFinite DEF Unrecorded, Asking, BatchesSound, Settled, CountsRight
    <2>3. Uncovered' = Uncovered BY <2>1 DEF Uncovered
    <2>4. CASE pc' = "split"
      <3>1. \A c \in Counters : Delta(o, Cardinality(batch))[c] \in Int
        BY <2>2 DEF Delta, Counters
      <3>2. Settled' = [c \in Counters |->
               (count[c] + Delta(o, Cardinality(batch))[c]) - Delta(o, Cardinality(batch))[c]]
        BY <2>1, <2>4 DEF Settled, Revised, Counted
      <3>3. \A c \in Counters :
               (count[c] + Delta(o, Cardinality(batch))[c]) - Delta(o, Cardinality(batch))[c]
                 = count[c]
        BY <2>2, <3>1
      <3>4. Settled' = Settled BY <2>2, <3>2, <3>3
      <3>5. ToAsk' = ToAsk BY <2>1, <2>4 DEF ToAsk
      <3>6. CountsRight' BY <2>2, <2>3, <3>4, <3>5, NoChange
      <3> QED BY <2>1, <2>2, <2>4, <3>6 DEF CoverageInv, BatchesSound
    <2>5. CASE pc' = "publish"
      <3>1. batch \subseteq ToAsk /\ ToAsk' = ToAsk \ batch
        BY <2>1, <2>2, <2>5 DEF ToAsk
      <3>2. Settled' = [c \in Counters |-> Settled[c] + Delta(o, Cardinality(batch))[c]]
        BY <2>1, <2>2, <2>5 DEF Settled, Counted
      <3>3. CountsRight' BY <2>2, <2>3, <3>1, <3>2, Lost
      <3> QED BY <2>5, <3>3 DEF CoverageInv, BatchesSound
    <2> QED BY <2>1, <2>4, <2>5
  <1>4. CASE Split
    <2> DEFINE mid  == (Cardinality(batch) + 1) \div 2
               half == First(mid, batch)
    <2>1. /\ pc = "split" /\ pc' = "halves" /\ count' = Revised
          /\ halves' = <<half, batch \ half>>
          /\ UNCHANGED <<queue, batch, accepted, adopted, reviewed>>
      BY <1>4 DEF Split, records
    <2>2. /\ Cardinality(batch) >= 2 /\ Cardinality(batch) \in Nat /\ batch # {}
          /\ accepted = {}
      BY <1>0, <2>1, IdsFinite DEF BatchesSound, Unrecorded
    <2>3. mid \in Nat /\ mid >= 1 /\ Cardinality(batch) > mid BY <2>2
    <2>4. half \subseteq batch /\ half # {} /\ batch \ half # {}
      <3> HIDE DEF mid
      <3>1. half \subseteq batch BY FirstPart
      <3>2. half # {} /\ half # batch BY <1>0, <2>2, <2>3, FirstOnes
      <3> QED BY <3>1, <3>2
    <2> HIDE DEF half
    <2>5. /\ DOMAIN halves' = {1, 2} /\ halves'[1] = half /\ halves'[2] = batch \ half
      BY <2>1
    <2>6. UNION {halves'[i] : i \in DOMAIN halves'} = batch
      <3>1. {halves'[i] : i \in DOMAIN halves'} = {half, batch \ half} BY <2>5
      <3> QED BY <2>4, <3>1
    <2>7. ToAsk' = ToAsk BY <2>1, <2>6 DEF ToAsk
    <2>8. Uncovered' = Uncovered /\ Settled' = Settled BY <2>1 DEF Uncovered, Settled
    <2>9. CountsRight' BY <1>0, <2>1, <2>7, <2>8, NoChange
    <2>10. BatchesSound' BY <2>1, <2>2, <2>4, <2>5 DEF BatchesSound
    <2> QED BY <2>9, <2>10 DEF CoverageInv
  <1>5. ASSUME NEW S \in Replies, HalfOk(S) PROVE CoverageInv'
    <2>1. /\ pc = "halves" /\ pc' \in {"halves", "publish", "commit"}
          /\ accepted' = accepted \cup Head(halves) /\ reviewed' = reviewed \cup accepted'
          /\ halves' = Tail(halves) /\ (halves' = <<>> => pc' # "halves")
          /\ (halves' # <<>> => pc' = "halves") /\ UNCHANGED <<queue, count, adopted>>
      BY <1>5 DEF HalfOk, AfterHalf, records
    <2>2. accepted \subseteq reviewed BY <1>0, <2>1 DEF BatchesSound
    <2>3. ToAsk' = ToAsk \ Head(halves)
      BY <2>1, TriedHalf DEF ToAsk
    <2>4. Uncovered' = Uncovered \ Head(halves) /\ Settled' = Settled
      BY <2>1, <2>2 DEF Uncovered, Settled
    <2>5. CountsRight' BY <1>0, <2>1, <2>3, <2>4, TriedHalf, Reviewed
    <2>6. BatchesSound' BY <2>1, TriedHalf DEF BatchesSound
    <2> QED BY <2>5, <2>6 DEF CoverageInv
  <1>6. ASSUME NEW o \in Losses, HalfLost(o) PROVE CoverageInv'
    <2>1. /\ pc = "halves" /\ pc' \in {"halves", "publish", "commit"}
          /\ count' = Counted(o, Cardinality(Head(halves))) /\ halves' = Tail(halves)
          /\ (halves' = <<>> => pc' # "halves") /\ (halves' # <<>> => pc' = "halves")
          /\ UNCHANGED <<queue, accepted, reviewed, adopted>>
      BY <1>6 DEF HalfLost, AfterHalf, records
    <2>2. accepted \subseteq reviewed BY <1>0, <2>1 DEF BatchesSound
    <2>3. ToAsk' = ToAsk \ Head(halves) BY <2>1, TriedHalf DEF ToAsk
    <2>4. /\ Uncovered' = Uncovered
          /\ Settled' = [c \in Counters |-> Settled[c] + Delta(o, Cardinality(Head(halves)))[c]]
      BY <2>1 DEF Uncovered, Settled, Counted
    <2>5. CountsRight' BY <1>0, <2>1, <2>3, <2>4, TriedHalf, Lost
    <2>6. BatchesSound' BY <2>1, <2>2, TriedHalf DEF BatchesSound
    <2> QED BY <2>5, <2>6 DEF CoverageInv
  <1> QED BY <1>1, <1>2, <1>3, <1>4, <1>5, <1>6

LEMMA CoverageStep == RecordsInv /\ CoverageInv /\ [RefilterNext]_allVars => CoverageInv'
  <1> SUFFICES ASSUME RecordsInv, CoverageInv, [RefilterNext]_allVars PROVE CoverageInv'
    OBVIOUS
  <1>0. BatchesSound /\ (pc # "idle" => CountsRight) BY DEF CoverageInv
  <1>1. CASE StartPass
    <2>1. /\ pc' = "loop" /\ count' = Nothing /\ reviewed' = {} /\ queue' = Ids \ adopted'
      BY <1>1 DEF StartPass, Memory
    <2>2. /\ Nothing \in [Counters -> Nat] /\ \A c \in Counters : Nothing[c] = 0
      BY DEF Nothing
    <2>3. ToAsk' = Ids \ adopted' /\ Uncovered' = Ids \ adopted' /\ Settled' = Nothing
      BY <2>1 DEF ToAsk, Uncovered, Settled
    <2>4. Cardinality(Ids \ adopted') \in Nat BY IdsFinite
    <2>5. CountsRight' BY <2>2, <2>3, <2>4 DEF CountsRight, Counters
    <2> QED BY <2>1, <2>5 DEF CoverageInv, BatchesSound
  <1>2. ASSUME pc' \notin {"idle", "attempt", "split", "halves"},
               pc \notin {"idle", "attempt", "split", "halves"},
               pc' = "returned" => queue' = {},
               UNCHANGED <<queue, count, adopted, reviewed>>
        PROVE  CoverageInv'
    <2>1. ToAsk' = ToAsk /\ Uncovered' = Uncovered /\ Settled' = Settled
      BY <1>2 DEF ToAsk, Uncovered, Settled
    <2>2. CountsRight' BY <1>0, <1>2, <2>1, NoChange
    <2> QED BY <1>2, <2>2 DEF CoverageInv, BatchesSound
  <1>3. CASE Commit \/ Publish \/ Finish \/ \E s \in Scans : Refilter(s)
    BY <1>2, <1>3 DEF Commit, Publish, Finish, Refilter, replies, records
  <1>4. CASE \E u \in Ids : Flush(u) \/ FlushFails(u) \/ Write(u) \/ WriteFails(u)
    BY <1>2, <1>4 DEF Flush, FlushFails, Write, WriteFails, Keep, replies
  <1>5. ASSUME pc' = "idle" PROVE CoverageInv' BY <1>5 DEF CoverageInv, BatchesSound
  <1>6. CASE (\E u \in Ids : Edit(u)) \/ NextScan \/ KillScan
    BY <1>5, <1>6 DEF Edit, NextScan, KillScan, Kill, Gone, Memory
  <1>7. CASE UNCHANGED vars
    <2>1. UNCHANGED <<pc, queue, batch, halves, lost, accepted, count, adopted, reviewed>>
      BY <1>7 DEF vars, replies, records
    <2>2. ToAsk' = ToAsk /\ Uncovered' = Uncovered /\ Settled' = Settled
      BY <2>1 DEF ToAsk, Uncovered, Settled, Revised
    <2>3. pc # "idle" => CountsRight' BY <1>0, <2>2, NoChange
    <2> QED BY <1>0, <2>1, <2>3 DEF CoverageInv, BatchesSound
  <1> QED
    BY <1>1, <1>3, <1>4, <1>6, <1>7, AskedStep DEF RefilterNext, ReviewWork, allVars

-----------------------------------------------------------------------------
(* What the summary says.                                                  *)

Recorded   == {u \in Ids : disk[u] # NoRecord}
Adoptables == {u \in Ids : Adoptable(u)}

\* No record is counted that is not there to be adopted; a file that is read
\* later may be of an earlier pass, and is still no more than what there is.
TotalsRight ==
    /\ persisted \in Nat
    /\ pc # "idle" => Completed <= Cardinality(Adoptables)
    /\ summary # NoSummary =>
         /\ summary.phase = "done" => Recorded = Ids
         /\ summary.completed \in Nat /\ summary.completed <= Cardinality(Recorded)

LEMMA RecordedSize ==
    /\ Adoptables \subseteq Recorded /\ Recorded \subseteq Ids
    /\ Cardinality(Adoptables) \in Nat /\ Cardinality(Recorded) \in Nat
    /\ Cardinality(Adoptables) <= Cardinality(Recorded)
    /\ Cardinality(Adoptables) = Size => Adoptables = Ids
    /\ Cardinality(Adoptables) <= Size
  <1>1. Adoptables \subseteq Recorded /\ Recorded \subseteq Ids
    BY DEF Adoptables, Recorded, Adoptable
  <1>2. Adoptables \subseteq Ids BY <1>1
  <1> QED BY <1>1, <1>2, IdsFinite, FS_Subset

LEMMA MoreRecorded ==
    ASSUME NEW S, NEW T, S \subseteq T, T \subseteq Ids
    PROVE  Cardinality(S) <= Cardinality(T) /\ Cardinality(S) \in Nat /\ Cardinality(T) \in Nat
  BY IdsFinite, FS_Subset

\* What a write of the summary leaves in the file.
LEMMA SummaryWritten ==
    ASSUME TotalsRight, NEW phase, NEW n, Summarise(phase, n), Recorded' = Recorded,
           n \in Nat, n <= Cardinality(Recorded), phase = "done" => Recorded = Ids
    PROVE  summary' # NoSummary =>
               /\ summary'.phase = "done" => Recorded' = Ids
               /\ summary'.completed \in Nat
               /\ summary'.completed <= Cardinality(Recorded')
  BY DEF TotalsRight, Summarise

LEMMA TotalsStep == RecordsInv /\ TotalsRight /\ [RefilterNext]_allVars => TotalsRight'
  <1> SUFFICES ASSUME RecordsInv, TotalsRight, [RefilterNext]_allVars PROVE TotalsRight'
    OBVIOUS
  <1>0. /\ ReviewTypes /\ Unrecorded /\ OnDiskKnown
        /\ adopted \subseteq Ids /\ Cardinality(adopted) \in Nat /\ persisted \in Nat
    BY IdsFinite DEF RecordsInv, ReviewTypes, TotalsRight
  <1>1. CASE StartPass
    <2>1. /\ adopted' = Adoptables /\ persisted' = 0 /\ UNCHANGED <<disk, edited>>
          /\ Summarise("in_progress", Cardinality(adopted'))
      BY <1>1 DEF StartPass, Memory, Adoptables
    <2>2. Recorded' = Recorded /\ Adoptables' = Adoptables
      BY <2>1 DEF Recorded, Adoptables, Adoptable
    <2>3. Completed' = Cardinality(Adoptables) BY <2>1, RecordedSize DEF Completed
    <2>4. Cardinality(adopted') \in Nat /\ Cardinality(adopted') <= Cardinality(Recorded)
      BY <2>1, RecordedSize
    <2>5. summary' # NoSummary => /\ summary'.phase = "done" => Recorded' = Ids
                                  /\ summary'.completed \in Nat
                                  /\ summary'.completed <= Cardinality(Recorded')
      BY <2>1, <2>2, <2>4, SummaryWritten
    <2> QED BY <2>1, <2>2, <2>3, <2>5, RecordedSize DEF TotalsRight
  <1>2. CASE Publish \/ Finish
    <2>1. /\ pc # "idle" /\ UNCHANGED <<disk, edited, adopted, persisted>>
          /\ \E phase \in {"in_progress", "done"} :
                /\ Summarise(phase, Completed)
                /\ phase = "done" => Completed = Size
      BY <1>2 DEF Publish, Finish, records
    <2>2. Recorded' = Recorded /\ Adoptables' = Adoptables /\ Completed' = Completed
      BY <2>1 DEF Recorded, Adoptables, Adoptable, Completed
    <2>3. /\ Completed \in Nat /\ Completed <= Cardinality(Adoptables)
      BY <1>0, <2>1 DEF Completed, TotalsRight
    <2>4. Completed <= Cardinality(Recorded) /\ (Completed = Size => Recorded = Ids)
      <3>1. Completed <= Cardinality(Recorded) BY <2>3, RecordedSize
      <3>2. ASSUME Completed = Size PROVE Recorded = Ids
        <4>1. Cardinality(Adoptables) = Size
          BY <2>3, <3>2, RecordedSize, ReachabilityAssumption
        <4> QED BY <4>1, RecordedSize
      <3> QED BY <3>1, <3>2
    <2>5. summary' # NoSummary => /\ summary'.phase = "done" => Recorded' = Ids
                                  /\ summary'.completed \in Nat
                                  /\ summary'.completed <= Cardinality(Recorded')
      BY <2>1, <2>2, <2>3, <2>4, SummaryWritten
    <2> QED BY <1>0, <2>1, <2>2, <2>3, <2>5 DEF TotalsRight
  <1>3. ASSUME NEW u \in Ids, NEW R \in SUBSET Keys, pc # "idle", UNCHANGED <<adopted, summary>>,
               disk' = [disk EXCEPT ![u] = R], edited' = edited \ {u},
               \/ UNCHANGED persisted
               \/ persisted' = persisted + 1 /\ ~Adoptable(u)
        PROVE  TotalsRight'
    <2>1. R # NoRecord BY NotSets
    <2>2. /\ Recorded' = Recorded \cup {u} /\ Adoptables' = Adoptables \cup {u}
      BY <1>0, <1>3, <2>1 DEF ReviewTypes, Recorded, Adoptables, Adoptable
    <2>3. /\ Cardinality(Recorded') >= Cardinality(Recorded) /\ Cardinality(Recorded') \in Nat
          /\ Cardinality(Adoptables') >= Cardinality(Adoptables)
          /\ Cardinality(Adoptables') \in Nat
      BY <2>2, MoreRecorded, RecordedSize
    <2>4. u \notin Adoptables => Cardinality(Adoptables') = Cardinality(Adoptables) + 1
      <3>1. IsFiniteSet(Adoptables) BY RecordedSize, IdsFinite
      <3> QED BY <2>2, <3>1, FS_AddElement
    <2>5. Completed' <= Cardinality(Adoptables')
      <3>1. Completed <= Cardinality(Adoptables) BY <1>3 DEF TotalsRight
      <3>2. Cardinality(Adoptables) \in Nat BY RecordedSize
      <3>3. CASE UNCHANGED persisted
        BY <1>0, <1>3, <2>3, <3>1, <3>2, <3>3 DEF Completed
      <3>4. CASE persisted' = persisted + 1 /\ ~Adoptable(u)
        BY <1>0, <1>3, <2>3, <2>4, <3>1, <3>2, <3>4 DEF Completed, Adoptables
      <3> QED BY <1>3, <3>3, <3>4
    <2>6. summary' # NoSummary => /\ summary'.phase = "done" => Recorded' = Ids
                                  /\ summary'.completed \in Nat
                                  /\ summary'.completed <= Cardinality(Recorded')
      <3>1. Recorded = Ids => Recorded' = Ids BY <2>2
      <3>2. summary # NoSummary =>
              /\ summary.phase = "done" => Recorded = Ids
              /\ summary.completed \in Nat /\ summary.completed <= Cardinality(Recorded)
        BY DEF TotalsRight
      <3>3. summary' = summary BY <1>3
      <3>4. Cardinality(Recorded) \in Nat BY RecordedSize
      <3>5. \A n \in Nat : n <= Cardinality(Recorded) => n <= Cardinality(Recorded')
        BY <2>3, <3>4
      <3> HIDE DEF Recorded
      <3> QED BY <3>1, <3>2, <3>3, <3>5
    <2> QED BY <1>0, <1>3, <2>5, <2>6 DEF TotalsRight
  <1>4. ASSUME NEW u \in Ids, Flush(u) PROVE TotalsRight'
    <2>1. base[u] # NoRecord /\ pc # "idle" BY <1>0, <1>4 DEF Flush, Unrecorded
    <2>2. base[u] \in SUBSET Keys /\ stash[u] \in SUBSET Keys
      BY <1>0, <2>1 DEF ReviewTypes
    <2>3. Flushed(u) \in SUBSET Keys BY <2>2 DEF Flushed
    <2> QED BY <1>3, <1>4, <2>1, <2>3 DEF Flush
  <1>5. ASSUME NEW u \in Ids, Write(u) PROVE TotalsRight'
    <2>1. base[u] = NoRecord /\ pc # "idle" BY <1>0, <1>5 DEF Write, Keep, Unrecorded
    <2>2. ~Adoptable(u) BY <1>0, <2>1 DEF OnDiskKnown, Adoptable
    <2>3. About(u, parsed) \in SUBSET Keys /\ stash[u] \in SUBSET Keys
      BY <1>0 DEF About, ReviewTypes
    <2>4. Own(u) \in SUBSET Keys BY <2>3 DEF Own
    <2> QED BY <1>3, <1>5, <2>1, <2>2, <2>4 DEF Write, Keep
  <1>6. ASSUME UNCHANGED <<disk, summary>>, persisted' \in Nat,
               pc' = "idle" \/ (UNCHANGED <<edited, adopted, persisted>> /\ pc # "idle")
        PROVE  TotalsRight'
    <2>1. Recorded' = Recorded BY <1>6 DEF Recorded
    <2>2. pc' # "idle" => Completed' = Completed /\ Adoptables' = Adoptables
      BY <1>6 DEF Completed, Adoptables, Adoptable
    <2> QED BY <1>6, <2>1, <2>2 DEF TotalsRight
  <1>7. CASE NextBatch \/ Split \/ Commit \/ (\E s \in Scans : Refilter(s))
               \/ \E S \in Replies : AttemptOk(S) \/ HalfOk(S)
    BY <1>0, <1>6, <1>7
    DEF NextBatch, Split, Commit, Refilter, AttemptOk, HalfOk, AfterHalf, onDisk, records
  <1>8. CASE \E o \in Losses : AttemptLost(o) \/ HalfLost(o)
    BY <1>0, <1>6, <1>8 DEF AttemptLost, HalfLost, AfterHalf, onDisk, records
  <1>9. CASE \E u \in Ids : FlushFails(u) \/ WriteFails(u)
    BY <1>0, <1>6, <1>9 DEF FlushFails, WriteFails, Keep, onDisk
  <1>10. ASSUME NEW u \in Ids, Edit(u) PROVE TotalsRight'
    <2>1. pc' = "idle" /\ UNCHANGED <<disk, summary, persisted>>
      BY <1>10 DEF Edit, records
    <2>2. persisted' \in Nat BY <1>0, <2>1
    <2> QED BY <1>6, <2>1, <2>2
  <1>12. CASE NextScan \/ KillScan
    BY <1>6, <1>12 DEF NextScan, KillScan, Kill, Gone, Memory, onDisk
  <1>11. CASE UNCHANGED vars
    BY <1>11
    DEF vars, onDisk, records, TotalsRight, Completed, Adoptables, Adoptable, Recorded
  <1> QED
    BY <1>1, <1>2, <1>4, <1>5, <1>7, <1>8, <1>9, <1>10, <1>11, <1>12
    DEF RefilterNext, ReviewWork, allVars

\* The coverage block and _summary.json: what was not reviewed is told, each
\* unit once, and an error if and only if there is any; no file says "done", or
\* counts a record, that is not so.
THEOREM CoverageKnown == RefilterSpec => []CoverageTold
  <1>1. RefilterInit => CoverageInv /\ TotalsRight
    BY DEF RefilterInit, Init, CoverageInv, BatchesSound, TotalsRight
  <1>2. RecordsInv /\ CoverageInv /\ TotalsRight => CoverageTold
    <2> SUFFICES ASSUME RecordsInv, CoverageInv, TotalsRight PROVE CoverageTold
      OBVIOUS
    <2>1. ASSUME pc = "returned"
          PROVE  /\ count["units"] = Cardinality(Uncovered)
                 /\ count["dropped"] + count["failed"] > 0 <=> count["units"] > 0
                 /\ count["truncated"] \in 0..count["dropped"]
                 /\ Completed = Size => \A u \in Ids : Adoptable(u)
      <3>1. CountsRight /\ Settled = count /\ ToAsk = {}
        BY <2>1 DEF CoverageInv, BatchesSound, Settled, ToAsk
      <3>2. \A c \in Counters : count[c] \in Nat BY <3>1 DEF CountsRight
      <3>3. Cardinality(ToAsk) = 0 BY <3>1, FS_EmptySet
      <3>4. count["units"] = Cardinality(Uncovered)
        BY <3>1, <3>2, <3>3 DEF CountsRight, Counters
      <3>5. Completed <= Cardinality(Adoptables) BY <2>1 DEF TotalsRight
      <3>6. Completed = Size => Adoptables = Ids
        BY <3>5, RecordedSize, ReachabilityAssumption
      <3> QED BY <3>1, <3>2, <3>4, <3>6 DEF CountsRight, Counters, Adoptables
    <2> QED BY <2>1 DEF CoverageTold, Uncovered, TotalsRight, Recorded
  <1> QED
    BY <1>1, <1>2, RecordsInit, RecordsStep, CoverageStep, TotalsStep, PTL DEF RefilterSpec

-----------------------------------------------------------------------------
(* The levels of get_all_reachable.                                        *)

LEMMA Inductive ==
    ASSUME NEW S, S \subseteq Nat, 0 \in S, \A n \in S : n + 1 \in S
    PROVE  \A n \in Nat : n \in S
  <1> SUFFICES ASSUME Nat \ S # {} PROVE FALSE OBVIOUS
  <1>1. PICK n \in Nat \ S : \A m \in Nat \ S : n <= m BY Least
  <1>2. n \in Nat /\ n # 0 BY <1>1
  <1>3. n - 1 \in Nat /\ ~(n <= n - 1) BY <1>2
  <1>4. n - 1 \in S BY <1>1, <1>3
  <1>5. (n - 1) + 1 = n BY <1>2
  <1> QED BY <1>1, <1>4, <1>5

AreLevels(f, N, seeds) ==
    f = [n \in N |-> IF n = 0 THEN seeds ELSE f[n - 1] \cup Callees(f[n - 1])]

LEMMA LevelsStart == ASSUME NEW seeds PROVE \E f : AreLevels(f, 0..0, seeds)
  <1> DEFINE f == [n \in 0..0 |-> seeds]
  <1>1. \A n \in 0..0 : n = 0 OBVIOUS
  <1>2. f = [n \in 0..0 |-> IF n = 0 THEN seeds ELSE f[n - 1] \cup Callees(f[n - 1])]
    BY <1>1
  <1> QED BY <1>2 DEF AreLevels

LEMMA LevelsGrow ==
    ASSUME NEW seeds, NEW k \in Nat, NEW g, AreLevels(g, 0..k, seeds)
    PROVE  \E f : AreLevels(f, 0..(k + 1), seeds)
  <1> DEFINE Next1(n) == IF n = 0 THEN seeds ELSE g[n - 1] \cup Callees(g[n - 1])
             f == [n \in 0..(k + 1) |-> Next1(n)]
  <1>1. g = [n \in 0..k |-> Next1(n)] BY DEF AreLevels
  <1>2. \A n \in 0..k : g[n] = Next1(n)
    <2> HIDE DEF Next1
    <2> QED BY <1>1
  <1>3. \A n \in 0..(k + 1) : n # 0 => n - 1 \in 0..k /\ n - 1 \in 0..(k + 1) OBVIOUS
  <1>4. \A n \in 0..k : n \in 0..(k + 1) OBVIOUS
  <1>5. \A n \in 0..k : f[n] = g[n]
    <2> HIDE DEF Next1
    <2> QED BY <1>2, <1>4
  <1>6. \A n \in 0..(k + 1) : Next1(n) = IF n = 0 THEN seeds ELSE f[n - 1] \cup Callees(f[n - 1])
    <2> HIDE DEF f
    <2> QED BY <1>3, <1>5
  <1>7. f = [n \in 0..(k + 1) |-> IF n = 0 THEN seeds ELSE f[n - 1] \cup Callees(f[n - 1])]
    <2> HIDE DEF Next1
    <2> SUFFICES ASSUME NEW n \in 0..(k + 1)
                 PROVE  Next1(n) = IF n = 0 THEN seeds ELSE f[n - 1] \cup Callees(f[n - 1])
      OBVIOUS
    <2> QED BY <1>6
  <1> QED BY <1>7 DEF AreLevels

LEMMA LevelsUnique ==
    ASSUME NEW seeds, NEW k \in Nat, NEW g, AreLevels(g, 0..k, seeds),
           NEW f, AreLevels(f, 0..(k + 1), seeds)
    PROVE  \A n \in 0..k : f[n] = g[n]
  <1> DEFINE S == {n \in Nat : n <= k => f[n] = g[n]}
  <1>1. \A n \in 0..k :
            /\ g[n] = IF n = 0 THEN seeds ELSE g[n - 1] \cup Callees(g[n - 1])
            /\ f[n] = IF n = 0 THEN seeds ELSE f[n - 1] \cup Callees(f[n - 1])
    <2>1. \A n \in 0..k : n \in 0..(k + 1) OBVIOUS
    <2> QED BY <2>1 DEF AreLevels
  <1>2. 0 \in S
    <2>1. 0 \in 0..k OBVIOUS
    <2> QED BY <1>1, <2>1
  <1>3. ASSUME NEW n \in S PROVE n + 1 \in S
    <2> SUFFICES ASSUME n + 1 <= k PROVE f[n + 1] = g[n + 1] OBVIOUS
    <2>1. n \in Nat /\ n + 1 \in 0..k /\ n + 1 # 0 /\ (n + 1) - 1 = n /\ n <= k OBVIOUS
    <2>2. f[n] = g[n] BY <1>3, <2>1
    <2>3. f[n + 1] = f[n] \cup Callees(f[n]) /\ g[n + 1] = g[n] \cup Callees(g[n])
      BY <1>1, <2>1
    <2> QED BY <2>2, <2>3
  <1>4. \A n \in Nat : n \in S BY <1>2, <1>3, Inductive
  <1> QED BY <1>4

LEMMA LevelsDefined == ASSUME NEW seeds PROVE \E f : AreLevels(f, Nat, seeds)
  <1> DEFINE S == {k \in Nat : \E f : AreLevels(f, 0..k, seeds)}
             upto == [k \in Nat |-> CHOOSE f : AreLevels(f, 0..k, seeds)]
             F == [n \in Nat |-> upto[n][n]]
  <1>1. \A k \in Nat : \E f : AreLevels(f, 0..k, seeds)
    <2>1. 0 \in S BY LevelsStart
    <2>2. \A n \in S : n + 1 \in S BY LevelsGrow
    <2>3. \A k \in Nat : k \in S BY <2>1, <2>2, Inductive
    <2> QED BY <2>3
  <1>2. \A k \in Nat : AreLevels(upto[k], 0..k, seeds) BY <1>1
  <1>3. \A k \in Nat : upto[k + 1][k] = upto[k][k]
    <2> HIDE DEF upto
    <2> SUFFICES ASSUME NEW k \in Nat PROVE upto[k + 1][k] = upto[k][k] OBVIOUS
    <2>1. AreLevels(upto[k], 0..k, seeds) BY <1>2
    <2>2. AreLevels(upto[k + 1], 0..(k + 1), seeds) BY <1>2
    <2>3. \A f, g : AreLevels(g, 0..k, seeds) /\ AreLevels(f, 0..(k + 1), seeds)
                       => \A n \in 0..k : f[n] = g[n]
      BY LevelsUnique
    <2>4. \A n \in 0..k : upto[k + 1][n] = upto[k][n] BY <2>1, <2>2, <2>3
    <2> QED BY <2>4
  <1>4. ASSUME NEW n \in Nat
        PROVE  F[n] = IF n = 0 THEN seeds ELSE F[n - 1] \cup Callees(F[n - 1])
    <2> HIDE DEF upto
    <2>1. upto[n][n] = IF n = 0 THEN seeds
                       ELSE upto[n][n - 1] \cup Callees(upto[n][n - 1])
      <3>1. AreLevels(upto[n], 0..n, seeds) /\ n \in 0..n BY <1>2
      <3> QED BY <3>1 DEF AreLevels
    <2>2. ASSUME n # 0 PROVE n - 1 \in Nat /\ upto[n][n - 1] = upto[n - 1][n - 1]
      <3>1. n - 1 \in Nat /\ (n - 1) + 1 = n BY <2>2
      <3> QED BY <1>3, <3>1
    <2> QED BY <2>1, <2>2
  <1> HIDE DEF F
  <1>5. F = [n \in Nat |-> F[n]] BY DEF F
  <1>6. F = [n \in Nat |-> IF n = 0 THEN seeds ELSE F[n - 1] \cup Callees(F[n - 1])]
    BY <1>4, <1>5
  <1> QED BY <1>6 DEF AreLevels

\* The function the model defines is there.
LEMMA LevelsAre ==
    ASSUME NEW seeds
    PROVE  /\ Levels(seeds)[0] = seeds
           /\ \A n \in Nat : Levels(seeds)[n + 1]
                               = Levels(seeds)[n] \cup Callees(Levels(seeds)[n])
  <1>1. AreLevels(Levels(seeds), Nat, seeds)
    <2>1. Levels(seeds) = CHOOSE f : AreLevels(f, Nat, seeds) BY DEF Levels, AreLevels
    <2> QED BY <2>1, LevelsDefined
  <1>2. \A n \in Nat : Levels(seeds)[n] =
            IF n = 0 THEN seeds
            ELSE Levels(seeds)[n - 1] \cup Callees(Levels(seeds)[n - 1])
    <2> DEFINE L == Levels(seeds)
    <2> HIDE DEF L
    <2>1. AreLevels(L, Nat, seeds) BY <1>1 DEF L
    <2>2. \A n \in Nat : L[n] = IF n = 0 THEN seeds ELSE L[n - 1] \cup Callees(L[n - 1])
      BY <2>1 DEF AreLevels
    <2> QED BY <2>2 DEF L
  <1>3. \A n \in Nat : n + 1 \in Nat /\ n + 1 # 0 /\ (n + 1) - 1 = n OBVIOUS
  <1> QED BY <1>2, <1>3

\* Each level is of units that a seed calls, directly or not.
LEMMA LevelsCalled ==
    ASSUME NEW seeds, seeds \subseteq Ids
    PROVE  \A n \in Nat : \A v \in Levels(seeds)[n] :
               v \in Ids /\ \E u \in seeds : <<u, v>> \in Calling
  <1> DEFINE L == Levels(seeds)
             Called(v) == v \in Ids /\ \E u \in seeds : <<u, v>> \in Calling
             S == {n \in Nat : \A v \in L[n] : Called(v)}
  <1> HIDE DEF L
  <1>1. L[0] = seeds /\ \A n \in Nat : L[n + 1] = L[n] \cup Callees(L[n])
    BY LevelsAre DEF L
  <1>2. 0 \in S
    <2>1. \A u \in seeds : <<u, u>> \in Calling BY DEF Calling
    <2> QED BY <1>1, <2>1
  <1>3. ASSUME NEW n \in S PROVE n + 1 \in S
    <2>1. ASSUME NEW v \in Callees(L[n]) PROVE Called(v)
      <3>1. PICK c \in Calls : c[1] \in L[n] /\ v = c[2] BY <2>1 DEF Callees
      <3>2. PICK u \in seeds : <<u, c[1]>> \in Calling BY <1>3, <3>1
      <3>3. \A C \in Closed : u \in C => c[1] \in C BY <3>2 DEF Calling
      <3>4. \A C \in Closed : u \in C => v \in C BY <3>1, <3>3 DEF Closed
      <3>5. v \in Ids BY <3>1, RefilterAssumption
      <3>6. <<u, v>> \in Calling BY <3>4, <3>5 DEF Calling
      <3> QED BY <3>5, <3>6
    <2>2. \A v \in L[n] : Called(v) BY <1>3
    <2>3. \A v \in L[n + 1] : Called(v)
      <3> HIDE DEF Called
      <3> QED BY <1>1, <2>1, <2>2
    <2> QED BY <2>3
  <1>4. \A n \in Nat : n \in S BY <1>2, <1>3, Inductive
  <1> QED BY <1>4 DEF L

\* As many levels as there are units are enough: each adds one, or is the last.
LEMMA ReachableClosed ==
    ASSUME NEW seeds, seeds \subseteq Ids
    PROVE  /\ seeds \subseteq Reachable(seeds) /\ Reachable(seeds) \in Closed
           /\ \A v \in Reachable(seeds) : \E u \in seeds : <<u, v>> \in Calling
  <1> DEFINE L == Levels(seeds)
             Last1(n) == Callees(L[n]) \subseteq L[n]
             S == {n \in Nat : seeds \subseteq L[n] /\ (Last1(n) \/ Cardinality(L[n]) >= n)}
  <1>1. \A n \in Nat : \A v \in L[n] : v \in Ids /\ \E u \in seeds : <<u, v>> \in Calling
    BY LevelsCalled
  <1>2. L[0] = seeds /\ \A n \in Nat : L[n + 1] = L[n] \cup Callees(L[n])
    BY LevelsAre
  <1> HIDE DEF L
  <1>3. 0 \in S
    <2>1. Cardinality(L[0]) \in Nat BY <1>2, IdsFinite
    <2> QED BY <1>2, <2>1
  <1>4. ASSUME NEW n \in S PROVE n + 1 \in S
    <2>1. n \in Nat /\ n + 1 \in Nat /\ seeds \subseteq L[n] BY <1>4
    <2>2. L[n] \subseteq L[n + 1] /\ L[n + 1] \subseteq Ids BY <1>1, <1>2, <2>1
    <2>3. CASE Last1(n)
      <3>1. L[n + 1] = L[n] BY <1>2, <2>1, <2>3
      <3> QED BY <2>1, <2>2, <2>3, <3>1
    <2>4. CASE ~Last1(n)
      <3>1. L[n] # L[n + 1] BY <1>2, <2>1, <2>4
      <3>2. /\ IsFiniteSet(L[n + 1]) /\ Cardinality(L[n]) \in Nat
            /\ Cardinality(L[n + 1]) \in Nat
        BY <2>2, IdsFinite
      <3>3. Cardinality(L[n]) < Cardinality(L[n + 1]) BY <2>2, <3>1, <3>2, FS_Subset
      <3>4. Cardinality(L[n]) >= n BY <1>4, <2>4
      <3>5. Cardinality(L[n + 1]) >= n + 1 BY <2>1, <3>2, <3>3, <3>4
      <3> QED BY <2>1, <2>2, <3>5
    <2> QED BY <2>3, <2>4
  <1>5. Size \in S
    <2>1. \A n \in Nat : n \in S BY <1>3, <1>4, Inductive
    <2> QED BY <2>1, ReachabilityAssumption
  <1>6. L[Size] \subseteq Ids BY <1>1, ReachabilityAssumption
  <1>7. Last1(Size)
    <2>1. Callees(L[Size]) \subseteq Ids BY RefilterAssumption DEF Callees
    <2>2. CASE Cardinality(L[Size]) >= Size
      <3>1. Cardinality(L[Size]) \in Nat /\ Cardinality(L[Size]) <= Size
        BY <1>6, IdsFinite
      <3>2. Cardinality(L[Size]) = Size BY <2>2, <3>1, ReachabilityAssumption
      <3>3. L[Size] = Ids BY <1>6, <3>2, IdsFinite
      <3> QED BY <2>1, <3>3
    <2> QED BY <1>5, <2>2
  <1>8. L[Size] \in Closed
    <2>1. \A c \in Calls : c[1] \in L[Size] => c[2] \in Callees(L[Size]) BY DEF Callees
    <2> QED BY <1>6, <1>7, <2>1 DEF Closed
  <1>9. seeds \subseteq L[Size] BY <1>5
  <1> QED BY <1>1, <1>8, <1>9, ReachabilityAssumption DEF Reachable, L

-----------------------------------------------------------------------------
(* What the filter keeps.                                                  *)

Filtered ==
    pc = "filtered" =>
        /\ scan \in Scans
        /\ dataset = UNION {KeptOf(scan, l) : l \in Languages}
        /\ told = {l \in Languages : l \notin scan.graphs \/ BlackedOut(scan, l)}

LEMMA FilteredStep == Filtered /\ [RefilterNext]_allVars => Filtered'
  <1> SUFFICES ASSUME Filtered, [RefilterNext]_allVars PROVE Filtered' OBVIOUS
  <1>1. ASSUME NEW s \in Scans, Refilter(s) PROVE Filtered'
    <2>1. returned' = returned /\ scan' = s BY <1>1 DEF Refilter, records
    <2>2. \A l : (KeptOf(scan, l))' = KeptOf(s, l) /\ BlackedOut(scan, l)' = BlackedOut(s, l)
      BY <2>1 DEF KeptOf, BlackedOut, Seeds, Extra, Promoted
    <2> QED BY <1>1, <2>1, <2>2 DEF Refilter, Filtered
  <1>2. ASSUME pc' # "filtered" PROVE Filtered' BY <1>2 DEF Filtered
  <1>3. CASE UNCHANGED allVars
    <2>1. returned' = returned /\ scan' = scan /\ UNCHANGED <<pc, dataset, told>>
      BY <1>3 DEF allVars, vars, records, refilter
    <2>2. \A l : (KeptOf(scan, l))' = KeptOf(scan, l)
                 /\ BlackedOut(scan, l)' = BlackedOut(scan, l)
      BY <2>1 DEF KeptOf, BlackedOut, Seeds, Extra, Promoted
    <2> QED BY <2>1, <2>2 DEF Filtered
  <1>4. ASSUME ReviewWork PROVE pc' # "filtered"
    BY <1>4
    DEF ReviewWork, StartPass, NextBatch, Split, Commit, Publish, Finish, AttemptOk, HalfOk,
        AttemptLost, HalfLost, AfterHalf, Flush, FlushFails, Write, WriteFails, Keep, Edit,
        Memory
  <1> QED
    BY <1>1, <1>2, <1>3, <1>4 DEF RefilterNext, NextScan, KillScan, Kill, Gone, Memory

\* A call is within one language.
LEMMA CallingStays ==
    ASSUME NEW u \in Ids, NEW v \in Ids, <<u, v>> \in Calling
    PROVE  Language[v] = Language[u]
  <1> DEFINE C == Stamped(Language[u])
  <1>1. C \in Closed BY RefilterAssumption DEF Stamped, Closed
  <1>2. u \in C BY DEF Stamped
  <1>3. v \in C BY <1>1, <1>2 DEF Calling
  <1> QED BY <1>3 DEF Stamped

LEMMA ScopeRight ==
    ASSUME RecordsInv, Filtered, pc = "filtered" PROVE ScopeKept
  <1> DEFINE seeds == scan.detected \cup Promoted \cup {u \in Ids : RecordedEntry(u)}
                        \cup (IF scan.library THEN Public ELSE {})
  <1>1. \A u \in Ids : RecordedEntry(u) => u \in Promoted
    <2> SUFFICES ASSUME NEW u \in Ids, RecordedEntry(u) PROVE u \in Promoted OBVIOUS
    <2>1. Adoptable(u) /\ base[u] = disk[u] /\ base[u] # NoRecord
      BY DEF RecordedEntry, RecordsInv, OnDiskKnown, Adoptable
    <2>2. disk[u] \subseteq About(u, returned)
      BY <2>1 DEF RecordsInv, Applied, Known
    <2>3. PICK k \in Promoting : k \in disk[u] BY DEF RecordedEntry
    <2>4. <<u, k>> \in returned BY <2>2, <2>3 DEF About
    <2> QED BY <2>3, <2>4 DEF Promoted
  <1>2. Promoted \subseteq Ids BY DEF Promoted, RecordsInv, ReviewTypes
  <1>3. /\ scan \in Scans /\ scan.detected \subseteq Ids /\ Public \subseteq Ids
        /\ DOMAIN Language = Ids
    BY RefilterAssumption DEF Filtered
  <1>4. seeds \subseteq Ids BY <1>2, <1>3
  <1>5. ASSUME NEW l
        PROVE  Seeds(scan, l) = {u \in seeds : Language[u] = l}
    BY <1>1, <1>2, <1>3 DEF Seeds, Extra, Stamped
  <1> HIDE DEF seeds
  <1>6. \A u \in Ids : Language[u] \in Languages
    BY <1>3 DEF Languages, Range
  <1>7. ASSUME NEW v \in Ids
        PROVE  v \in dataset <=> v \in KeptOf(scan, Language[v])
    BY <1>6 DEF Filtered, KeptOf, Stamped
  <1>8. dataset \subseteq Ids BY DEF Filtered, KeptOf, Stamped
  <1>9. ASSUME NEW x \in Calling, x[1] \in seeds PROVE x[2] \in dataset
    <2>1. /\ x = <<x[1], x[2]>> /\ x[1] \in Ids /\ x[2] \in Ids
          /\ \A C \in Closed : x[1] \in C => x[2] \in C
      BY DEF Calling
    <2>2. Language[x[2]] = Language[x[1]] BY <2>1, CallingStays
    <2> DEFINE from == Seeds(scan, Language[x[1]])
    <2>3. from \subseteq Ids /\ x[1] \in from BY <1>4, <1>5, <1>9
    <2> HIDE DEF from
    <2>4. x[2] \in Reachable(from) BY <2>1, <2>3, ReachableClosed
    <2> QED BY <1>7, <2>1, <2>2, <2>4 DEF KeptOf, Stamped, from
  <1>10. ASSUME NEW v \in Ids \ dataset
         PROVE  \E u \in seeds \ Harness : Language[u] = Language[v]
    <2>1. ~BlackedOut(scan, Language[v]) BY <1>7, <1>10 DEF KeptOf, Stamped
    <2> QED BY <1>5, <2>1 DEF BlackedOut
  <1>11. ASSUME NEW v \in dataset
         PROVE  Language[v] \in told \/ \E u \in seeds : <<u, v>> \in Calling
    <2>1. v \in Ids /\ v \in KeptOf(scan, Language[v]) /\ Language[v] \in Languages
      BY <1>6, <1>7, <1>8
    <2> DEFINE from == Seeds(scan, Language[v])
    <2>2. from \subseteq Ids /\ from \subseteq seeds BY <1>4, <1>5
    <2> HIDE DEF from
    <2>3. CASE v \in Reachable(from)
      BY <2>2, <2>3, ReachableClosed
    <2>4. v \in Reachable(from) \/ Language[v] \in told
      BY <2>1 DEF KeptOf, Filtered, from
    <2> QED BY <2>3, <2>4
  <1> QED BY <1>9, <1>10, <1>11 DEF ScopeKept, seeds

\* _run_llm_reachability and apply_reachability_filter: what was heard stays to
\* be adopted, the record that is adopted holds what was returned, and the
\* filter keeps all it reaches.
THEOREM SignalsReachScope == RefilterSpec => []SignalsApplied
  <1>1. RefilterInit => Filtered BY DEF RefilterInit, Init, Filtered
  <1>2. RecordsInv /\ Filtered => ScopeKept BY ScopeRight DEF ScopeKept
  <1> QED
    BY <1>1, <1>2, FilteredStep, RecordsAlways, HeardIsKept, AdoptedApplied, PTL
    DEF RefilterSpec, SignalsApplied
============================================================================
