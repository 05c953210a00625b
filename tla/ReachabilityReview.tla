-------------------------- MODULE ReachabilityReview --------------------------
(***************************************************************************)
(* The LLM reachability pass (core/llm_reachability.py): a model reviews   *)
(* the units batch by batch and returns signals about units, its own       *)
(* batch's or others'; a unit that was reviewed gets a record, with the    *)
(* signals about it, and the next pass adopts the records of unchanged     *)
(* units instead of paying for them again.  The pass is sequential: what   *)
(* is hard is that a record is written before all the signals about its    *)
(* unit are known, that it may be adopted from an earlier pass, and that   *)
(* any save may fail or be the last one before a kill.                     *)
(*                                                                         *)
(* Abstracted: prompts and replies (a reply is lost, or is a set of        *)
(* signals); a signal's kind and confidence (a key; the reason is not part *)
(* of it); usage; the backend identity (AnalyzeStep has it); the order in  *)
(* which one batch's records are saved.  A pass whose directory cannot be  *)
(* opened, which keeps no records, is left out.                            *)
(***************************************************************************)
EXTENDS Naturals, Sequences, FiniteSets

CONSTANTS
    Size,       \* how many units the dataset has
    Keys,       \* (kind, confidence) of a signal
    Replies,    \* what an accepted reply may hold: sets of signals
    BatchSize,  \* batch_size
    MayFail,    \* whether a write may fail
    MaxPasses,  \* bound: passes started
    MaxEdits,   \* bound: units edited between passes
    NoRecord, NoSummary

Ids == 1..Size   \* a unit is its place in the dataset

ASSUME ReachabilityAssumption ==
    /\ Size \in Nat /\ BatchSize \in Nat \ {0}
    /\ Replies \subseteq SUBSET (Ids \X Keys)
    /\ \A S \in SUBSET Keys : S # NoRecord
    /\ MayFail \in BOOLEAN /\ MaxPasses \in Nat /\ MaxEdits \in Nat

VARIABLES
    disk,      \* the records: what a unit is signalled for
    edited,    \* units whose record is of another body (projection_sha)
    summary,   \* _summary.json: its phase and completed
    pc,        \* "idle", "loop", "attempt", "split", "halves", "commit",
               \* "save", "publish", "returned"
    queue,     \* units of the batches to come
    batch,     \* the batch
    halves,    \* its halves still to be tried
    lost,      \* how its reply was lost
    parsed,    \* signals of its accepted replies
    accepted,  \* record_units: units those replies reviewed
    adopted,   \* units whose records were adopted
    base,      \* saved_records, over the adopted ones: what is known of records
    stash,     \* cross_batch_signals
    flushing,  \* targets of the flush not yet saved
    writing,   \* record_units not yet saved
    persisted, \* records saved
    count,     \* the coverage counters
    returned,  \* signals the pass will return
    reviewed,  \* units with an accepted reply in this pass (history)
    failed,    \* units a save of which has failed in this pass (history)
    heard,     \* signals whose batch is not to be asked for again: their unit,
               \* key and the units of the batch (history)
    passes, edits

onDisk == <<disk, edited, summary>>
replies == <<queue, batch, halves, lost, parsed, accepted, count, reviewed>>
records == <<adopted, base, stash, flushing, writing, persisted, returned, failed>>
history == <<passes, edits, heard>>
vars    == <<onDisk, pc, replies, records, history>>

Counters == {"dropped", "truncated", "failed", "units"}
Nothing  == [c \in Counters |-> 0]
Empty    == [u \in Ids |-> {}]
Adoptable(u) == disk[u] # NoRecord /\ u \notin edited
About(u, S)  == {k \in Keys : <<u, k>> \in S}

\* History: what was heard is answered while the unit's record and that of one
\* of the batch's units will be adopted; otherwise it is asked for again.
Noted(h)    == disk[h.about] # NoRecord /\ h.key \in disk[h.about]
Answered(h) == Adoptable(h.about) /\ \E v \in h.by : Adoptable(v)

Memory(p) ==
    /\ pc' = p /\ batch' = {} /\ halves' = <<>> /\ lost' = "ok"
    /\ parsed' = {} /\ accepted' = {} /\ stash' = Empty /\ flushing' = {}
    /\ writing' = {} /\ persisted' = 0 /\ count' = Nothing
    /\ reviewed' = {} /\ failed' = {}

Init ==
    /\ disk = [u \in Ids |-> NoRecord] /\ edited = {} /\ summary = NoSummary
    /\ pc = "idle" /\ queue = {} /\ batch = {} /\ halves = <<>>
    /\ lost = "ok" /\ parsed = {} /\ accepted = {} /\ adopted = {}
    /\ base = [u \in Ids |-> NoRecord] /\ stash = Empty /\ flushing = {}
    /\ writing = {} /\ persisted = 0 /\ count = Nothing /\ returned = {}
    /\ reviewed = {} /\ failed = {} /\ heard = {} /\ passes = 0 /\ edits = 0

Completed == Cardinality(adopted) + persisted

\* write_summary, whose failure costs the pass nothing.
Summarise(phase, completed) ==
    \/ summary' = [phase |-> phase, completed |-> completed]
    \/ MayFail /\ UNCHANGED summary

\* Records of unchanged units are adopted, their signals are the pass's.
StartPass ==
    /\ pc = "idle" /\ passes < MaxPasses /\ passes' = passes + 1
    /\ Memory("loop")
    /\ adopted' = {u \in Ids : Adoptable(u)}
    /\ base' = [u \in Ids |-> IF Adoptable(u) THEN disk[u] ELSE NoRecord]
    /\ returned' = {s \in Ids \X Keys : Adoptable(s[1]) /\ s[2] \in disk[s[1]]}
    /\ queue' = Ids \ adopted'
    /\ Summarise("in_progress", Cardinality(adopted'))
    /\ heard' = {h \in heard : Answered(h)}
    /\ UNCHANGED <<disk, edited, edits>>

-----------------------------------------------------------------------------
(* A batch is asked for, and when its reply is lost to its shape or to the *)
(* output cap, its halves are, once.                                       *)

\* The n units of S that come first, or all.
First(n, S) == {u \in S : Cardinality({v \in S : v <= u}) <= n}

NextBatch ==
    /\ pc = "loop" /\ queue # {} /\ pc' = "attempt"
    /\ batch' = First(BatchSize, queue) /\ queue' = queue \ batch'
    /\ parsed' = {} /\ accepted' = {}
    /\ UNCHANGED <<onDisk, halves, lost, count, reviewed, records, history>>

\* What an attempt on n units counts.  A reply cut off in any other shape than
\* unbalanced JSON counts as one that is dropped.
Delta(o, n) ==
    [dropped   |-> IF o \in {"dropped", "truncated"} THEN 1 ELSE 0,
     truncated |-> IF o = "truncated" THEN 1 ELSE 0,
     failed    |-> IF o = "failed" THEN 1 ELSE 0,
     units     |-> n]

Counted(o, n) == [c \in Counters |-> count[c] + Delta(o, n)[c]]

Losses == {"failed", "dropped", "truncated"}

AttemptOk(S) ==
    /\ pc = "attempt" /\ pc' = "commit" /\ parsed' = S
    /\ accepted' = batch /\ reviewed' = reviewed \cup accepted'
    /\ UNCHANGED <<onDisk, queue, batch, halves, lost, count, records, history>>

\* A provider error is not split, nor is a batch of one.
AttemptLost(o) ==
    /\ pc = "attempt" /\ count' = Counted(o, Cardinality(batch)) /\ lost' = o
    /\ pc' = IF o # "failed" /\ Cardinality(batch) >= 2 THEN "split" ELSE "publish"
    /\ UNCHANGED <<onDisk, queue, batch, halves, parsed, accepted, reviewed,
                   records, history>>

\* Mutant of Revised: what the whole batch counted stays.
RevisedNever == count

\* The halves count their own outcomes: what the batch counted is taken back.
Revised == [c \in Counters |-> count[c] - Delta(lost, Cardinality(batch))[c]]

Split ==
    /\ pc = "split" /\ pc' = "halves" /\ count' = Revised
    /\ LET half == First((Cardinality(batch) + 1) \div 2, batch)
       IN  halves' = <<half, batch \ half>>
    /\ UNCHANGED <<onDisk, queue, batch, lost, parsed, accepted, reviewed,
                   records, history>>

AfterHalf ==
    /\ halves' = Tail(halves)
    /\ pc' = IF halves' # <<>> THEN "halves"
             ELSE IF accepted' = {} THEN "publish" ELSE "commit"
    /\ UNCHANGED <<onDisk, queue, batch, lost, records, history>>

HalfOk(S) ==
    /\ pc = "halves" /\ parsed' = parsed \cup S
    /\ accepted' = accepted \cup Head(halves)
    /\ reviewed' = reviewed \cup accepted' /\ AfterHalf /\ UNCHANGED count

HalfLost(o) ==
    /\ pc = "halves" /\ count' = Counted(o, Cardinality(Head(halves)))
    /\ UNCHANGED <<parsed, accepted, reviewed>> /\ AfterHalf

-----------------------------------------------------------------------------
(* What was accepted is returned, and recorded.                            *)

\* Signals about units of no accepted reply of this batch are stashed; those
\* of them that have a record already, written or adopted, are flushed first.
Commit ==
    /\ pc = "commit" /\ pc' = "save"
    /\ returned' = returned \cup parsed
    /\ stash' = [u \in Ids |-> IF u \in accepted THEN stash[u]
                               ELSE stash[u] \cup About(u, parsed)]
    /\ flushing' = {u \in Ids : stash'[u] # {} /\ base[u] # NoRecord}
    /\ writing' = accepted
    /\ heard' = heard \cup {[about |-> s[1], key |-> s[2], by |-> accepted] :
                               s \in {x \in parsed : x[1] \notin accepted}}
    /\ UNCHANGED <<onDisk, replies, adopted, base, persisted, failed, passes, edits>>

\* Mutant of Flushed: the flush is of the stash alone.
FlushedAlone(u) == stash[u]

Flushed(u) == base[u] \cup stash[u]

Flush(u) ==
    /\ pc = "save" /\ u \in flushing
    /\ disk' = [disk EXCEPT ![u] = Flushed(u)] /\ edited' = edited \ {u}
    /\ base' = [base EXCEPT ![u] = Flushed(u)]
    /\ stash' = [stash EXCEPT ![u] = {}] /\ flushing' = flushing \ {u}
    /\ UNCHANGED <<summary, pc, replies, adopted, writing, persisted, returned,
                   failed, history>>

\* The signals stay stashed, for the next batch's flush.
FlushFails(u) ==
    /\ MayFail /\ pc = "save" /\ u \in flushing
    /\ flushing' = flushing \ {u} /\ failed' = failed \cup {u}
    /\ UNCHANGED <<onDisk, pc, replies, adopted, base, stash, writing,
                   persisted, returned, history>>

\* What its own batch says of the unit, and what earlier ones have.
Own(u) == About(u, parsed) \cup stash[u]

\* Mutant of Keep: a batch's own records need not wait for the flush.
KeepUnordered(u) ==
    /\ pc = "save" /\ u \in writing
    /\ base' = [base EXCEPT ![u] = Own(u)]
    /\ stash' = [stash EXCEPT ![u] = {}] /\ writing' = writing \ {u}
    /\ UNCHANGED <<summary, pc, replies, adopted, flushing, returned, history>>

Keep(u) ==
    /\ pc = "save" /\ flushing = {} /\ u \in writing
    /\ base' = [base EXCEPT ![u] = Own(u)]
    /\ stash' = [stash EXCEPT ![u] = {}] /\ writing' = writing \ {u}
    /\ UNCHANGED <<summary, pc, replies, adopted, flushing, returned, history>>

Write(u) ==
    /\ Keep(u) /\ persisted' = persisted + 1
    /\ disk' = [disk EXCEPT ![u] = Own(u)] /\ edited' = edited \ {u}
    /\ UNCHANGED failed

WriteFails(u) ==
    /\ MayFail /\ Keep(u) /\ failed' = failed \cup {u}
    /\ UNCHANGED <<disk, edited, persisted>>

\* After every batch, one that was lost included.
Publish ==
    /\ \/ pc = "publish"
       \/ pc = "save" /\ flushing = {} /\ writing = {}
    /\ pc' = "loop" /\ Summarise("in_progress", Completed)
    /\ UNCHANGED <<disk, edited, replies, records, history>>

Finish ==
    /\ pc = "loop" /\ queue = {} /\ pc' = "returned"
    /\ Summarise(IF Completed = Size THEN "done" ELSE "in_progress", Completed)
    /\ UNCHANGED <<disk, edited, replies, records, history>>

-----------------------------------------------------------------------------
\* History: a signal whose save has failed is not held against a later pass.
Gone ==
    /\ Memory("idle") /\ queue' = {} /\ adopted' = {} /\ returned' = {}
    /\ base' = [u \in Ids |-> NoRecord]
    /\ heard' = {h \in heard : h.about \in failed => Noted(h)}
    /\ UNCHANGED <<onDisk, passes, edits>>

\* A kill, or an authentication error, which ends the pass.
Kill == pc # "idle" /\ Gone

\* Between two scans a unit's body changes.
Edit(u) ==
    /\ pc = "idle" /\ edits < MaxEdits /\ Adoptable(u)
    /\ edited' = edited \cup {u} /\ edits' = edits + 1
    /\ UNCHANGED <<disk, summary, pc, replies, records, passes, heard>>

ReviewWork ==
    \/ StartPass \/ NextBatch \/ Split \/ Commit \/ Publish \/ Finish
    \/ \E S \in Replies : AttemptOk(S) \/ HalfOk(S)
    \/ \E o \in Losses : AttemptLost(o) \/ HalfLost(o)
    \/ \E u \in Ids : \/ Flush(u) \/ FlushFails(u) \/ Write(u) \/ WriteFails(u)
                      \/ Edit(u)

-----------------------------------------------------------------------------
(* Properties.                                                             *)

TypeOK ==
    /\ disk \in [Ids -> {NoRecord} \cup SUBSET Keys] /\ edited \subseteq Ids
    /\ base \in [Ids -> {NoRecord} \cup SUBSET Keys]
    /\ stash \in [Ids -> SUBSET Keys] /\ count \in [Counters -> Nat]
    /\ flushing \subseteq Ids /\ writing \subseteq Ids /\ adopted \subseteq Ids
    /\ accepted \subseteq Ids /\ parsed \subseteq Ids \X Keys
    /\ heard \subseteq [about : Ids, key : Keys, by : SUBSET Ids]
    /\ persisted \in Nat /\ passes \in 0..MaxPasses /\ edits \in 0..MaxEdits

\* What the next pass will adopt is what this one has applied: of every unit
\* whose record it can adopt, the record holds exactly the signals the pass has
\* returned, whichever batch they came from and whenever the record was
\* written; a signal may be missing only where a save has failed.
AdoptedIsApplied ==
    pc = "returned" =>
        \A u \in Ids : Adoptable(u) =>
            /\ disk[u] \cup stash[u] = About(u, returned)
            /\ stash[u] # {} => u \in failed

\* A signal that was paid for once is never lost between two passes, wherever
\* either is killed: once the unit's record and one record of the batch that
\* raised it are there to be adopted (so that nobody asks again), the unit's
\* record holds the signal, unless the save of it has failed.  That rests on
\* the order of the saves, the flush before the batch's own records.  What it
\* does not promise is a signal about a unit that had no record when the pass
\* ended: neither that it survives a kill ("ONE DIRECTION DOES NOT SELF-HEAL",
\* llm_reachability.py:1056-1062), nor that a later pass, which reviews the
\* unit itself, hears it again.
SignalsHeard ==
    \A h \in heard :
        Answered(h) => Noted(h) \/ h.about \in failed

\* A signal once recorded of a unit is not lost while the unit is unchanged:
\* a record that is written again, in this pass or a later one, holds it still.
SignalsKept ==
    [][\A u \in Ids : Adoptable(u) /\ disk'[u] # NoRecord => disk[u] \subseteq disk'[u]]_vars

\* The pass tells what it has not covered: units_not_reviewed are the units
\* that were neither adopted nor in an accepted reply, each once, whether their
\* batch was split or not; there is an error (dropped or failed batches) if and
\* only if there are any; and "done" is claimed only with a record of each unit.
CoverageTold ==
    /\ pc = "returned" =>
         /\ count["units"] = Cardinality(Ids \ (adopted \cup reviewed))
         /\ count["dropped"] + count["failed"] > 0 <=> count["units"] > 0
         /\ count["truncated"] \in 0..count["dropped"]
         /\ Completed = Size => \A u \in Ids : Adoptable(u)
    /\ summary # NoSummary =>
         /\ summary.phase = "done" => \A u \in Ids : disk[u] # NoRecord
         /\ summary.completed <= Cardinality({u \in Ids : disk[u] # NoRecord})
=============================================================================
