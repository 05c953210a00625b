------------------------------- MODULE CveBatch -------------------------------
(***************************************************************************)
(* The batch runner of the auto-patcher (tools/run_cve_batch.py): runners, *)
(* one after another or at once, of one batch directory.  Each loads the   *)
(* manifest, takes the directory's flock, schedules the cases that have no *)
(* outcome yet, and runs their attempts on a pool of threads, each with    *)
(* children of its own (git, then run_traced.py) in a session of their     *)
(* own.  A runner may be interrupted, once or twice, fail, or be killed;   *)
(* then its children outlive it.                                           *)
(*                                                                         *)
(* External: git, run_traced.py, which leaves a trace before it exits, and *)
(* flock, which the system drops with its holder.  Abstracted: the cases'  *)
(* contents, reports, the checks of the set-up, --case, the work-tree      *)
(* snapshots.  Left out: a first signal that arrives while LoopFails'      *)
(* shutdown waits for the pool.                                            *)
(***************************************************************************)
EXTENDS Integers, Sequences, FiniteSets

CONSTANTS
    Runners,   \* processes run_cve_batch.py, each of one command
    Cases,     \* the cases of the batch
    Order,     \* their order in its manifests
    Outcomes,  \* what a trust report may decide
    Jobs,      \* --jobs
    MaxFaults, \* how many kills, failed writes and damaged traces are allowed
    Nobody,    \* the lock is free
    NoBatch    \* there is no manifest yet

ASSUME BatchAssumption ==
    /\ Nobody \notin Runners /\ "none" \notin Outcomes
    /\ Order \in [Cases -> Nat] /\ Jobs \in Nat /\ MaxFaults \in Nat

VARIABLES
    manifest,  \* batch_manifest.json: its sessions, [by, result]
    lock,      \* the holder of .batch.lock
    tries,     \* tries[c]: the attempts of a case, as disk, thread and child
    main,      \* where a runner's main thread is
    command,   \* "new", "resume", "rerun" (--rerun-failed), "summarize"
    copy,      \* the manifest in a runner's memory
    todo,      \* the futures no thread has taken: <<case, number>>
    stop,      \* stop_event
    faults

batchVars == <<manifest, lock, tries, main, command, copy, todo, stop, faults>>
mainVars == <<manifest, lock, main, command, copy, todo, stop, faults>>

\* An attempt: the runner that made it; where its thread is ("free" to start a
\* child, "spawning" under the context's lock, "waiting", "reaped", "over", or
\* "lost" with its process); which child that is, its state, and what it has
\* been told to do; whether a stop was seen when it was reaped; result.json's
\* status and outcome; and what the trace proves.
NewTry(r) == [by |-> r, at |-> "free", child |-> "git", proc |-> "none",
              told |-> "nothing", stopSeen |-> FALSE,
              status |-> "running", outcome |-> "none", trace |-> "none"]

Numbers(c) == 1..Len(tries[c])
All == UNION {{c} \X Numbers(c) : c \in Cases}
Try(a) == tries[a[1]][a[2]]
Set(a, t) == tries' = [tries EXCEPT ![a[1]][a[2]] = t]

\* The attempts whose thread is at work, and those whose child is.
Busy(r)  == {a \in All : Try(a).by = r /\ Try(a).at \notin {"over", "lost"}}
Alive(r) == {a \in Busy(r) : Try(a).proc = "alive"}
\* Mutant of ContextLocked: the children are listed without the lock.
ContextUnlocked(r) == FALSE

ContextLocked(r) == \E a \in Busy(r) : Try(a).at = "spawning"

\* Whatever else fails or is killed.
Fault == faults < MaxFaults /\ faults' = faults + 1

BatchInit ==
    /\ manifest = NoBatch /\ lock = Nobody
    /\ tries = [c \in Cases |-> <<>>]
    /\ main = [r \in Runners |-> "idle"]
    /\ command = [r \in Runners |-> "new"]
    /\ copy = [r \in Runners |-> <<>>]
    /\ todo = [r \in Runners |-> {}]
    /\ stop = [r \in Runners |-> FALSE]
    /\ faults = 0

-----------------------------------------------------------------------------
(* What an attempt has come to, from its artifacts.                        *)

RanOk(t) == t.child = "run" /\ t.proc = "ok"

\* Evidence first: a run that ended well counts even if a stop was seen, and
\* what the stop ended is no failure.
Classified(t) ==
    IF t.stopSeen /\ ~RanOk(t) THEN "interrupted"
    ELSE IF RanOk(t) /\ t.trace \in Outcomes THEN "completed" ELSE "failed"

\* A recorded completion is derived again from what is on disk now.
Revalidated(t) ==
    Classified([t EXCEPT !.stopSeen = FALSE]) = "completed" /\ t.trace = t.outcome

\* Only the latest attempt decides.
CaseStatus(c) ==
    IF tries[c] = <<>> THEN "pending"
    ELSE LET t == tries[c][Len(tries[c])]
         IN  CASE t.status = "completed" -> IF Revalidated(t) THEN "completed" ELSE "invalid"
               [] t.status = "running" -> "incomplete"
               [] OTHER -> t.status

Undecided == {c \in Cases : CaseStatus(c) \notin {"completed", "failed"}}

SummaryStatus(r) ==
    CASE stop[r] -> "interrupted"
      [] ~stop[r] /\ Undecided # {} -> "incomplete"
      [] OTHER -> IF \E c \in Cases : CaseStatus(c) = "failed"
                  THEN "complete_with_failures" ELSE "complete"

\* A resume leaves alone what is completed, and what failed unless it is told.
Scheduled(r) ==
    IF command[r] = "new" THEN Cases
    ELSE Undecided \cup {c \in Cases : command[r] = "rerun" /\ CaseStatus(c) = "failed"}

Planned(r) == {<<c, Len(tries[c]) + 1>> : c \in Scheduled(r)}

-----------------------------------------------------------------------------
(* A runner's main thread.                                                 *)

\* cmd_new claims the directory and writes the manifest before it locks it.
Create(r) ==
    /\ main[r] = "idle" /\ manifest = NoBatch
    /\ manifest' = <<>> /\ main' = [main EXCEPT ![r] = "loaded"]
    /\ UNCHANGED <<lock, tries, command, copy, todo, stop, faults>>

\* The others read it, too, before they lock.
LoadBatch(r) ==
    /\ main[r] = "idle" /\ manifest # NoBatch
    /\ command' \in {[command EXCEPT ![r] = k] : k \in {"resume", "rerun", "summarize"}}
    /\ copy' = [copy EXCEPT ![r] = manifest] /\ main' = [main EXCEPT ![r] = "loaded"]
    /\ UNCHANGED <<manifest, lock, tries, todo, stop, faults>>

\* What a process held goes with it: its memory and its lock.
Exits(r) ==
    /\ main' = [main EXCEPT ![r] = "gone"] /\ copy' = [copy EXCEPT ![r] = <<>>]
    /\ todo' = [todo EXCEPT ![r] = {}] /\ stop' = [stop EXCEPT ![r] = FALSE]
    /\ lock' = IF lock = r THEN Nobody ELSE lock
    /\ UNCHANGED command

Refused(r) ==
    /\ main[r] = "loaded" /\ lock # Nobody
    /\ Exits(r) /\ UNCHANGED <<manifest, tries, faults>>

CloseStale(sessions) ==
    [i \in DOMAIN sessions |->
        IF sessions[i].result = "open" THEN [sessions[i] EXCEPT !.result = "abandoned"]
        ELSE sessions[i]]

\* Mutant of Lock: no flock.
LockShared(r) == lock' = r

Lock(r) == lock = Nobody /\ lock' = r

\* Under the lock: old sessions are closed in the copy, the schedule is drawn
\* up from the directory, and the session is entered into the manifest.
BeginSession(r) ==
    /\ main[r] = "loaded" /\ command[r] # "summarize" /\ Lock(r)
    /\ copy' = [copy EXCEPT ![r] =
                  Append(CloseStale(copy[r]), [by |-> r, result |-> "open"])]
    /\ manifest' = copy'[r]
    /\ todo' = [todo EXCEPT ![r] = Planned(r)]
    /\ main' = [main EXCEPT ![r] = "looping"]
    /\ UNCHANGED <<tries, command, stop, faults>>

Summarize(r) ==
    /\ main[r] = "loaded" /\ command[r] = "summarize" /\ Lock(r)
    /\ copy' = [copy EXCEPT ![r] = CloseStale(copy[r])] /\ manifest' = copy'[r]
    /\ main' = [main EXCEPT ![r] = "packaging"]
    /\ UNCHANGED <<tries, command, todo, stop, faults>>

\* The first signal: the handler sets the event, then raises.
Interrupt(r) ==
    /\ main[r] = "looping"
    /\ stop' = [stop EXCEPT ![r] = TRUE] /\ main' = [main EXCEPT ![r] = "interrupted"]
    /\ UNCHANGED <<manifest, lock, tries, command, copy, todo, faults>>

Tell(r, what) ==
    tries' = [c \in Cases |-> [n \in Numbers(c) |->
                IF <<c, n>> \in Alive(r) /\ tries[c][n].told # "kill"
                THEN [tries[c][n] EXCEPT !.told = what] ELSE tries[c][n]]]

\* Every registered child gets a SIGINT; the list is read under the lock.
RequestStop(r) ==
    /\ main[r] = "interrupted" /\ ~ContextLocked(r)
    /\ Tell(r, "stop") /\ main' = [main EXCEPT ![r] = "stopping"]
    /\ UNCHANGED <<manifest, lock, command, copy, todo, stop, faults>>

CancelQueued(r) ==
    /\ main[r] = "stopping"
    /\ todo' = [todo EXCEPT ![r] = {}] /\ main' = [main EXCEPT ![r] = "draining"]
    /\ UNCHANGED <<manifest, lock, tries, command, copy, stop, faults>>

\* Mutant of KillAll: no timer, only a second signal that comes early enough.
KillBySignal(r) ==
    /\ main[r] = "interrupted" /\ ~ContextLocked(r)
    /\ \E a \in Alive(r) : Try(a).told # "kill"
    /\ Tell(r, "kill") /\ UNCHANGED mainVars

\* The timer that RequestStop has started; or a second signal.
KillAll(r) ==
    /\ main[r] \in {"interrupted", "stopping", "draining"} /\ ~ContextLocked(r)
    /\ \E a \in Alive(r) : Try(a).told # "kill"
    /\ Tell(r, "kill") /\ UNCHANGED mainVars

\* A summary that cannot be written, for one: the pool is shut down, nobody is
\* told to stop, and the session is never closed.
LoopFails(r) ==
    /\ main[r] = "looping" /\ Fault
    /\ todo' = [todo EXCEPT ![r] = {}] /\ main' = [main EXCEPT ![r] = "unwinding"]
    /\ UNCHANGED <<manifest, lock, tries, command, copy, stop>>

Drained(r) == Busy(r) = {} /\ todo[r] = {}

EndSession(r) ==
    /\ main[r] \in {"looping", "draining"} /\ Drained(r)
    /\ copy' = [copy EXCEPT ![r][Len(copy[r])].result = SummaryStatus(r)]
    /\ manifest' = copy'[r] /\ main' = [main EXCEPT ![r] = "packaging"]
    /\ UNCHANGED <<lock, tries, command, todo, stop, faults>>

\* The ZIP, which an interrupted session leaves out, and the last write of the
\* manifest.
Package(r) ==
    /\ main[r] = "packaging"
    /\ manifest' = IF stop[r] THEN manifest ELSE copy[r]
    /\ Exits(r) /\ UNCHANGED <<tries, faults>>

Unwound(r) ==
    /\ main[r] = "unwinding" /\ Drained(r)
    /\ Exits(r) /\ UNCHANGED <<manifest, tries, faults>>

\* Of an attempt whose thread is gone there remain its files, and a child that
\* is alive.
Orphaned(t) ==
    [NewTry(t.by) EXCEPT !.at = "lost", !.status = t.status, !.trace = t.trace,
        !.proc  = IF t.proc = "alive" THEN "alive" ELSE "none",
        !.child = IF t.proc = "alive" THEN t.child ELSE "git"]

\* A kill, or a signal before the handlers are there or after they are gone.
Kill(r) ==
    /\ main[r] \notin {"idle", "gone"}
    /\ tries' = [c \in Cases |-> [n \in Numbers(c) |->
                   IF <<c, n>> \in Busy(r) THEN Orphaned(tries[c][n]) ELSE tries[c][n]]]
    /\ Exits(r) /\ Fault /\ UNCHANGED manifest

-----------------------------------------------------------------------------
(* A pool thread: run_case_attempt.                                        *)

First(r, a) == a \in todo[r] /\ \A b \in todo[r] : Order[a[1]] <= Order[b[1]]

\* In the order of submission.  The directory of an attempt is made anew; where
\* it exists, the thread ends.
StartAttempt(r) ==
    \E a \in todo[r] :
    /\ First(r, a) /\ Cardinality(Busy(r)) < Jobs
    /\ todo' = [todo EXCEPT ![r] = @ \ {a}]
    /\ tries' = IF a[2] \in Numbers(a[1]) THEN tries
                ELSE [tries EXCEPT ![a[1]] = Append(@, NewTry(r))]
    /\ UNCHANGED <<manifest, lock, main, command, copy, stop, faults>>

\* SessionContext.spawn looks at the event and registers the child under one
\* lock.
EnterSpawn(a) ==
    LET t == Try(a) IN
    /\ t.at = "free" /\ ~ContextLocked(t.by) /\ ~stop[t.by]
    /\ Set(a, [t EXCEPT !.at = "spawning"]) /\ UNCHANGED mainVars

Spawn(a) ==
    /\ Try(a).at = "spawning"
    /\ Set(a, [Try(a) EXCEPT !.at = "waiting", !.proc = "alive", !.told = "nothing"])
    /\ UNCHANGED mainVars

\* _StopRequested.
SpawnRefused(a) ==
    LET t == Try(a) IN
    /\ t.at = "free" /\ ~ContextLocked(t.by) /\ stop[t.by]
    /\ Set(a, [t EXCEPT !.at = "reaped", !.stopSeen = TRUE, !.proc = "none"])
    /\ UNCHANGED mainVars

\* What the stop flag says when the child has ended; a checkout that is
\* verified is followed by the run.
Reap(a) ==
    LET t == Try(a)
        seen == [t EXCEPT !.stopSeen = stop[t.by]]
    IN  /\ t.at = "waiting" /\ t.proc \in {"ok", "failed"}
        /\ Set(a, IF t.child = "git" /\ t.proc = "ok"
                  THEN [t EXCEPT !.child = "run", !.at = "free", !.proc = "none"]
                  ELSE [seen EXCEPT !.at = "reaped"])
        /\ UNCHANGED mainVars

\* The thread's own state goes; what a completion rests on stays for later.
Recorded(t) ==
    IF Classified(t) = "completed"
    THEN [NewTry(t.by) EXCEPT !.at = "over", !.status = "completed", !.outcome = t.trace,
             !.child = t.child, !.proc = t.proc, !.trace = t.trace]
    ELSE [NewTry(t.by) EXCEPT !.at = "over", !.status = Classified(t)]

Record(a) ==
    /\ Try(a).at = "reaped"
    /\ Set(a, Recorded(Try(a))) /\ UNCHANGED mainVars

\* result.json cannot be written: it says "running" for ever.
RecordFails(a) ==
    /\ Try(a).at = "reaped" /\ Fault
    /\ Set(a, Orphaned(Try(a)))
    /\ UNCHANGED <<manifest, lock, main, command, copy, todo, stop>>

\* An exception of the runner's own between two children, or of Popen: recorded
\* as a failure, whatever the attempt had come to.
AttemptRaises(a) ==
    /\ Try(a).at \in {"free", "spawning", "reaped"} /\ Fault
    /\ Set(a, [NewTry(Try(a).by) EXCEPT !.at = "over", !.status = "failed"])
    /\ UNCHANGED <<manifest, lock, main, command, copy, todo, stop>>

-----------------------------------------------------------------------------
(* The children, their runner alive or not, and the directory.             *)

\* One that is told to stop may finish all the same, one that is killed may not;
\* a run may crash with its trace already written, or exit well with one that
\* proves nothing.
ChildEnds(a) ==
    LET t == Try(a) IN
    /\ t.proc = "alive"
    /\ \E p \in IF t.told = "kill" THEN {"failed"} ELSE {"ok", "failed"},
          w \in IF t.child = "run" THEN Outcomes \cup {"none"} ELSE {"none"} :
          Set(a, IF t.at = "lost" THEN Orphaned([t EXCEPT !.proc = "none", !.trace = w])
                 ELSE [t EXCEPT !.proc = p, !.trace = w])
    /\ UNCHANGED mainVars

\* Artifacts are lost or edited while nobody runs the batch.
Damage(a) ==
    /\ Fault /\ lock = Nobody /\ Try(a).status = "completed" /\ Try(a).trace \in Outcomes
    /\ Set(a, [Try(a) EXCEPT !.trace = "none"])
    /\ UNCHANGED <<manifest, lock, main, command, copy, todo, stop>>

-----------------------------------------------------------------------------
MainSteps(r) ==
    \/ Refused(r) \/ BeginSession(r) \/ Summarize(r) \/ RequestStop(r)
    \/ CancelQueued(r) \/ EndSession(r) \/ Package(r) \/ Unwound(r)

ThreadSteps(a) ==
    \/ EnterSpawn(a) \/ Spawn(a) \/ SpawnRefused(a) \/ Reap(a) \/ Record(a)
    \/ RecordFails(a) \/ AttemptRaises(a)

BatchNext ==
    \/ \E r \in Runners :
          \/ Create(r) \/ LoadBatch(r) \/ MainSteps(r)
          \/ Interrupt(r) \/ KillAll(r) \/ LoopFails(r) \/ Kill(r)
          \/ StartAttempt(r)
    \/ \E a \in All : ThreadSteps(a) \/ ChildEnds(a) \/ Damage(a)

BatchSpec == BatchInit /\ [][BatchNext]_batchVars

\* The main thread and the pool's threads are scheduled, the timer fires, and a
\* process that is killed dies.  No other child need ever end.
Proceeds(r) ==
    \/ MainSteps(r) \/ KillAll(r) \/ StartAttempt(r)
    \/ \E a \in Busy(r) : ThreadSteps(a) \/ (Try(a).told = "kill" /\ ChildEnds(a))

FairBatchSpec == BatchSpec /\ \A r \in Runners : WF_batchVars(Proceeds(r))

-----------------------------------------------------------------------------
\* A case that is completed, by what its artifacts still prove, or failed, is not
\* run again unless the command says so (rerun-failed): not by a resume that had
\* loaded the manifest before the outcome was there, nor while orphans of a
\* killed runner still write.  cmd_new schedules every case; it may find the
\* outcomes of a resume that took the lock between its manifest and its own lock.
DecidedOnce ==
    [][\A c \in Cases : Len(tries'[c]) > Len(tries[c]) =>
          LET by == command[tries'[c][Len(tries'[c])].by]
          IN  by # "new" => CaseStatus(c) # "completed"
                            /\ (CaseStatus(c) = "failed" => by = "rerun")]_batchVars

\* "no new subprocess may start, and every attempt ending from here on is
\* classified as interrupted": once a runner has asked for the stop each child
\* it still has was told; what the stop has ended is never recorded as a
\* failure (but for an exception of the runner's own, which is one of Fault's), and
\* a run that ended well is never thrown away as interrupted.
StopIsClean ==
    [][/\ \A r \in Runners : main[r] \in {"stopping", "draining"} =>
             \A a \in Alive(r) : Try(a).told # "nothing"
       /\ \A a \in All :
             LET was == Try(a)
                 is  == tries'[a[1]][a[2]].status
             IN  /\ is = "failed" /\ was.told # "nothing" /\ faults' = faults
                       => was.status = "failed" \/ was.proc = "ok"
                 /\ is = "interrupted" => ~RanOk(was)]_batchVars

\* A runner that is told to stop ends, though its children ignore the signal.
StopEnds == \A r \in Runners : stop[r] ~> main[r] = "gone"
===============================================================================
