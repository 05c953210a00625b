------------------------------ MODULE WebJobs ------------------------------
(***************************************************************************)
(* The web UI's scan jobs (internal/server/server.go of the Go CLI).  A    *)
(* request starts a job: a directory, an entry of the manager, a goroutine *)
(* (runJob) that waits for one of the run slots and runs Python as a child *)
(* process, phase after phase.  Other requests follow a job's log as a     *)
(* stream of server-sent events, or delete it; a signal shuts the server   *)
(* down; a restarted server recovers the jobs from their directories.      *)
(*                                                                         *)
(* Abstracted: a log line is its position; what a scan finds; the checks   *)
(* of origin, token and form; the pages.  A job has one viewer, who        *)
(* reconnects with Last-Event-ID as a browser does, across restarts too.   *)
(***************************************************************************)
EXTENDS Naturals, FiniteSets, Sequences, SequencesExt

CONSTANTS
    Jobs,       \* job ids
    Slots,      \* capacity of the semaphore of run slots
    MaxLines,   \* lines a log buffer holds before it is cut off
    Viewed,     \* the jobs somebody watches
    Deletable,  \* the jobs somebody may delete
    MaxStops,   \* bound: how often the server stops
    MayCrash    \* whether the server may be killed outright

ASSUME JobsAssumption ==
    /\ IsFiniteSet(Jobs) /\ Viewed \subseteq Jobs /\ Deletable \subseteq Jobs
    /\ Slots \in Nat \ {0} /\ MaxLines \in Nat /\ MaxStops \in Nat
    /\ MayCrash \in BOOLEAN

VARIABLES
    server,     \* "up", "draining", "cancelled", and "down" or "crashed"
    runner,     \* where each job's handler, then goroutine, is
    status,     \* the job's Status in memory
    cancelled,  \* jobs whose context is cancelled
    listed,     \* jobs in the manager's map
    slots,      \* jobs that hold a run slot
    child,      \* the job's Python process: none, alive, or how it ended
    log,        \* the job's LogBuf
    disk,       \* the job's directory
    deleting,   \* where a request to delete the job is
    view,       \* the viewer's stream: "off", "open" or "told"
    got,        \* the lines the viewer has received
    told,       \* the last status the viewer was told since the last kill
    orphans,    \* jobs whose process outlived its server (history)
    stops       \* times the server has stopped (history, bounded)

jobVars  == <<runner, status, cancelled, listed, slots, child>>
viewVars == <<view, got, told>>
vars     == <<server, jobVars, log, disk, deleting, viewVars, orphans, stops>>

Phases == {"clone", "scan", "report", "summary"}
Final  == {"done", "error", "timeout"}
Marker == 0                      \* "[log truncated: limit reached]"
NoDir  == [there |-> FALSE, meta |-> "", report |-> FALSE, logs |-> <<>>]
NewDir == [NoDir EXCEPT !.there = TRUE]
Serving == server \in {"up", "draining"}   \* the listener is open
Up      == server \notin {"down", "crashed"}

Init ==
    /\ server = "up" /\ stops = 0 /\ orphans = {}
    /\ runner = [j \in Jobs |-> "none"] /\ status = [j \in Jobs |-> "none"]
    /\ cancelled = {} /\ listed = {} /\ slots = {}
    /\ child = [j \in Jobs |-> "none"] /\ log = [j \in Jobs |-> <<>>]
    /\ disk = [j \in Jobs |-> NoDir] /\ deleting = [j \in Jobs |-> "no"]
    /\ view = [j \in Jobs |-> "off"] /\ got = [j \in Jobs |-> <<>>]
    /\ told = [j \in Jobs |-> "none"]

Goto(j, l) == runner' = [runner EXCEPT ![j] = l]

\* addLog: a full buffer is closed with a marker, and never shifts.
AddLog(l) ==
    IF Len(l) < MaxLines THEN Append(l, Len(l) + 1)
    ELSE IF Len(l) = MaxLines THEN Append(l, Marker) ELSE l

Logged(j)   == log' = [log EXCEPT ![j] = AddLog(@)]
MayBeLogged(j) == Logged(j) \/ UNCHANGED log

-----------------------------------------------------------------------------
(* handleStartScan.                                                        *)

\* The draining flag is checked, and the wait group joined, under drainMu.
Admit(j) ==
    /\ server = "up" /\ runner[j] = "none" /\ status[j] = "none"
    /\ disk[j] = NoDir /\ deleting[j] = "no"
    /\ Goto(j, "admitted")
    /\ UNCHANGED <<server, status, cancelled, listed, slots, child, log, disk,
                   deleting, viewVars, orphans, stops>>

\* The job's directory and meta.json.
Store(j) ==
    /\ runner[j] = "admitted"
    /\ disk' = [disk EXCEPT ![j] = NewDir] /\ Goto(j, "stored")
    /\ UNCHANGED <<server, status, cancelled, listed, slots, child, log,
                   deleting, viewVars, orphans, stops>>

\* The manager learns of the job, and its goroutine starts.
List(j) ==
    /\ runner[j] = "stored"
    /\ listed' = listed \cup {j} /\ status' = [status EXCEPT ![j] = "running"]
    /\ Goto(j, "queued")
    /\ UNCHANGED <<server, cancelled, slots, child, log, disk, deleting,
                   viewVars, orphans, stops>>

-----------------------------------------------------------------------------
(* runJob: the slot, then the phases, each a child process.                *)

\* A repository given by URL is cloned first.
TakeSlot(j) ==
    /\ runner[j] = "queued" /\ Cardinality(slots) < Slots
    /\ slots' = slots \cup {j} /\ Logged(j)
    /\ \E first \in {"clone", "scan"} : Goto(j, first)
    /\ UNCHANGED <<server, status, cancelled, listed, child, disk, deleting,
                   viewVars, orphans, stops>>

AbortQueued(j) ==
    /\ runner[j] = "queued" /\ j \in cancelled /\ Goto(j, "cleanup")
    /\ UNCHANGED <<server, status, cancelled, listed, slots, child, log, disk,
                   deleting, viewVars, orphans, stops>>

\* exec does not start a command whose context is cancelled.
Launch(j) ==
    /\ runner[j] \in Phases /\ child[j] = "none" /\ j \notin cancelled
    /\ child' = [child EXCEPT ![j] = "alive"] /\ MayBeLogged(j)
    /\ UNCHANGED <<server, runner, status, cancelled, listed, slots, disk,
                   deleting, viewVars, orphans, stops>>

\* The process writes to stderr, and into the job's directory, which it
\* creates when it is not there.
ChildWrites(j) ==
    /\ child[j] = "alive"
    /\ \/ runner[j] \in Phases /\ Logged(j) /\ UNCHANGED disk
       \/ ~disk[j].there /\ disk' = [disk EXCEPT ![j] = NewDir] /\ UNCHANGED log
    /\ UNCHANGED <<server, jobVars, deleting, viewVars, orphans, stops>>

\* It exits, or is killed: with its process group when the job is cancelled,
\* by the deadline of the invocation otherwise.
ChildEnds(j) ==
    /\ child[j] = "alive"
    /\ \E out \in IF runner[j] \notin Phases THEN {"none"}
                  ELSE IF runner[j] = "clone" THEN {"ok", "fail"}
                  ELSE {"ok", "fail", "deadline"} :
          child' = [child EXCEPT ![j] = out]
    /\ UNCHANGED <<server, runner, status, cancelled, listed, slots, log, disk,
                   deleting, viewVars, orphans, stops>>

\* A phase of a cancelled job returns, whatever came of it; but a clone that
\* succeeded goes on (to a scan that does not start), a summary to setDone.
Abandon(j) ==
    /\ runner[j] \in Phases /\ j \in cancelled /\ child[j] # "alive"
    /\ ~(runner[j] \in {"clone", "summary"} /\ child[j] = "ok")
    /\ child' = [child EXCEPT ![j] = "none"] /\ Goto(j, "cleanup")
    /\ UNCHANGED <<server, status, cancelled, listed, slots, log, disk,
                   deleting, viewVars, orphans, stops>>

\* What a phase that ended in `out` leads to, and whether report.html exists
\* then: the scan may bring its own report and its own summary.
NextPhase(phase, out) ==
    CASE phase = "clone"   -> IF out = "ok" THEN {<<"scan", FALSE>>}
                                            ELSE {<<"error", FALSE>>}
      [] phase = "scan"    -> IF out = "ok"
                              THEN {<<"report", FALSE>>, <<"summary", TRUE>>, <<"done", TRUE>>}
                              ELSE IF out = "fail" THEN {<<"error", FALSE>>}
                              ELSE {<<"timeout", FALSE>>}
      [] phase = "report"  -> IF out = "deadline" THEN {<<"timeout", FALSE>>, <<"timeout", TRUE>>}
                              ELSE {<<"error", FALSE>>, <<"summary", TRUE>>, <<"done", TRUE>>}
      [] phase = "summary" -> IF out = "deadline" THEN {<<"timeout", TRUE>>}
                                                  ELSE {<<"done", TRUE>>}

\* The phase's outcome is logged before any change of status.
PhaseEnds(j) ==
    /\ runner[j] \in Phases /\ child[j] \in {"ok", "fail", "deadline"}
    /\ j \notin cancelled \/ (runner[j] \in {"clone", "summary"} /\ child[j] = "ok")
    /\ \E next \in NextPhase(runner[j], child[j]) :
          /\ Goto(j, next[1])
          /\ disk' = [disk EXCEPT ![j].report = disk[j].there /\ next[2]]
          /\ IF next[1] \in {"error", "timeout"} THEN Logged(j) ELSE MayBeLogged(j)
    /\ child' = [child EXCEPT ![j] = "none"]
    /\ UNCHANGED <<server, status, cancelled, listed, slots, deleting, viewVars,
                   orphans, stops>>

Panic(j) ==
    /\ runner[j] \in Phases /\ child[j] # "alive"
    /\ child' = [child EXCEPT ![j] = "none"] /\ Logged(j) /\ Goto(j, "cleanup")
    /\ UNCHANGED <<server, status, cancelled, listed, slots, disk, deleting,
                   viewVars, orphans, stops>>

\* setDone, setError, setTimeout: the latter two are persisted afterwards.
SetStatus(j) ==
    /\ runner[j] \in Final
    /\ status' = [status EXCEPT ![j] = runner[j]]
    /\ Goto(j, IF runner[j] = "done" THEN "cleanup" ELSE "persist")
    /\ UNCHANGED <<server, cancelled, listed, slots, child, log, disk, deleting,
                   viewVars, orphans, stops>>

\* Mutant of Persist: the terminal status stays in memory.
PersistNothing(j) ==
    /\ runner[j] = "persist" /\ Goto(j, "cleanup")
    /\ UNCHANGED <<disk, server, status, cancelled, listed, slots, child, log,
                   deleting, viewVars, orphans, stops>>

\* persistTerminalStatus: a deleted directory is not created again.
Persist(j) ==
    /\ runner[j] = "persist"
    /\ disk' = [disk EXCEPT ![j].meta = IF disk[j].there THEN status[j] ELSE ""]
    /\ Goto(j, "cleanup")
    /\ UNCHANGED <<server, status, cancelled, listed, slots, child, log,
                   deleting, viewVars, orphans, stops>>

\* Mutants of Cleanup: a last line is logged; the slot is kept.
CleanupLogging(j) ==
    /\ runner[j] = "cleanup" /\ Logged(j)
    /\ slots' = slots \ {j}
    /\ status' = [status EXCEPT ![j] = IF @ = "running" THEN "error" ELSE @]
    /\ Goto(j, "logs")
    /\ UNCHANGED <<server, cancelled, listed, child, disk, deleting, viewVars,
                   orphans, stops>>

CleanupKeepingSlot(j) ==
    /\ runner[j] = "cleanup"
    /\ status' = [status EXCEPT ![j] = IF @ = "running" THEN "error" ELSE @]
    /\ Goto(j, "logs")
    /\ UNCHANGED <<slots, server, cancelled, listed, child, log, disk, deleting,
                   viewVars, orphans, stops>>

\* The deferred calls: the slot is released, a job still running (cancelled)
\* becomes an error, ...
Cleanup(j) ==
    /\ runner[j] = "cleanup"
    /\ slots' = slots \ {j}
    /\ status' = [status EXCEPT ![j] = IF @ = "running" THEN "error" ELSE @]
    /\ Goto(j, "logs")
    /\ UNCHANGED <<server, cancelled, listed, child, log, disk, deleting,
                   viewVars, orphans, stops>>

\* ... logs.txt is written, and the job's done channel is closed.
WriteLogs(j) ==
    /\ runner[j] = "logs"
    /\ disk' = [disk EXCEPT ![j].logs = IF disk[j].there THEN log[j] ELSE <<>>]
    /\ Goto(j, "gone")
    /\ UNCHANGED <<server, status, cancelled, listed, slots, child, log,
                   deleting, viewVars, orphans, stops>>

-----------------------------------------------------------------------------
(* handleScanLogs: the viewer's event stream.                              *)

\* (Re)connecting, with the number of lines received as Last-Event-ID.
Connect(j) ==
    /\ Serving /\ j \in Viewed \cap listed /\ view[j] = "off"
    /\ view' = [view EXCEPT ![j] = "open"]
    /\ UNCHANGED <<server, jobVars, log, disk, deleting, got, told, orphans, stops>>

\* Log and status are read under one lock; the lines are then sent.
Unsent(j) == IF Len(got[j]) > Len(log[j]) THEN <<>>
             ELSE SubSeq(log[j], Len(got[j]) + 1, Len(log[j]))

Tick(j) ==
    /\ view[j] = "open" /\ Up
    /\ Unsent(j) # <<>> \/ status[j] # "running"
    /\ got' = [got EXCEPT ![j] = @ \o Unsent(j)]
    /\ IF status[j] = "running" THEN UNCHANGED <<view, told>>
       ELSE /\ view' = [view EXCEPT ![j] = "told"]
            /\ told' = [told EXCEPT ![j] = status[j]]
    /\ UNCHANGED <<server, jobVars, log, disk, deleting, orphans, stops>>

\* The connection drops, part of the lines having arrived.
Drop(j) ==
    /\ view[j] = "open"
    /\ \E n \in 0..Len(Unsent(j)) :
          got' = [got EXCEPT ![j] = @ \o SubSeq(Unsent(j), 1, n)]
    /\ view' = [view EXCEPT ![j] = "off"]
    /\ UNCHANGED <<server, jobVars, log, disk, deleting, told, orphans, stops>>

-----------------------------------------------------------------------------
(* handleDeleteScan.                                                       *)

\* The job's context is cancelled (a recovered job has none).
Delete(j) ==
    /\ Serving /\ j \in listed \cap Deletable /\ deleting[j] = "no"
    /\ cancelled' = IF runner[j] = "none" THEN cancelled ELSE cancelled \cup {j}
    /\ deleting' = [deleting EXCEPT ![j] = "waiting"]
    /\ UNCHANGED <<server, runner, status, listed, slots, child, log, disk,
                   viewVars, orphans, stops>>

\* Mutant of Unlist: the directory is removed at once.
UnlistAtOnce(j) ==
    /\ deleting[j] = "waiting" /\ Up
    /\ listed' = listed \ {j} /\ deleting' = [deleting EXCEPT ![j] = "removing"]
    /\ UNCHANGED <<server, runner, status, cancelled, slots, child, log, disk,
                   viewVars, orphans, stops>>

\* The done channel is closed, or the wait for it runs out: the cancelled job's
\* process is dead by then.
Unlist(j) ==
    /\ deleting[j] = "waiting" /\ Up
    /\ runner[j] \in {"gone", "none"} \/ child[j] # "alive"
    /\ listed' = listed \ {j} /\ deleting' = [deleting EXCEPT ![j] = "removing"]
    /\ UNCHANGED <<server, runner, status, cancelled, slots, child, log, disk,
                   viewVars, orphans, stops>>

\* RemoveAll, as one step: nobody writes into the directory meanwhile.
RemoveDir(j) ==
    /\ deleting[j] = "removing" /\ Up
    /\ disk' = [disk EXCEPT ![j] = NoDir]
    /\ deleting' = [deleting EXCEPT ![j] = "deleted"]
    /\ UNCHANGED <<server, jobVars, log, viewVars, orphans, stops>>

-----------------------------------------------------------------------------
(* Shutdown and restart.                                                   *)

\* Ctrl-C: no more jobs are admitted ...
Drain ==
    /\ server = "up" /\ stops < MaxStops
    /\ server' = "draining" /\ stops' = stops + 1
    /\ UNCHANGED <<jobVars, log, disk, deleting, viewVars, orphans>>

\* ... every job of the manager is cancelled, and the connections are closed.
CancelAll ==
    /\ server = "draining" /\ server' = "cancelled"
    /\ cancelled' = cancelled \cup {j \in listed : runner[j] # "none"}
    /\ view' = [j \in Jobs |-> IF view[j] = "open" THEN "off" ELSE view[j]]
    /\ UNCHANGED <<runner, status, listed, slots, child, log, disk, deleting,
                   got, told, orphans, stops>>

\* The process is gone: goroutines, requests and memory with it, but not the
\* children.
ProcessGone(end) ==
    /\ server' = end
    /\ orphans' = orphans \cup {j \in Jobs : child[j] = "alive"}
    /\ runner' = [j \in Jobs |-> "none"] /\ status' = [j \in Jobs |-> "none"]
    /\ cancelled' = {} /\ listed' = {} /\ slots' = {}
    /\ child' = [j \in Jobs |-> IF child[j] = "alive" THEN "alive" ELSE "none"]
    /\ log' = [j \in Jobs |-> <<>>]
    /\ deleting' = [j \in Jobs |-> IF deleting[j] = "deleted" THEN "deleted" ELSE "no"]
    /\ view' = [j \in Jobs |-> IF view[j] = "open" THEN "off" ELSE view[j]]
    /\ told' = IF end = "down" THEN told ELSE [j \in Jobs |-> "none"]
    /\ UNCHANGED <<disk, got>>

\* The wait for the goroutines is bounded: it runs out when one of them waits
\* for a slot or for its process.  A cancelled job's process is dead by then.
WaitIsOver ==
    \A j \in Jobs :
        /\ runner[j] \in {"none", "gone", "queued"} \cup Phases
        /\ j \in cancelled => child[j] # "alive"

Exit == server = "cancelled" /\ WaitIsOver /\ ProcessGone("down") /\ UNCHANGED stops

Crash ==
    /\ MayCrash /\ Up /\ stops < MaxStops /\ stops' = stops + 1
    /\ ProcessGone("crashed")

\* recoverJobs: the status comes from report.html, unless meta.json says
\* "timeout".
Recovered(d) == IF d.meta = "timeout" THEN "timeout"
                ELSE IF d.report THEN "done" ELSE "error"

RecoveredLog(l) == IF Len(l) > MaxLines THEN Append(SubSeq(l, 1, MaxLines), Marker) ELSE l

Restart ==
    /\ ~Up /\ server' = "up"
    /\ listed' = {j \in Jobs : disk[j].there}
    /\ status' = [j \in Jobs |-> IF disk[j].there THEN Recovered(disk[j]) ELSE "none"]
    /\ log' = [j \in Jobs |-> RecoveredLog(disk[j].logs)]
    /\ view' = [j \in Jobs |-> "off"]
    /\ UNCHANGED <<runner, cancelled, slots, child, disk, deleting, got, told,
                   orphans, stops>>

-----------------------------------------------------------------------------
Handler(j) == Store(j) \/ List(j)

Runner(j) ==
    \/ TakeSlot(j) \/ AbortQueued(j) \/ Launch(j) \/ Abandon(j) \/ PhaseEnds(j)
    \/ SetStatus(j) \/ Persist(j) \/ Cleanup(j) \/ WriteLogs(j)

Deleter(j) == Unlist(j) \/ RemoveDir(j)

Next ==
    \/ \E j \in Jobs : \/ Admit(j) \/ Handler(j) \/ Runner(j) \/ Panic(j)
                       \/ ChildWrites(j) \/ ChildEnds(j)
                       \/ Connect(j) \/ Tick(j) \/ Drop(j)
                       \/ Delete(j) \/ Deleter(j)
    \/ Drain \/ CancelAll \/ Exit \/ Crash \/ Restart

Spec == Init /\ [][Next]_vars

\* Goroutines are scheduled and the stream's ticker ticks; a child process
\* ends, at the latest by the deadline of its invocation.
FairSpec ==
    /\ Spec
    /\ \A j \in Jobs : /\ WF_vars(Handler(j)) /\ WF_vars(Runner(j))
                       /\ WF_vars(ChildEnds(j)) /\ WF_vars(Tick(j))

-----------------------------------------------------------------------------
(* Properties.                                                             *)

\* handleScanLogs: "indices are stable for the buffer's life": over every
\* dropped connection and restart the viewer gets each line once, in order.
\* And a viewer who is told that the job has ended has every line of its log,
\* the reason of a failure included.
StreamComplete ==
    \A j \in Jobs :
        /\ \A i \in DOMAIN got[j] : got[j][i] = IF i <= MaxLines THEN i ELSE Marker
        /\ view[j] = "told" /\ j \in listed => IsPrefix(log[j], got[j])

\* handleDeleteScan: no late write can "recreate the deleted directory and
\* resurrect the job on restart", unless its process outlived its server.
DeletedStaysDeleted ==
    \A j \in Jobs \ orphans : deleting[j] = "deleted" => ~disk[j].there /\ j \notin listed

\* setTimeout: "the distinct state survives a server restart", and so does
\* "done", when the server stops in order, whatever kills came before.  (The
\* error of a job that was cancelled or panicked after its report was written
\* reloads as "done"; a process that outlived its server may bring back the
\* directory of a deleted job.)
RestartKeepsStatus ==
    [][server = "down" /\ server' = "up" =>
          \A j \in listed' \ orphans : told[j] \in {"done", "timeout"} => status'[j] = told[j]]_vars

\* A job that is waiting for a slot gets one and ends: slots are given back on
\* every path.
EveryJobEnds == \A j \in Jobs : runner[j] = "queued" ~> runner[j] \in {"gone", "none"}
=============================================================================
