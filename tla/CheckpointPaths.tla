-------------------------- MODULE CheckpointPaths --------------------------
(***************************************************************************)
(* Where a unit's checkpoint row lives (core/checkpoint.py): a row goes to *)
(* the unit's bare file name, which several units may share (names differ  *)
(* in case only on a case-insensitive file system, or lose a separator in  *)
(* safe_filename), or to its own suffixed home when a sibling holds the    *)
(* bare name.  The path is resolved by reading what the files hold, and    *)
(* then written, both under _save_lock, by the threads of a pool.  The     *)
(* process may be killed anywhere; files may be damaged or deleted; the    *)
(* file system may refuse to remove a superseded twin.                     *)
(*                                                                         *)
(* Abstracted: a file is a row (its unit and when it was written, which is *)
(* also its modification time), something unreadable, or nothing.  The     *)
(* suffix is a digest of the unit's id, so homes differ.  Moving the       *)
(* directory to another file system is not modelled.                       *)
(***************************************************************************)
EXTENDS Naturals

CONSTANTS
    Units,
    Names,      \* file names, up to what the file system distinguishes
    BareName,   \* the name safe_filename gives each unit
    LongUnits,  \* units whose name is truncated, and carries the digest itself
    Threads,
    MaxSaves,   \* bound: rows written
    NoFile, Garbage, NoUnit, NoThread

Bare(u) == <<"bare", BareName[u]>>
Home(u) == <<"home", u>>
Paths(u) == IF u \in LongUnits THEN {Bare(u)} ELSE {Bare(u), Home(u)}
Files   == ({"bare"} \X Names) \cup ({"home"} \X Units)

ASSUME PathsAssumption ==
    /\ BareName \in [Units -> Names] /\ LongUnits \subseteq Units
    /\ \A u \in LongUnits, v \in Units : BareName[u] = BareName[v] => u = v
    /\ MaxSaves \in Nat
    /\ NoFile # Garbage
    /\ NoFile \notin [id : Units, at : Nat] /\ Garbage \notin [id : Units, at : Nat]
    /\ NoUnit \notin Units /\ NoThread \notin Threads

VARIABLES
    files,   \* the checkpoint directory
    thread,  \* what each thread saves, how far it is, and the path it resolved
    lock,    \* holder of _save_lock
    saves,   \* rows written so far: the clock
    latest,  \* when each unit's last row was written; 0 when there is none,
             \* or when one of the unit's files was damaged since (history)
    refused  \* whether the unit's twin could not be removed when its path was
             \* last resolved (history)

vars == <<files, thread, lock, saves, latest, refused>>

Row(u, t)   == [id |-> u, at |-> t]
IsRow(c)    == c \in [id : Units, at : Nat]
Holds(f, u) == IsRow(files[f]) /\ files[f].id = u

Resting == [unit |-> NoUnit, step |-> "idle", path |-> NoFile]

\* A directory left by an older version may hold a unit's row at any of its
\* paths, or at all.
Init ==
    /\ files \in [Files -> {Row(u, 0) : u \in Units} \cup {NoFile}]
    /\ \A f \in Files, u \in Units : Holds(f, u) => f \in Paths(u)
    /\ thread = [w \in Threads |-> Resting] /\ lock = NoThread
    /\ saves = 0 /\ latest = [u \in Units |-> 0] /\ refused = [u \in Units |-> FALSE]

-----------------------------------------------------------------------------
(* disambiguated_checkpoint_path: the path to write, and the superseded    *)
(* twin to delete first, if any.                                           *)

Twins(u) == Holds(Bare(u), u) /\ Holds(Home(u), u)

\* Mutant of Target: the bare name is used whenever the unit is not in its
\* home.
TargetUnchecked(u) == IF Holds(Home(u), u) THEN Home(u) ELSE Bare(u)

\* Mutant of Target: no stability of the home.
TargetUnstable(u) ==
    IF u \notin LongUnits /\ IsRow(files[Bare(u)]) /\ ~Holds(Bare(u), u)
    THEN Home(u) ELSE Bare(u)

Target(u) ==
    IF u \in LongUnits THEN Bare(u)
    ELSE IF Twins(u)
         THEN IF files[Home(u)].at > files[Bare(u)].at THEN Home(u) ELSE Bare(u)
    ELSE IF Holds(Bare(u), u) THEN Bare(u)
    ELSE IF IsRow(files[Bare(u)]) \/ Holds(Home(u), u) THEN Home(u)
    ELSE Bare(u)

Superseded(u) ==
    IF u \notin LongUnits /\ Twins(u) THEN {Bare(u), Home(u)} \ {Target(u)} ELSE {}

-----------------------------------------------------------------------------
(* save_checkpoint_under_lock.                                             *)

\* A thread has a row to save.
Begin(w, u) ==
    /\ thread[w] = Resting
    /\ thread' = [thread EXCEPT ![w] = [unit |-> u, step |-> "lock", path |-> NoFile]]
    /\ UNCHANGED <<files, lock, saves, latest, refused>>

TakeLock(w) ==
    /\ thread[w].step = "lock" /\ lock = NoThread
    /\ lock' = w
    /\ thread' = [thread EXCEPT ![w].step = "resolve"]
    /\ UNCHANGED <<files, saves, latest, refused>>

\* The path is chosen from what the files hold now.
Resolve(w) ==
    LET u == thread[w].unit IN
    /\ thread[w].step = "resolve"
    /\ thread' = [thread EXCEPT ![w] = [unit |-> u, step |-> "write",
                                         path |-> Target(u)]]
    /\ files' = [f \in Files |-> IF f \in Superseded(u) THEN NoFile ELSE files[f]]
    /\ refused' = [refused EXCEPT ![u] = FALSE]
    /\ UNCHANGED <<lock, saves, latest>>

\* Comparing the twins' times, or removing the superseded one, fails: the error
\* is passed over and the bare name is used, whichever twin is newer.
ResolveRefused(w) ==
    LET u == thread[w].unit IN
    /\ thread[w].step = "resolve" /\ u \notin LongUnits /\ Twins(u)
    /\ thread' = [thread EXCEPT ![w] = [unit |-> u, step |-> "write",
                                         path |-> Bare(u)]]
    /\ refused' = [refused EXCEPT ![u] = TRUE]
    /\ UNCHANGED <<files, lock, saves, latest>>

\* write_json is atomic: the whole row, or the file as it was.
Write(w) ==
    LET u == thread[w].unit IN
    /\ thread[w].step = "write" /\ saves < MaxSaves
    /\ saves' = saves + 1
    /\ files' = [files EXCEPT ![thread[w].path] = Row(u, saves')]
    /\ latest' = [latest EXCEPT ![u] = saves']
    /\ lock' = NoThread /\ thread' = [thread EXCEPT ![w] = Resting]
    /\ UNCHANGED refused

\* A failed write releases the lock and leaves the files.
WriteFails(w) ==
    /\ thread[w].step = "write"
    /\ lock' = NoThread /\ thread' = [thread EXCEPT ![w] = Resting]
    /\ UNCHANGED <<files, saves, latest, refused>>

\* The process is killed; a later run finds the files as they are.
Kill ==
    /\ thread' = [w \in Threads |-> Resting] /\ lock' = NoThread
    /\ UNCHANGED <<files, saves, latest, refused>>

\* From outside, a file is deleted or made unreadable.
Damage(f) ==
    /\ files[f] # NoFile
    /\ \E c \in {NoFile, Garbage} : files' = [files EXCEPT ![f] = c]
    /\ latest' = [u \in Units |-> IF Holds(f, u) THEN 0 ELSE latest[u]]
    /\ UNCHANGED <<thread, lock, saves, refused>>

Step(w) ==
    \/ \E u \in Units : Begin(w, u)
    \/ TakeLock(w) \/ Resolve(w) \/ ResolveRefused(w) \/ Write(w) \/ WriteFails(w)

Next == (\E w \in Threads : Step(w)) \/ Kill \/ \E f \in Files : Damage(f)

Spec == Init /\ [][Next]_vars

-----------------------------------------------------------------------------
(* Properties.                                                             *)

\* Every variable keeps its type.
TypeOK ==
    /\ files \in [Files -> [id : Units, at : Nat] \cup {NoFile, Garbage}]
    /\ thread \in [Threads -> [unit : Units \cup {NoUnit},
                               step : {"idle", "lock", "resolve", "write"},
                               path : Files \cup {NoFile}]]
    /\ lock \in Threads \cup {NoThread}
    /\ saves \in Nat /\ latest \in [Units -> Nat] /\ refused \in [Units -> BOOLEAN]

\* The collision of #317: "the second save silently overwrote the first, and
\* the lost unit was re-analyzed and re-paid on every resume".  Whatever its
\* siblings save, a unit's last row stays on disk until someone else damages
\* it.
RowsSurvive ==
    \A u \in Units : latest[u] > 0 => \E f \in Files : files[f] = Row(u, latest[u])

\* The guard against the race between two siblings in flight: a path resolved
\* from the files is still the unit's to write when it is written, though the
\* files may have been damaged in between.
ResolvedStillValid ==
    \A w \in Threads : thread[w].step = "write" =>
        \A u \in Units : Holds(thread[w].path, u) => u = thread[w].unit

\* Home stability and self-heal: load takes the rows in the order of listdir,
\* so every row it may find for a unit must be the unit's last one.  The one way
\* out is disclosed here: while the removal of a twin was refused when the unit
\* was last saved, that twin may still be read.  The first save that can remove
\* it restores the property, however many were refused before, and no sibling
\* is ever affected.
LoadFindsLatest ==
    \A u \in Units, f \in Files :
        latest[u] > 0 /\ ~refused[u] /\ Holds(f, u) => files[f].at = latest[u]
=============================================================================
