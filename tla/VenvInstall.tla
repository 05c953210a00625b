---------------------------- MODULE VenvInstall ----------------------------
(***************************************************************************)
(* The managed Python environment of the Go CLI (internal/python,          *)
(* runtime.go): one venv at ~/.openant/venv, shared by every checkout of   *)
(* the engine on the machine.  Each `openant` invocation detects a Python, *)
(* makes sure the engine is importable (CheckOpenantInstalled), then makes *)
(* sure it is its own checkout's engine (CheckDepsStale): the stamp        *)
(* .deps-hash names the source last installed, and a different one forces  *)
(* a reinstall.  venv and pip run under an exclusive file lock; the stamp  *)
(* is read before the lock, again under it, and written after it.          *)
(*                                                                         *)
(* Abstracted: depsHash (a digest of the checkout's path, pyproject and    *)
(* requirements) is a value of Sources, different whenever any of the      *)
(* three differs.  A Python outside the venv cannot import the engine.     *)
(* The OPENANT_PYTHON override, which leaves the venv to its owner, and a  *)
(* checkout that cannot be found or read are not modelled.                 *)
(***************************************************************************)
EXTENDS Naturals, FiniteSets

CONSTANTS
    Invocations,   \* the processes: each runs `openant` again and again
    Sources,       \* digests of the checkouts
    Checkout,      \* the checkout an invocation's binary was built in
    MaxStarts,     \* bound: commands run in all
    MaxConcurrent, \* bound: commands running at once
    MayKill,       \* whether Ctrl-C may end a command and its pip
    StampMayFail,  \* whether .deps-hash may be unwritable
    Nothing        \* no source installed, no stamp, no lock holder

ASSUME InvocationsAssumption ==
    /\ IsFiniteSet(Invocations)
    /\ Checkout \in [Invocations -> Sources]
    /\ MaxStarts \in Nat /\ MaxConcurrent \in Nat /\ MayKill \in BOOLEAN
    /\ StampMayFail \in BOOLEAN
    /\ Nothing \notin Sources /\ Nothing \notin Invocations

VARIABLES
    venv,       \* whether the venv's interpreter exists
    installed,  \* the source the venv's editable install points at
    stamp,      \* .deps-hash
    lock,       \* holder of .deps-install.lock
    pc,         \* where each invocation is
    python,     \* the interpreter it means to use: the venv's or PATH's
    task,       \* why it wants the lock: a first install, or an update
    ran,        \* the source its last command imported (history)
    starts,     \* commands started so far (history, bounded)
    turns       \* commands have taken turns so far: no two at once, none killed,
                \* none without its stamp (history)

venvVars == <<venv, installed, stamp, lock, pc, python, task, ran, starts, turns>>

Underneath == {"create", "recheck", "pipPins", "pipEditable"}

Importable(py) == py = "venv" /\ venv /\ installed # Nothing

\* Mutant of Stale: the digest leaves the checkout's path out.
StaleAnySource(i) == stamp = Nothing

\* depsStalenessAt.
Stale(i) == stamp # Checkout[i]

GoesTo(i, l) == pc' = [pc EXCEPT ![i] = l]

VenvInit ==
    /\ venv = FALSE /\ installed = Nothing /\ stamp = Nothing
    /\ lock = Nothing
    /\ pc = [i \in Invocations |-> "idle"]
    /\ python = [i \in Invocations |-> "path"]
    /\ task = [i \in Invocations |-> "install"]
    /\ ran = [i \in Invocations |-> Checkout[i]] /\ starts = 0
    /\ turns = TRUE

-----------------------------------------------------------------------------
(* EnsureRuntime, up to the lock.                                          *)

Busy == {i \in Invocations : pc[i] # "idle"}

\* DetectRuntime: the venv's interpreter when there is one, else PATH's.
Detect(i) ==
    /\ pc[i] = "idle" /\ starts < MaxStarts
    /\ Cardinality(Busy) < MaxConcurrent
    /\ starts' = starts + 1 /\ turns' = (turns /\ Busy = {})
    /\ python' = [python EXCEPT ![i] = IF venv THEN "venv" ELSE "path"]
    /\ GoesTo(i, "import")
    /\ UNCHANGED <<venv, installed, stamp, lock, task, ran>>

\* CheckOpenantInstalled: nothing to do when the engine is importable.
CheckInstalled(i) ==
    /\ pc[i] = "import"
    /\ IF Importable(python[i])
       THEN GoesTo(i, "prefer") /\ UNCHANGED task
       ELSE GoesTo(i, "lock") /\ task' = [task EXCEPT ![i] = "install"]
    /\ UNCHANGED <<venv, installed, stamp, lock, python, ran, starts, turns>>

\* preferVenv: the venv's interpreter, once it exists and imports the engine.
\* Only that interpreter's dependencies are checked.
PreferVenv(i) ==
    /\ pc[i] = "prefer"
    /\ python' = [python EXCEPT ![i] = IF Importable("venv") THEN "venv" ELSE @]
    /\ GoesTo(i, IF python'[i] = "venv" THEN "deps" ELSE "run")
    /\ UNCHANGED <<venv, installed, stamp, lock, task, ran, starts, turns>>

\* checkDepsStaleWith: the unlocked check.
CheckDeps(i) ==
    /\ pc[i] = "deps"
    /\ IF Stale(i)
       THEN GoesTo(i, "lock") /\ task' = [task EXCEPT ![i] = "update"]
       ELSE GoesTo(i, "run") /\ UNCHANGED task
    /\ UNCHANGED <<venv, installed, stamp, lock, python, ran, starts, turns>>

-----------------------------------------------------------------------------
(* withVenvInstallLock.                                                    *)

\* createVenv comes first, unless the interpreter in use is the venv's.
FirstStep(i) ==
    IF task[i] = "install" /\ python[i] # "venv" THEN "create" ELSE "recheck"

\* Mutant of Lock: the lock file is opened and never locked.
LockIgnored(i) ==
    /\ pc[i] = "lock"
    /\ lock' = i
    /\ GoesTo(i, FirstStep(i))
    /\ UNCHANGED <<venv, installed, stamp, python, task, ran, starts, turns>>

Lock(i) ==
    /\ pc[i] = "lock" /\ lock = Nothing
    /\ lock' = i
    /\ GoesTo(i, FirstStep(i))
    /\ UNCHANGED <<venv, installed, stamp, python, task, ran, starts, turns>>

\* createVenv: the engine goes into the venv from here on.
CreateVenv(i) ==
    /\ pc[i] = "create"
    /\ venv' = TRUE
    /\ GoesTo(i, "recheck")
    /\ UNCHANGED <<installed, stamp, lock, python, task, ran, starts, turns>>

\* The check repeated under the lock: another invocation may have done it.
DoneMeanwhile(i) == IF task[i] = "install" THEN Importable("venv")
                                          ELSE ~Stale(i)

\* When it has, the closure returns and the deferred unlock runs.
Recheck(i) ==
    /\ pc[i] = "recheck"
    /\ IF DoneMeanwhile(i)
       THEN lock' = Nothing /\ GoesTo(i, "stamp")
       ELSE UNCHANGED lock /\ GoesTo(i, "pipPins")
    /\ UNCHANGED <<venv, installed, stamp, python, task, ran, starts, turns>>

\* pip install -r requirements.txt: it does not touch the editable install.
PipPins(i) ==
    /\ pc[i] = "pipPins" /\ GoesTo(i, "pipEditable")
    /\ UNCHANGED <<venv, installed, stamp, lock, python, task, ran, starts, turns>>

\* pip install -e: the venv now imports this checkout; the lock is released.
PipEditable(i) ==
    /\ pc[i] = "pipEditable"
    /\ installed' = Checkout[i] /\ lock' = Nothing
    /\ GoesTo(i, "stamp")
    /\ UNCHANGED <<venv, stamp, python, task, ran, starts, turns>>

\* Mutant of InstallFails: the error path does not unlock.
InstallFailsHolding(i) ==
    /\ pc[i] \in {"create", "pipPins", "pipEditable"}
    /\ GoesTo(i, "idle")
    /\ UNCHANGED <<lock, venv, installed, stamp, python, task, ran, starts, turns>>

\* venv or pip exits with an error: the deferred unlock runs, the command ends.
InstallFails(i) ==
    /\ pc[i] \in {"create", "pipPins", "pipEditable"}
    /\ lock' = Nothing /\ GoesTo(i, "idle")
    /\ UNCHANGED <<venv, installed, stamp, python, task, ran, starts, turns>>

-----------------------------------------------------------------------------
(* After the lock.                                                         *)

\* writeStoredHash; a failure to write is only warned about.
SaveStamp(i) ==
    \/ stamp' = Checkout[i] /\ UNCHANGED turns
    \/ StampMayFail /\ turns' = FALSE /\ UNCHANGED stamp

\* The stamp is written after the lock is released, whoever did the install.  A
\* first install verifies the import before, and goes on with EnsureRuntime; an
\* update goes on to the command.
WriteStamp(i) ==
    /\ pc[i] = "stamp"
    /\ \/ /\ task[i] = "install" /\ ~Importable("venv")
          /\ UNCHANGED <<stamp, turns>> /\ GoesTo(i, "idle")
       \/ /\ task[i] = "install" /\ Importable("venv")
          /\ SaveStamp(i) /\ GoesTo(i, "prefer")
       \/ /\ task[i] = "update"
          /\ SaveStamp(i) /\ GoesTo(i, "run")
    /\ UNCHANGED <<venv, installed, lock, python, task, ran, starts>>

\* python -P -m openant: the venv's Python imports what the venv points at.
Run(i) ==
    /\ pc[i] = "run"
    /\ ran' = [ran EXCEPT ![i] = IF python[i] = "venv" THEN installed ELSE Nothing]
    /\ GoesTo(i, "idle")
    /\ UNCHANGED <<venv, installed, stamp, lock, python, task, starts, turns>>

\* Ctrl-C reaches the command and the pip it runs; the kernel drops the lock,
\* and an editable install cut short may leave nothing importable.
Kill(i) ==
    /\ MayKill /\ pc[i] # "idle"
    /\ lock' = IF lock = i THEN Nothing ELSE lock
    /\ \/ UNCHANGED installed
       \/ pc[i] = "pipEditable" /\ installed' = Nothing
    /\ GoesTo(i, "idle") /\ turns' = FALSE
    /\ UNCHANGED <<venv, stamp, python, task, ran, starts>>

Step(i) ==
    \/ CheckInstalled(i) \/ PreferVenv(i) \/ CheckDeps(i) \/ Lock(i) \/ CreateVenv(i)
    \/ Recheck(i) \/ PipPins(i) \/ PipEditable(i) \/ InstallFails(i)
    \/ WriteStamp(i) \/ Run(i)

VenvNext == \E i \in Invocations : Detect(i) \/ Step(i) \/ Kill(i)

VenvSpec == VenvInit /\ [][VenvNext]_venvVars

\* Commands are scheduled, and pip and venv end.  flock is not first come,
\* first served: weak fairness is enough because starts are finitely many.
FairVenvSpec == VenvSpec /\ \A i \in Invocations : WF_venvVars(Step(i))

-----------------------------------------------------------------------------
(* Properties.                                                             *)

\* Every variable keeps its type.
TypeOK ==
    /\ venv \in BOOLEAN
    /\ installed \in Sources \cup {Nothing} /\ stamp \in Sources \cup {Nothing}
    /\ lock \in Invocations \cup {Nothing}
    /\ pc \in [Invocations -> Underneath \cup
                 {"idle", "import", "prefer", "deps", "lock", "stamp", "run"}]
    /\ python \in [Invocations -> {"venv", "path"}]
    /\ task \in [Invocations -> {"install", "update"}]
    /\ ran \in [Invocations -> Sources \cup {Nothing}]
    /\ starts \in Nat /\ turns \in BOOLEAN

\* withVenvInstallLock: "two concurrent invocations that both detect a missing
\* or stale install serialize instead of racing pip on the same venv".
PipExclusive ==
    \A i, j \in Invocations :
        pc[i] \in Underneath /\ pc[j] \in Underneath => i = j

\* What the stamp is for: while the commands of different checkouts take turns
\* on the venv, through failures of pip, each imports its own checkout's engine.
RunsOwnSource == turns => \A i \in Invocations : ran[i] = Checkout[i]

\* A command always gets through its setup, or fails: no lock is kept by a
\* command that has ended, whatever pip does.
CommandsEnd == \A i \in Invocations : pc[i] # "idle" ~> pc[i] = "idle"
=============================================================================
