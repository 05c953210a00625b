-------------------------- MODULE GoProgram_proofs --------------------------
(***************************************************************************)
(* What the Go program promises.  The two parts share no state.            *)
(*                                                                         *)
(* The install lock of the managed venv, for any number of invocations,    *)
(* checkouts and commands: the holder of the lock is the one invocation    *)
(* that runs venv or pip.                                                  *)
(*                                                                         *)
(* The job server, for any number of jobs, slots, lines, stops and kills:  *)
(* the stream of a job's log is complete, a job that was deleted does not  *)
(* come back, and what a viewer was told is what a restarted server says.  *)
(* The three rest on one invariant of each job: where its goroutine may be *)
(* for each status, and what of it is on disk.                             *)
(***************************************************************************)
EXTENDS VenvInstall, WebJobs, FiniteSetTheorems, SequenceTheorems, TLAPS

\* The lock is held by the invocation that is working under it, by it alone,
\* and by nobody else.
LockHeld ==
    /\ pc \in [Invocations -> Underneath \cup
                 {"idle", "import", "prefer", "deps", "lock", "stamp", "run"}]
    /\ \A i \in Invocations : lock = i <=> pc[i] \in Underneath

LEMMA LockInit == VenvInit => LockHeld
BY InvocationsAssumption DEF VenvInit, LockHeld, Underneath

\* A step that leaves the lock alone and keeps the invocation on its side of
\* the lock keeps LockHeld.
LEMMA SameSide ==
    ASSUME LockHeld, NEW i \in Invocations, UNCHANGED lock,
           NEW l \in Underneath \cup
                 {"idle", "import", "prefer", "deps", "lock", "stamp", "run"},
           GoesTo(i, l), l \in Underneath <=> pc[i] \in Underneath
    PROVE  LockHeld'
BY DEF LockHeld, GoesTo

\* A step that gives the lock up, taken by its holder.
LEMMA Released ==
    ASSUME LockHeld, NEW i \in Invocations, pc[i] \in Underneath,
           lock' = Nothing,
           NEW l \in {"idle", "stamp"}, GoesTo(i, l)
    PROVE  LockHeld'
<1>1. l \notin Underneath
  BY DEF Underneath
<1>2. \A j \in Invocations : j # i => pc[j] \notin Underneath
  BY DEF LockHeld
<1> QED
  BY <1>1, <1>2, InvocationsAssumption DEF LockHeld, GoesTo

LEMMA LockStep == LockHeld /\ [VenvNext]_venvVars => LockHeld'
<1> SUFFICES ASSUME LockHeld, [VenvNext]_venvVars PROVE LockHeld'
  OBVIOUS
<1>1. CASE UNCHANGED venvVars
  BY <1>1 DEF LockHeld, venvVars
<1>2. CASE \E i \in Invocations : Detect(i) \/ Step(i) \/ Kill(i)
  <2> PICK i \in Invocations : Detect(i) \/ Step(i) \/ Kill(i)
    BY <1>2
  <2>1. CASE Detect(i)
    BY <2>1, SameSide DEF Detect, Underneath
  <2>2. CASE CheckInstalled(i)
    BY <2>2, SameSide DEF CheckInstalled, Underneath
  <2>3. CASE PreferVenv(i)
    BY <2>3, SameSide DEF PreferVenv, Underneath
  <2>4. CASE CheckDeps(i)
    BY <2>4, SameSide DEF CheckDeps, Underneath
  <2>5. CASE Lock(i)
    <3>1. \A j \in Invocations : pc[j] \notin Underneath
      BY <2>5, InvocationsAssumption DEF Lock, LockHeld
    <3> DEFINE l == FirstStep(i)
    <3>2. l \in Underneath
      BY DEF FirstStep, Underneath
    <3>3. lock' = i /\ pc' = [pc EXCEPT ![i] = l]
      BY <2>5 DEF Lock, GoesTo
    <3> HIDE DEF l
    <3> QED
      BY <3>1, <3>2, <3>3 DEF LockHeld
  <2>6. CASE CreateVenv(i)
    BY <2>6, SameSide DEF CreateVenv, Underneath
  <2>7. CASE Recheck(i)
    <3>1. pc[i] \in Underneath
      BY <2>7 DEF Recheck, Underneath
    <3>2. CASE DoneMeanwhile(i)
      BY <2>7, <3>1, <3>2, Released DEF Recheck
    <3>3. CASE ~DoneMeanwhile(i)
      BY <2>7, <3>1, <3>3, SameSide DEF Recheck, Underneath
    <3> QED
      BY <3>2, <3>3
  <2>8. CASE PipPins(i)
    BY <2>8, SameSide DEF PipPins, Underneath
  <2>9. CASE PipEditable(i)
    BY <2>9, Released DEF PipEditable, Underneath
  <2>10. CASE InstallFails(i)
    BY <2>10, Released DEF InstallFails, Underneath
  <2>11. CASE WriteStamp(i)
    BY <2>11, SameSide DEF WriteStamp, Underneath
  <2>12. CASE Run(i)
    BY <2>12, SameSide DEF Run, Underneath
  <2>13. CASE Kill(i)
    <3>1. CASE pc[i] \in Underneath
      BY <2>13, <3>1, Released DEF Kill, LockHeld
    <3>2. CASE pc[i] \notin Underneath
      BY <2>13, <3>2, SameSide DEF Kill, LockHeld, Underneath
    <3> QED
      BY <3>1, <3>2
  <2> QED
    BY <2>1, <2>2, <2>3, <2>4, <2>5, <2>6, <2>7, <2>8, <2>9, <2>10, <2>11,
       <2>12, <2>13 DEF Step
<1> QED
  BY <1>1, <1>2 DEF VenvNext

\* withVenvInstallLock keeps venv and pip to one invocation at a time, however
\* commands are started, fail or are killed.
THEOREM InstallsExclude == VenvSpec => []PipExclusive
<1>1. LockHeld => PipExclusive
  BY DEF LockHeld, PipExclusive
<1> QED
  BY LockInit, LockStep, <1>1, PTL DEF VenvSpec

\* Every variable keeps its type.
LEMMA TypeInit == VenvInit => TypeOK
<1> SUFFICES ASSUME VenvInit PROVE TypeOK
  OBVIOUS
<1>1. /\ venv \in BOOLEAN /\ installed \in Sources \cup {Nothing}
      /\ stamp \in Sources \cup {Nothing} /\ lock \in Invocations \cup {Nothing}
      /\ starts \in Nat /\ turns \in BOOLEAN
  BY DEF VenvInit
<1>2. /\ pc \in [Invocations -> Underneath \cup
                   {"idle", "import", "prefer", "deps", "lock", "stamp", "run"}]
      /\ python \in [Invocations -> {"venv", "path"}]
      /\ task \in [Invocations -> {"install", "update"}]
  BY DEF VenvInit
<1>3. ran \in [Invocations -> Sources \cup {Nothing}]
  BY InvocationsAssumption DEF VenvInit
<1> QED
  BY <1>1, <1>2, <1>3 DEF TypeOK

LEMMA TypeStep == TypeOK /\ [VenvNext]_venvVars => TypeOK'
<1> SUFFICES ASSUME TypeOK, [VenvNext]_venvVars PROVE TypeOK'
  OBVIOUS
<1>1. CASE UNCHANGED venvVars
  BY <1>1 DEF TypeOK, venvVars
<1>2. ASSUME NEW i \in Invocations, Detect(i) \/ Step(i) \/ Kill(i)
      PROVE  TypeOK'
  <2> USE InvocationsAssumption DEF TypeOK, Underneath, GoesTo
  <2>1. CASE Detect(i)
    BY <2>1 DEF Detect
  <2>2. CASE CheckInstalled(i) \/ PreferVenv(i) \/ CheckDeps(i)
    BY <2>2 DEF CheckInstalled, PreferVenv, CheckDeps
  <2>3. CASE Lock(i) \/ CreateVenv(i) \/ Recheck(i)
    BY <2>3 DEF Lock, FirstStep, CreateVenv, Recheck
  <2>4. CASE PipPins(i) \/ PipEditable(i) \/ InstallFails(i)
    BY <2>4 DEF PipPins, PipEditable, InstallFails
  <2>5. CASE WriteStamp(i)
    <3>1. turns' \in BOOLEAN
      BY <2>5 DEF WriteStamp, SaveStamp
    <3>2. stamp' \in Sources \cup {Nothing}
      BY <2>5 DEF WriteStamp, SaveStamp
    <3> QED
      BY <2>5, <3>1, <3>2 DEF WriteStamp
  <2>6. CASE Run(i)
    BY <2>6 DEF Run
  <2>7. CASE Kill(i)
    <3>1. turns' \in BOOLEAN
      BY <2>7 DEF Kill
    <3>2. /\ installed' \in Sources \cup {Nothing}
          /\ lock' \in Invocations \cup {Nothing}
      BY <2>7 DEF Kill
    <3> QED
      BY <2>7, <3>1, <3>2 DEF Kill
  <2> QED
    BY <1>2, <2>1, <2>2, <2>3, <2>4, <2>5, <2>6, <2>7 DEF Step
<1> QED
  BY <1>1, <1>2 DEF VenvNext

THEOREM VenvTyped == VenvSpec => []TypeOK
BY TypeInit, TypeStep, PTL DEF VenvSpec

\* No lock outlives the command that took it: the safety half of CommandsEnd.
THEOREM NoOrphanLock ==
    VenvSpec => [](lock # Nothing => \E i \in Invocations :
                                    lock = i /\ pc[i] \in Underneath)
<1>1. TypeOK /\ LockHeld => (lock # Nothing => \E i \in Invocations :
                               lock = i /\ pc[i] \in Underneath)
  BY DEF LockHeld, TypeOK
<1> QED
  BY TypeInit, TypeStep, LockInit, LockStep, <1>1, PTL DEF VenvSpec

-----------------------------------------------------------------------------
(* Taking turns: while no two commands overlap, none is killed and none    *)
(* loses its stamp, the stamp says what is installed except between pip    *)
(* and writeStoredHash.                                                    *)

\* What a command may rely on where it stands.
Where(i) ==
    /\ pc[i] = "import" /\ python[i] = "path" => installed = Nothing
    /\ pc[i] = "prefer" => installed # Nothing
    /\ pc[i] \in {"deps", "run"} => python[i] = "venv"
    /\ pc[i] \in {"lock", "create", "recheck"} /\ task[i] = "install"
          => installed = Nothing
    /\ pc[i] \in {"lock", "recheck", "pipPins", "pipEditable", "stamp"}
       /\ task[i] = "update" => python[i] = "venv"
    /\ pc[i] \in {"recheck", "pipPins", "pipEditable"} => venv
    /\ python[i] = "venv" => venv
    /\ pc[i] = "create" => task[i] = "install"
    /\ pc[i] \in {"stamp", "run"} => installed = Checkout[i]

Alone == \A i, j \in Invocations : pc[i] # "idle" /\ pc[j] # "idle" => i = j

Truthful == (\A i \in Invocations : pc[i] # "stamp") => stamp = installed

InTurn ==
    /\ Alone /\ Truthful
    /\ installed # Nothing => venv
    /\ \A i \in Invocations : Where(i) /\ ran[i] = Checkout[i]

TurnsInv == TypeOK /\ (turns => InTurn)

LEMMA TurnsInit == VenvInit => TurnsInv
BY TypeInit DEF VenvInit, TurnsInv, InTurn, Alone, Truthful, Where

\* Commands that took turns up to here took turns before the last step.
LEMMA TurnsBefore == TypeOK /\ [VenvNext]_venvVars /\ turns' => turns
BY DEF TypeOK, VenvNext, venvVars, Detect, Step, CheckInstalled, PreferVenv, CheckDeps, Lock,
   CreateVenv, Recheck, PipPins, PipEditable, InstallFails, WriteStamp, SaveStamp,
   Run, Kill

LEMMA TurnsStep == TurnsInv /\ [VenvNext]_venvVars => TurnsInv'
<1>0. SUFFICES ASSUME TypeOK, TypeOK', InTurn, [VenvNext]_venvVars, turns, turns'
      PROVE  InTurn'
  BY TypeStep, TurnsBefore DEF TurnsInv
<1>1. CASE UNCHANGED venvVars
  BY <1>0, <1>1 DEF InTurn, venvVars, Alone, Truthful, Where
<1>2. ASSUME NEW i \in Invocations, Detect(i) \/ Step(i) \/ Kill(i)
      PROVE  InTurn'
  <2>1. /\ \A j \in Invocations \ {i} : pc[j] = "idle" /\ pc'[j] = "idle"
        /\ pc' = [pc EXCEPT ![i] = pc'[i]]
    <3>1. \A j \in Invocations \ {i} : pc[j] = "idle"
      <4>1. CASE Detect(i)
        BY <1>0, <4>1 DEF Detect, Busy
      <4>2. CASE Step(i) \/ Kill(i)
        <5>1. pc[i] # "idle"
          BY <4>2 DEF Step, CheckInstalled, PreferVenv, CheckDeps, Lock,
             CreateVenv, Recheck, PipPins, PipEditable, InstallFails,
             WriteStamp, Run, Kill
        <5> QED
          BY <1>0, <5>1 DEF InTurn, Alone
      <4> QED
        BY <1>2, <4>1, <4>2
    <3>2. \E l : GoesTo(i, l)
      BY <1>2 DEF Detect, Step, CheckInstalled, PreferVenv, CheckDeps, Lock,
         CreateVenv, Recheck, PipPins, PipEditable, InstallFails, WriteStamp,
         Run, Kill
    <3> QED
      BY <1>0, <3>1, <3>2 DEF GoesTo, TypeOK
  <2>2. Alone'
    BY <2>1 DEF Alone
  <2>a. venv => venv'
    BY <1>2 DEF Detect, Step, CheckInstalled, PreferVenv, CheckDeps, Lock,
       CreateVenv, Recheck, PipPins, PipEditable, InstallFails, WriteStamp,
       Run, Kill
  <2>b. \A j \in Invocations \ {i} : python'[j] = python[j]
    BY <1>0, <1>2 DEF TypeOK, Detect, Step, CheckInstalled, PreferVenv,
       CheckDeps, Lock, CreateVenv, Recheck, PipPins, PipEditable,
       InstallFails, WriteStamp, Run, Kill
  <2>3. \A j \in Invocations \ {i} : Where(j)'
    BY <1>0, <2>1, <2>a, <2>b DEF Where, InTurn
  <2>4. /\ installed' # Nothing => venv'
        /\ Truthful' /\ Where(i)'
        /\ \A j \in Invocations : ran'[j] = Checkout[j]
    <3> USE <1>0, <2>1, InvocationsAssumption
        DEF InTurn, TypeOK, Truthful, Where, GoesTo
    <3>1. CASE Detect(i)
      BY <3>1 DEF Detect
    <3>2. CASE CheckInstalled(i)
      BY <3>2 DEF CheckInstalled, Importable
    <3>3. CASE PreferVenv(i)
      BY <3>3 DEF PreferVenv, Importable
    <3>4. CASE CheckDeps(i)
      BY <3>4 DEF CheckDeps, Stale
    <3>5. CASE Lock(i)
      BY <3>5 DEF Lock, FirstStep
    <3>5a. CASE CreateVenv(i)
      BY <3>5a DEF CreateVenv
    <3>6. CASE Recheck(i)
      BY <3>6 DEF Recheck, DoneMeanwhile, Stale, Importable
    <3>7. CASE PipPins(i) \/ InstallFails(i)
      BY <3>7 DEF PipPins, InstallFails
    <3>8. CASE PipEditable(i)
      BY <3>8 DEF PipEditable
    <3>9. CASE WriteStamp(i)
      BY <3>9 DEF WriteStamp, SaveStamp, Importable
    <3>10. CASE Run(i)
      BY <3>10 DEF Run
    <3>11. ~Kill(i)
      BY DEF Kill
    <3> QED
      BY <1>2, <3>1, <3>2, <3>3, <3>4, <3>5, <3>6, <3>7, <3>8, <3>9, <3>10,
         <3>5a, <3>11 DEF Step
  <2> QED
    BY <2>2, <2>3, <2>4 DEF InTurn
<1> QED
  BY <1>0, <1>1, <1>2 DEF VenvNext

\* As long as commands take turns, and are not killed, each runs its own
\* checkout's engine, whatever fails in venv and pip: the digest's path does its
\* work.
THEOREM TurnsRunOwnSource == VenvSpec => []RunsOwnSource
<1>1. TurnsInv => RunsOwnSource
  BY DEF TurnsInv, InTurn, RunsOwnSource
<1> QED
  BY TurnsInit, TurnsStep, <1>1, PTL DEF VenvSpec

-----------------------------------------------------------------------------
\* Where a goroutine whose job is not decided is, and where it is afterwards.
Undecided == {"queued"} \cup Phases \cup Final
Past      == {"none", "persist", "cleanup", "logs", "gone"}

WebTypes ==
    /\ server \in {"up", "draining", "cancelled", "down", "crashed"}
    /\ runner \in [Jobs -> {"admitted", "stored"} \cup Undecided \cup Past]
    /\ status \in [Jobs -> {"none", "running"} \cup Final]
    /\ cancelled \subseteq Jobs /\ listed \subseteq Jobs
    /\ child \in [Jobs -> {"none", "alive", "ok", "fail", "deadline"}]
    /\ log \in [Jobs -> Seq(Nat)] /\ got \in [Jobs -> Seq(Nat)]
    /\ disk \in [Jobs -> [there : BOOLEAN, meta : {"", "none", "running"} \cup Final,
                          report : BOOLEAN, logs : Seq(Nat)]]
    /\ deleting \in [Jobs -> {"no", "waiting", "removing", "deleted"}]
    /\ view \in [Jobs -> {"off", "open", "told"}]
    /\ told \in [Jobs -> {"none", "running"} \cup Final]

\* Where a job's goroutine, process and deletion are.
Placed(j) ==
    /\ child[j] = "alive" => runner[j] \in Phases \/ j \in orphans
    /\ ~Up => /\ runner[j] = "none" /\ status[j] = "none" /\ j \notin listed
              /\ deleting[j] \in {"no", "deleted"}
    /\ runner[j] \in {"admitted", "stored"} =>
          status[j] = "none" /\ j \notin listed /\ deleting[j] = "no"
    /\ runner[j] \in Undecided => status[j] = "running"
    /\ runner[j] = "persist" => status[j] \in {"error", "timeout"}
    /\ j \in listed => status[j] # "none"
    /\ view[j] # "off" /\ Up => status[j] # "none"
    /\ deleting[j] # "no" => runner[j] = "none" \/ j \in cancelled
    /\ deleting[j] \in {"removing", "deleted"} /\ j \notin orphans =>
          child[j] # "alive" /\ j \notin listed
    /\ deleting[j] = "deleted" /\ j \notin orphans => ~disk[j].there

\* A log's i-th line is the same wherever it is kept.
Stable(s) == \A i \in 1..Len(s) : s[i] = IF i <= MaxLines THEN i ELSE Marker

Streamed(j) ==
    /\ Stable(log[j]) /\ Stable(got[j]) /\ Stable(disk[j].logs)
    /\ view[j] = "told" /\ j \in listed =>
          runner[j] \in Past /\ Len(log[j]) <= Len(got[j])

\* What the disk holds of a job with that status, in memory or in a viewer's.
OnDisk(j, s) ==
    /\ s = "done" => /\ disk[j].report /\ disk[j].meta # "timeout"
                     /\ runner[j] # "persist"
    /\ s = "timeout" => \/ disk[j].meta = "timeout"
                        \/ runner[j] = "persist" /\ status[j] = "timeout"
    /\ s # "none" => disk[j].there

Kept(j) ==
    /\ runner[j] \in {"admitted", "stored"} \cup Undecided => told[j] = "none"
    /\ runner[j] \in {"admitted", "stored", "persist"} \cup Undecided =>
          disk[j].meta # "timeout"
    /\ runner[j] = "stored" => disk[j].there
    /\ deleting[j] # "deleted" =>
          /\ runner[j] = "done" => disk[j].report
          /\ OnDisk(j, status[j]) /\ OnDisk(j, told[j])

JobsSound ==
    \A j \in Jobs : Placed(j) /\ Streamed(j) /\ (j \notin orphans => Kept(j))

WebInv == WebTypes /\ JobsSound

-----------------------------------------------------------------------------
(* Logs, and the part of one that a viewer lacks.                          *)

Typed(s) == s \in Seq(Nat) /\ Stable(s)

LEMMA AddLogStable ==
    ASSUME NEW l, Typed(l)
    PROVE  Typed(AddLog(l)) /\ Len(AddLog(l)) >= Len(l)
  <1>1. l \in Seq(Nat) /\ Len(l) \in Nat /\ MaxLines \in Nat /\ Marker \in Nat
    BY JobsAssumption DEF Typed, Marker
  <1>2. ASSUME NEW x \in Nat, x = IF Len(l) + 1 <= MaxLines THEN Len(l) + 1 ELSE Marker
        PROVE  Typed(Append(l, x)) /\ Len(Append(l, x)) >= Len(l)
    <2>1. /\ Append(l, x) \in Seq(Nat) /\ Len(Append(l, x)) = Len(l) + 1
          /\ \A i \in 1..Len(l) : Append(l, x)[i] = l[i]
          /\ Append(l, x)[Len(l) + 1] = x
      BY <1>1, AppendProperties
    <2>2. Stable(Append(l, x))
      BY <1>1, <1>2, <2>1 DEF Typed, Stable
    <2> QED BY <1>1, <2>1, <2>2 DEF Typed
  <1>3. CASE Len(l) < MaxLines BY <1>1, <1>2, <1>3 DEF AddLog
  <1>4. CASE Len(l) = MaxLines BY <1>1, <1>2, <1>4 DEF AddLog
  <1>5. CASE Len(l) > MaxLines BY <1>1, <1>5 DEF AddLog
  <1> QED BY <1>1, <1>3, <1>4, <1>5

LEMMA StretchStable ==
    ASSUME NEW g, NEW l, Typed(g), Typed(l), NEW n \in Nat, Len(g) + n <= Len(l)
    PROVE  LET s == SubSeq(l, Len(g) + 1, Len(g) + n)
           IN  Typed(g \o s) /\ Len(g \o s) = Len(g) + n /\ Len(s) = n
  <1> DEFINE s == SubSeq(l, Len(g) + 1, Len(g) + n)
  <1>1. g \in Seq(Nat) /\ l \in Seq(Nat) /\ Len(g) \in Nat /\ Len(l) \in Nat
    BY DEF Typed
  <1>2. /\ s \in Seq(Nat) /\ Len(s) = n
        /\ \A i \in 1..n : s[i] = l[Len(g) + i]
    <2>1. CASE n = 0
      <3>1. s = <<>> BY <1>1, <2>1, SubSeqProperties
      <3> QED BY <2>1, <3>1
    <2>2. CASE n # 0
      <3>1. /\ Len(g) + 1 \in 1..Len(l) /\ Len(g) + n \in 1..Len(l)
            /\ Len(g) + n - (Len(g) + 1) + 1 = n
        BY <1>1, <2>2
      <3>2. /\ s \in Seq(Nat) /\ Len(s) = n
            /\ \A i \in 1..n : s[i] = l[Len(g) + 1 + i - 1]
        BY <1>1, <2>2, <3>1, SubSeqProperties
      <3>3. \A i \in 1..n : Len(g) + 1 + i - 1 = Len(g) + i BY <1>1
      <3> QED BY <3>2, <3>3
    <2> QED BY <2>1, <2>2
  <1>3. /\ g \o s \in Seq(Nat) /\ Len(g \o s) = Len(g) + n
        /\ \A i \in 1..Len(g) + n : (g \o s)[i] = IF i <= Len(g) THEN g[i] ELSE s[i - Len(g)]
    <2> HIDE DEF s
    <2> QED BY <1>1, <1>2, ConcatProperties
  <1>4. Stable(g \o s)
    <2> SUFFICES ASSUME NEW i \in 1..Len(g) + n
                 PROVE  (g \o s)[i] = IF i <= MaxLines THEN i ELSE Marker
      BY <1>3 DEF Stable
    <2>1. CASE i <= Len(g) BY <1>1, <1>3, <2>1 DEF Typed, Stable
    <2>2. CASE i > Len(g)
      <3>1. i - Len(g) \in 1..n /\ Len(g) + (i - Len(g)) = i /\ i \in 1..Len(l)
        BY <1>1, <2>2
      <3>2. (g \o s)[i] = s[i - Len(g)] BY <1>1, <1>3, <2>2
      <3>3. s[i - Len(g)] = l[i] BY <1>2, <3>1
      <3> QED BY <3>1, <3>2, <3>3 DEF Typed, Stable
    <2> QED BY <1>1, <2>1, <2>2
  <1> QED BY <1>2, <1>3, <1>4 DEF Typed

LEMMA RecoveredStable ==
    ASSUME NEW l, Typed(l)
    PROVE  Typed(RecoveredLog(l))
  <1>1. l \in Seq(Nat) /\ Len(l) \in Nat /\ MaxLines \in Nat
    BY JobsAssumption DEF Typed
  <1>2. CASE Len(l) <= MaxLines BY <1>1, <1>2 DEF RecoveredLog
  <1>3. CASE Len(l) > MaxLines
    <2> DEFINE s == SubSeq(l, 1, MaxLines)
    <2>1. /\ s \in Seq(Nat) /\ Len(s) = MaxLines
          /\ \A i \in 1..MaxLines : s[i] = l[i]
      <3>1. CASE MaxLines = 0
        <4>1. s = <<>> BY <1>1, <3>1, SubSeqProperties
        <4> QED BY <3>1, <4>1
      <3>2. CASE MaxLines # 0
        <4>1. /\ 1 \in 1..Len(l) /\ MaxLines \in 1..Len(l)
              /\ MaxLines - 1 + 1 = MaxLines /\ \A i \in 1..MaxLines : 1 + i - 1 = i
          BY <1>1, <1>3, <3>2
        <4> QED BY <1>1, <4>1, SubSeqProperties
      <3> QED BY <3>1, <3>2
    <2>2. Typed(s) BY <1>1, <1>3, <2>1 DEF Typed, Stable
    <2>3. RecoveredLog(l) = AddLog(s)
      BY <1>1, <1>3, <2>1 DEF RecoveredLog, AddLog
    <2> QED BY <2>2, <2>3, AddLogStable
  <1> QED BY <1>1, <1>2, <1>3

-----------------------------------------------------------------------------
(* Every step keeps the types, and every log its lines.                    *)

JobStep(j) ==
    \/ Admit(j) \/ Handler(j) \/ Runner(j) \/ Panic(j) \/ ChildWrites(j) \/ ChildEnds(j)
    \/ Connect(j) \/ Tick(j) \/ Drop(j) \/ Delete(j) \/ Deleter(j)

LEMMA Unfolded ==
    ASSUME NEW j \in Jobs, WebInv
    PROVE  /\ Placed(j) /\ Streamed(j) /\ (j \notin orphans => Kept(j)) /\ WebTypes
           /\ Typed(log[j]) /\ Typed(got[j]) /\ Typed(disk[j].logs)
  BY DEF WebInv, JobsSound, Streamed, Typed, WebTypes

LEMMA LogStep ==
    ASSUME WebInv, Next
    PROVE  log' \in [Jobs -> Seq(Nat)] /\ \A j \in Jobs : Stable(log'[j])
  <1>0. /\ log \in [Jobs -> Seq(Nat)] /\ disk \in [Jobs -> [there : BOOLEAN,
              meta : {"", "none", "running"} \cup Final, report : BOOLEAN, logs : Seq(Nat)]]
        /\ \A j \in Jobs : Typed(log[j]) /\ Typed(disk[j].logs)
    BY Unfolded DEF WebInv, WebTypes
  <1>1. ASSUME UNCHANGED log
        PROVE  log' \in [Jobs -> Seq(Nat)] /\ \A j \in Jobs : Stable(log'[j])
    BY <1>0, <1>1 DEF Typed
  <1>2. ASSUME NEW j \in Jobs, Logged(j)
        PROVE  log' \in [Jobs -> Seq(Nat)] /\ \A k \in Jobs : Stable(log'[k])
    <2>1. Typed(AddLog(log[j])) BY <1>0, AddLogStable
    <2>2. log' = [log EXCEPT ![j] = AddLog(log[j])] BY <1>2 DEF Logged
    <2> QED BY <1>0, <2>1, <2>2 DEF Typed
  <1>3. ASSUME NEW end, ProcessGone(end)
        PROVE  log' \in [Jobs -> Seq(Nat)] /\ \A j \in Jobs : Stable(log'[j])
    BY <1>3 DEF ProcessGone, Stable
  <1>4. CASE Restart
    <2>1. log' = [j \in Jobs |-> RecoveredLog(disk[j].logs)] BY <1>4 DEF Restart
    <2>2. \A j \in Jobs : Typed(RecoveredLog(disk[j].logs)) BY <1>0, RecoveredStable
    <2> QED BY <2>1, <2>2 DEF Typed
  <1>5. ASSUME NEW j \in Jobs, JobStep(j) PROVE UNCHANGED log \/ Logged(j)
    BY <1>5
    DEF JobStep, Handler, Runner, Deleter, MayBeLogged, Admit, Store, List, TakeSlot,
        AbortQueued, Launch, ChildWrites, ChildEnds, Abandon, PhaseEnds, Panic, SetStatus,
        Persist, Cleanup, WriteLogs, Connect, Tick, Drop, Delete, Unlist, RemoveDir
  <1>6. CASE Drain \/ CancelAll BY <1>1, <1>6 DEF Drain, CancelAll
  <1>7. CASE Exit \/ Crash BY <1>3, <1>7 DEF Exit, Crash
  <1>8. CASE \E j \in Jobs : JobStep(j) BY <1>1, <1>2, <1>5, <1>8
  <1> QED BY <1>4, <1>6, <1>7, <1>8 DEF Next, JobStep

LEMMA UnsentStable ==
    ASSUME WebInv, NEW j \in Jobs
    PROVE  /\ Len(Unsent(j)) \in Nat /\ Len(got[j]) \in Nat /\ Len(log[j]) \in Nat
           /\ Typed(got[j] \o Unsent(j)) /\ Len(got[j] \o Unsent(j)) >= Len(log[j])
           /\ \A n \in 0..Len(Unsent(j)) : Typed(got[j] \o SubSeq(Unsent(j), 1, n))
  <1> DEFINE g == got[j]
             l == log[j]
  <1>0. /\ Typed(g) /\ Typed(l) /\ g \in Seq(Nat) /\ l \in Seq(Nat)
        /\ Len(g) \in Nat /\ Len(l) \in Nat
    BY Unfolded DEF Typed
  <1> HIDE DEF g, l
  <1>1. CASE Len(g) > Len(l)
    <2>1. Unsent(j) = <<>> BY <1>1 DEF Unsent, g, l
    <2>2. g \o <<>> = g /\ Len(<<>>) = 0 BY <1>0
    <2>3. \A n \in 0..0 : SubSeq(<<>>, 1, n) = <<>> OBVIOUS
    <2>4. /\ Len(Unsent(j)) \in Nat /\ Len(g) \in Nat /\ Len(l) \in Nat
          /\ Typed(g \o Unsent(j)) /\ Len(g \o Unsent(j)) >= Len(l)
      BY <1>0, <1>1, <2>1, <2>2
    <2>5. \A n \in 0..Len(Unsent(j)) : Typed(g \o SubSeq(Unsent(j), 1, n))
      BY <1>0, <2>1, <2>2, <2>3
    <2> QED BY <2>4, <2>5 DEF g, l
  <1>2. CASE Len(g) <= Len(l)
    <2> DEFINE d == Len(l) - Len(g)
    <2>1. d \in Nat /\ Len(g) + d = Len(l) BY <1>0, <1>2
    <2> HIDE DEF d
    <2>a. Unsent(j) = SubSeq(l, Len(g) + 1, Len(l))
      <3>1. ~(Len(g) > Len(l)) BY <1>0, <1>2
      <3> QED BY <3>1 DEF Unsent, g, l
    <2>2. Unsent(j) = SubSeq(l, Len(g) + 1, Len(g) + d) BY <2>1, <2>a
    <2>3. /\ Typed(g \o Unsent(j)) /\ Len(g \o Unsent(j)) = Len(l) /\ Len(Unsent(j)) = d
      BY <1>0, <2>1, <2>2, StretchStable
    <2>4. ASSUME NEW n \in 0..d PROVE Typed(g \o SubSeq(Unsent(j), 1, n))
      <3>1. n \in Nat /\ Len(g) + n <= Len(l) /\ Len(g) + n <= Len(g) + d
        BY <1>0, <2>1
      <3>2. SubSeq(Unsent(j), 1, n) = SubSeq(l, Len(g) + 1, Len(g) + n)
        BY <1>0, <2>1, <2>2, <3>1
      <3> QED BY <1>0, <3>1, <3>2, StretchStable
    <2> QED BY <1>0, <2>1, <2>3, <2>4 DEF g, l
  <1> QED BY <1>0, <1>1, <1>2

LEMMA GotStep ==
    ASSUME WebInv, Next
    PROVE  got' \in [Jobs -> Seq(Nat)] /\ \A j \in Jobs : Stable(got'[j])
  <1>0. got \in [Jobs -> Seq(Nat)] /\ \A j \in Jobs : Typed(got[j])
    BY Unfolded DEF WebInv, WebTypes
  <1>1. ASSUME UNCHANGED got
        PROVE  got' \in [Jobs -> Seq(Nat)] /\ \A j \in Jobs : Stable(got'[j])
    BY <1>0, <1>1 DEF Typed
  <1>2. ASSUME NEW j \in Jobs, NEW s, Typed(got[j] \o s), got' = [got EXCEPT ![j] = @ \o s]
        PROVE  got' \in [Jobs -> Seq(Nat)] /\ \A k \in Jobs : Stable(got'[k])
    <2>1. got' = [got EXCEPT ![j] = got[j] \o s] BY <1>0, <1>2
    <2> QED BY <1>0, <1>2, <2>1 DEF Typed
  <1>3. ASSUME NEW j \in Jobs, Tick(j)
        PROVE  got' \in [Jobs -> Seq(Nat)] /\ \A k \in Jobs : Stable(got'[k])
    BY <1>2, <1>3, UnsentStable DEF Tick
  <1>4. ASSUME NEW j \in Jobs, Drop(j)
        PROVE  got' \in [Jobs -> Seq(Nat)] /\ \A k \in Jobs : Stable(got'[k])
    <2>1. PICK n \in 0..Len(Unsent(j)) : got' = [got EXCEPT ![j] = @ \o SubSeq(Unsent(j), 1, n)]
      BY <1>4 DEF Drop
    <2> QED BY <1>2, <2>1, UnsentStable
  <1>5. ASSUME NEW j \in Jobs, JobStep(j) PROVE UNCHANGED got \/ Tick(j) \/ Drop(j)
    BY <1>5
    DEF JobStep, Handler, Runner, Deleter, viewVars, Admit, Store, List, TakeSlot,
        AbortQueued, Launch, ChildWrites, ChildEnds, Abandon, PhaseEnds, Panic, SetStatus,
        Persist, Cleanup, WriteLogs, Connect, Delete, Unlist, RemoveDir
  <1>6. CASE Drain \/ CancelAll \/ Exit \/ Crash \/ Restart
    BY <1>1, <1>6 DEF Drain, CancelAll, Exit, Crash, Restart, ProcessGone, viewVars
  <1>7. CASE \E j \in Jobs : JobStep(j) BY <1>1, <1>3, <1>4, <1>5, <1>7
  <1> QED BY <1>6, <1>7 DEF Next, JobStep

LEMMA DiskStep ==
    ASSUME WebInv, Next
    PROVE  /\ disk' \in [Jobs -> [there : BOOLEAN, meta : {"", "none", "running"} \cup Final,
                                  report : BOOLEAN, logs : Seq(Nat)]]
           /\ \A j \in Jobs : Stable(disk'[j].logs)
  <1> DEFINE Dirs == [there : BOOLEAN, meta : {"", "none", "running"} \cup Final,
                      report : BOOLEAN, logs : Seq(Nat)]
             Good(d) == d \in Dirs /\ Stable(d.logs)
  <1>0. /\ disk \in [Jobs -> Dirs] /\ \A j \in Jobs : Good(disk[j]) /\ Typed(log[j])
        /\ status \in [Jobs -> {"none", "running"} \cup Final]
    BY Unfolded DEF WebInv, WebTypes, Typed
  <1>e. Typed(<<>>) BY DEF Typed, Stable
  <1>1. Good(NoDir) /\ Good(NewDir)
    <2>1. NoDir \in Dirs /\ NoDir.logs = <<>> BY DEF NoDir
    <2>2. NewDir \in Dirs /\ NewDir.logs = <<>> BY <2>1 DEF NewDir
    <2> QED BY <1>e, <2>1, <2>2 DEF Typed
  <1>2. ASSUME NEW j \in Jobs, NEW d, Good(d), disk' = [disk EXCEPT ![j] = d]
        PROVE  disk' \in [Jobs -> Dirs] /\ \A k \in Jobs : Stable(disk'[k].logs)
    <2> HIDE DEF Dirs
    <2> QED BY <1>0, <1>2
  <1>3. ASSUME UNCHANGED disk
        PROVE  disk' \in [Jobs -> Dirs] /\ \A k \in Jobs : Stable(disk'[k].logs)
    BY <1>0, <1>3
  <1>4. ASSUME NEW j \in Jobs, JobStep(j), ~UNCHANGED disk
        PROVE  \E d : Good(d) /\ disk' = [disk EXCEPT ![j] = d]
    <2>0. Good(disk[j]) /\ disk[j] \in Dirs BY <1>0
    <2>1. CASE Store(j) \/ ChildWrites(j) BY <1>1, <1>4, <2>1 DEF Store, ChildWrites
    <2>2. CASE RemoveDir(j) BY <1>1, <2>2 DEF RemoveDir
    <2>3. CASE PhaseEnds(j)
      <3>1. PICK next \in NextPhase(runner[j], child[j]) :
               disk' = [disk EXCEPT ![j].report = disk[j].there /\ next[2]]
        BY <2>3 DEF PhaseEnds
      <3> DEFINE b == disk[j].there /\ next[2]
                 d == [disk[j] EXCEPT !.report = b]
      <3>2. b \in BOOLEAN OBVIOUS
      <3>3. disk' = [disk EXCEPT ![j] = d] BY <3>1
      <3> HIDE DEF b
      <3>4. Good(d) BY <2>0, <3>2 DEF Stable
      <3> QED BY <3>3, <3>4
    <2>4. CASE Persist(j)
      <3> DEFINE m == IF disk[j].there THEN status[j] ELSE ""
                 d == [disk[j] EXCEPT !.meta = m]
      <3>1. m \in {"", "none", "running"} \cup Final BY <1>0
      <3>2. disk' = [disk EXCEPT ![j] = d] BY <2>4 DEF Persist
      <3> HIDE DEF m
      <3>3. Good(d) BY <2>0, <3>1 DEF Stable
      <3> QED BY <3>2, <3>3
    <2>5. CASE WriteLogs(j)
      <3> DEFINE l == IF disk[j].there THEN log[j] ELSE <<>>
                 d == [disk[j] EXCEPT !.logs = l]
      <3>1. l \in Seq(Nat) /\ Stable(l) BY <1>0, <1>e DEF Typed
      <3>2. disk' = [disk EXCEPT ![j] = d] BY <2>5 DEF WriteLogs
      <3> HIDE DEF l
      <3>3. Good(d) BY <2>0, <3>1 DEF Stable
      <3> QED BY <3>2, <3>3
    <2> QED
      BY <1>4, <2>1, <2>2, <2>3, <2>4, <2>5
      DEF JobStep, Handler, Runner, Deleter, Admit, List, TakeSlot, AbortQueued, Launch,
          ChildEnds, Abandon, Panic, SetStatus, Cleanup, Connect, Tick, Drop, Delete, Unlist
  <1>5. CASE Drain \/ CancelAll \/ Exit \/ Crash \/ Restart
    BY <1>3, <1>5 DEF Drain, CancelAll, Exit, Crash, Restart, ProcessGone
  <1>6. CASE \E j \in Jobs : JobStep(j) BY <1>2, <1>3, <1>4, <1>6
  <1> QED BY <1>5, <1>6 DEF Next, JobStep

LEMMA PhaseLeads ==
    ASSUME NEW phase \in Phases, NEW out \in {"ok", "fail", "deadline"},
           NEW next \in NextPhase(phase, out)
    PROVE  /\ next[1] \in Phases \cup Final
           /\ next[1] = "done" => next[2] = TRUE
  <1>1. \/ next = <<"scan", FALSE>> \/ next = <<"error", FALSE>>
        \/ next = <<"report", FALSE>> \/ next = <<"summary", TRUE>> \/ next = <<"done", TRUE>>
        \/ next = <<"timeout", FALSE>> \/ next = <<"timeout", TRUE>>
    <2>1. CASE phase = "clone"
      <3>1. NextPhase(phase, out) =
               IF out = "ok" THEN {<<"scan", FALSE>>} ELSE {<<"error", FALSE>>}
        BY <2>1 DEF NextPhase
      <3> QED BY <3>1
    <2>2. CASE phase = "scan"
      <3>1. NextPhase(phase, out) =
               IF out = "ok" THEN {<<"report", FALSE>>, <<"summary", TRUE>>, <<"done", TRUE>>}
               ELSE IF out = "fail" THEN {<<"error", FALSE>>} ELSE {<<"timeout", FALSE>>}
        BY <2>2 DEF NextPhase
      <3> QED BY <3>1
    <2>3. CASE phase = "report"
      <3>1. NextPhase(phase, out) =
               IF out = "deadline" THEN {<<"timeout", FALSE>>, <<"timeout", TRUE>>}
               ELSE {<<"error", FALSE>>, <<"summary", TRUE>>, <<"done", TRUE>>}
        BY <2>3 DEF NextPhase
      <3> QED BY <3>1
    <2>4. CASE phase = "summary"
      <3>1. NextPhase(phase, out) =
               IF out = "deadline" THEN {<<"timeout", TRUE>>} ELSE {<<"done", TRUE>>}
        BY <2>4 DEF NextPhase
      <3> QED BY <3>1
    <2> QED BY <2>1, <2>2, <2>3, <2>4 DEF Phases
  <1>2. CASE next = <<"scan", FALSE>> BY <1>2 DEF Phases, Final
  <1>3. CASE next = <<"error", FALSE>> BY <1>3 DEF Phases, Final
  <1>4. CASE next = <<"report", FALSE>> BY <1>4 DEF Phases, Final
  <1>5. CASE next = <<"summary", TRUE>> BY <1>5 DEF Phases, Final
  <1>6. CASE next = <<"done", TRUE>> BY <1>6 DEF Phases, Final
  <1>7. CASE next = <<"timeout", FALSE>> BY <1>7 DEF Phases, Final
  <1>8. CASE next = <<"timeout", TRUE>> BY <1>8 DEF Phases, Final
  <1> QED BY <1>1, <1>2, <1>3, <1>4, <1>5, <1>6, <1>7, <1>8

LEMMA TypesStep ==
    ASSUME WebInv, Next
    PROVE  WebTypes'
  <1> DEFINE Rest == /\ server' \in {"up", "draining", "cancelled", "down", "crashed"}
                     /\ runner' \in [Jobs -> {"admitted", "stored"} \cup Undecided \cup Past]
                     /\ status' \in [Jobs -> {"none", "running"} \cup Final]
                     /\ cancelled' \subseteq Jobs /\ listed' \subseteq Jobs
                     /\ child' \in [Jobs -> {"none", "alive", "ok", "fail", "deadline"}]
                     /\ deleting' \in [Jobs -> {"no", "waiting", "removing", "deleted"}]
                     /\ view' \in [Jobs -> {"off", "open", "told"}]
                     /\ told' \in [Jobs -> {"none", "running"} \cup Final]
  <1>0. WebTypes BY DEF WebInv
  <1>1. ASSUME NEW j \in Jobs, JobStep(j) PROVE Rest
    <2>1. CASE Admit(j)
      BY <1>0, <2>1 DEF Admit, WebTypes, jobVars, viewVars, Goto, Undecided, Past, Phases, Final
    <2>2. CASE Store(j)
      BY <1>0, <2>2 DEF Store, WebTypes, jobVars, viewVars, Goto, Undecided, Past, Phases, Final
    <2>3. CASE List(j)
      BY <1>0, <2>3 DEF List, WebTypes, jobVars, viewVars, Goto, Undecided, Past, Phases, Final
    <2>4. CASE TakeSlot(j)
      <3>1. PICK first \in {"clone", "scan"} : Goto(j, first) BY <2>4 DEF TakeSlot
      <3> QED BY <1>0, <2>4, <3>1 DEF TakeSlot, WebTypes, viewVars, Goto, Undecided, Phases
    <2>5. CASE AbortQueued(j)
      BY <1>0, <2>5 DEF AbortQueued, WebTypes, jobVars, viewVars, Goto, Undecided, Past, Phases, Final
    <2>6. CASE Launch(j)
      BY <1>0, <2>6 DEF Launch, WebTypes, jobVars, viewVars, Goto, Undecided, Past, Phases, Final
    <2>7. CASE ChildWrites(j)
      BY <1>0, <2>7 DEF ChildWrites, WebTypes, jobVars, viewVars, Goto, Undecided, Past, Phases, Final
    <2>8. CASE ChildEnds(j)
      <3>1. PICK out \in {"none", "ok", "fail", "deadline"} : child' = [child EXCEPT ![j] = out]
        BY <2>8 DEF ChildEnds
      <3> QED BY <1>0, <2>8, <3>1 DEF ChildEnds, WebTypes, viewVars
    <2>9. CASE Abandon(j)
      BY <1>0, <2>9 DEF Abandon, WebTypes, jobVars, viewVars, Goto, Undecided, Past, Phases, Final
    <2>10. CASE PhaseEnds(j)
      <3>1. PICK next \in NextPhase(runner[j], child[j]) : Goto(j, next[1])
        BY <2>10 DEF PhaseEnds
      <3>2. next[1] \in Phases \cup Final BY <2>10, PhaseLeads DEF PhaseEnds
      <3> QED BY <1>0, <2>10, <3>1, <3>2 DEF PhaseEnds, WebTypes, viewVars, Goto, Undecided
    <2>11. CASE Panic(j)
      BY <1>0, <2>11 DEF Panic, WebTypes, jobVars, viewVars, Goto, Undecided, Past, Phases, Final
    <2>12. CASE SetStatus(j)
      BY <1>0, <2>12 DEF SetStatus, WebTypes, jobVars, viewVars, Goto, Undecided, Past, Phases, Final
    <2>13. CASE Persist(j)
      BY <1>0, <2>13 DEF Persist, WebTypes, jobVars, viewVars, Goto, Undecided, Past, Phases, Final
    <2>14. CASE Cleanup(j)
      BY <1>0, <2>14 DEF Cleanup, WebTypes, jobVars, viewVars, Goto, Undecided, Past, Phases, Final
    <2>15. CASE WriteLogs(j)
      BY <1>0, <2>15 DEF WriteLogs, WebTypes, jobVars, viewVars, Goto, Undecided, Past, Phases, Final
    <2>16. CASE Connect(j)
      BY <1>0, <2>16 DEF Connect, WebTypes, jobVars, viewVars, Goto, Undecided, Past, Phases, Final
    <2>17. CASE Tick(j)
      <3>1. UNCHANGED <<server, runner, status, cancelled, listed, child, deleting>>
        BY <2>17 DEF Tick, jobVars
      <3>2. UNCHANGED view \/ view' = [view EXCEPT ![j] = "told"] BY <2>17 DEF Tick
      <3>3. UNCHANGED told \/ told' = [told EXCEPT ![j] = status[j]] BY <2>17 DEF Tick
      <3>4. view' \in [Jobs -> {"off", "open", "told"}] BY <1>0, <3>2 DEF WebTypes
      <3>5. told' \in [Jobs -> {"none", "running"} \cup Final]
        <4>1. status[j] \in {"none", "running"} \cup Final BY <1>0 DEF WebTypes
        <4> QED BY <1>0, <3>3, <4>1 DEF WebTypes
      <3> QED BY <1>0, <3>1, <3>4, <3>5 DEF WebTypes
    <2>18. CASE Drop(j)
      BY <1>0, <2>18 DEF Drop, WebTypes, jobVars, viewVars, Goto, Undecided, Past, Phases, Final
    <2>19. CASE Delete(j)
      BY <1>0, <2>19 DEF Delete, WebTypes, jobVars, viewVars, Goto, Undecided, Past, Phases, Final
    <2>20. CASE Unlist(j)
      BY <1>0, <2>20 DEF Unlist, WebTypes, jobVars, viewVars, Goto, Undecided, Past, Phases, Final
    <2>21. CASE RemoveDir(j)
      BY <1>0, <2>21 DEF RemoveDir, WebTypes, jobVars, viewVars, Goto, Undecided, Past, Phases, Final
    <2> QED
      BY <1>1, <2>1, <2>2, <2>3, <2>4, <2>5, <2>6, <2>7, <2>8, <2>9, <2>10, <2>11,
         <2>12, <2>13, <2>14, <2>15, <2>16, <2>17, <2>18, <2>19, <2>20, <2>21
      DEF JobStep, Handler, Runner, Deleter
  <1>2. ASSUME Drain \/ CancelAll PROVE Rest
    BY <1>0, <1>2 DEF Drain, CancelAll, WebTypes, jobVars, viewVars
  <1>3. ASSUME Exit \/ Crash PROVE Rest
    <2>1. PICK end \in {"down", "crashed"} : ProcessGone(end)
      BY <1>3 DEF Exit, Crash
    <2>2. told' \in [Jobs -> {"none", "running"} \cup Final]
      BY <1>0, <2>1 DEF ProcessGone, WebTypes
    <2>3. view' \in [Jobs -> {"off", "open", "told"}]
      BY <1>0, <2>1 DEF ProcessGone, WebTypes
    <2>4. runner' \in [Jobs -> Past] BY <2>1 DEF ProcessGone, Past
    <2>5. child' \in [Jobs -> {"none", "alive", "ok", "fail", "deadline"}]
      BY <2>1 DEF ProcessGone
    <2>6. deleting' \in [Jobs -> {"no", "waiting", "removing", "deleted"}]
      BY <2>1 DEF ProcessGone
    <2> QED BY <1>0, <2>1, <2>2, <2>3, <2>4, <2>5, <2>6 DEF ProcessGone, WebTypes
  <1>4. ASSUME Restart PROVE Rest
    <2>1. \A j \in Jobs : Recovered(disk[j]) \in Final BY DEF Recovered, Final
    <2>2. status' \in [Jobs -> {"none", "running"} \cup Final]
      BY <1>4, <2>1 DEF Restart
    <2>3. /\ server' = "up" /\ listed' \subseteq Jobs /\ view' = [j \in Jobs |-> "off"]
          /\ UNCHANGED <<runner, cancelled, child, deleting, told>>
      BY <1>4 DEF Restart
    <2> QED BY <1>0, <2>2, <2>3 DEF WebTypes
  <1>5. ASSUME \E j \in Jobs : JobStep(j) PROVE Rest
    <2> HIDE DEF Rest
    <2> QED BY <1>1, <1>5
  <1> HIDE DEF Rest
  <1>6. Rest BY <1>2, <1>3, <1>4, <1>5 DEF Next, JobStep
  <1> QED BY <1>6, LogStep, GotStep, DiskStep DEF WebTypes, Rest

-----------------------------------------------------------------------------
(* Where a job is: one step of some job, seen by any job.                  *)

LEMMA PlacedStep ==
    ASSUME WebInv, NEW j \in Jobs, JobStep(j), NEW k \in Jobs
    PROVE  Placed(k)'
  <1>0. /\ WebTypes /\ Placed(j) /\ Placed(k)
        /\ j \notin orphans => Kept(j)
    BY Unfolded
  <1>1. CASE Admit(j)
    BY <1>0, <1>1
    DEF Admit, Placed, WebTypes, Goto, Up, Serving, jobVars, viewVars, Undecided, Past, Phases, Final,
        Kept, OnDisk, NoDir, NewDir
  <1>2. CASE Store(j)
    BY <1>0, <1>2
    DEF Store, Placed, WebTypes, Goto, Up, Serving, jobVars, viewVars, Undecided, Past, Phases, Final,
        Kept, OnDisk, NoDir, NewDir
  <1>3. CASE List(j)
    BY <1>0, <1>3
    DEF List, Placed, WebTypes, Goto, Up, Serving, jobVars, viewVars, Undecided, Past, Phases, Final,
        Kept, OnDisk, NoDir, NewDir
  <1>4. CASE TakeSlot(j)
    <2>1. PICK first \in {"clone", "scan"} : Goto(j, first) BY <1>4 DEF TakeSlot
    <2>2. /\ runner[j] = "queued"
          /\ UNCHANGED <<server, status, cancelled, listed, child, disk, deleting, view, orphans>>
      BY <1>4 DEF TakeSlot, viewVars
    <2>3. first \in Phases /\ first \in Undecided /\ runner[j] \in Undecided
          /\ first \notin {"none", "admitted", "stored", "persist"} /\ runner[j] \notin Phases
      BY <2>1, <2>2 DEF Undecided, Phases
    <2>4. runner'[k] = IF k = j THEN first ELSE runner[k]
      BY <1>0, <2>1 DEF Goto, WebTypes
    <2> QED BY <1>0, <2>2, <2>3, <2>4 DEF Placed, Up
  <1>5. CASE AbortQueued(j)
    BY <1>0, <1>5
    DEF AbortQueued, Placed, WebTypes, Goto, Up, Serving, jobVars, viewVars, Undecided, Past, Phases, Final,
        Kept, OnDisk, NoDir, NewDir
  <1>6. CASE Launch(j)
    BY <1>0, <1>6
    DEF Launch, Placed, WebTypes, Goto, Up, Serving, jobVars, viewVars, Undecided, Past, Phases, Final,
        Kept, OnDisk, NoDir, NewDir
  <1>7. CASE ChildWrites(j)
    BY <1>0, <1>7
    DEF ChildWrites, Placed, WebTypes, Goto, Up, Serving, jobVars, viewVars, Undecided, Past, Phases, Final,
        Kept, OnDisk, NoDir, NewDir
  <1>8. CASE ChildEnds(j)
    BY <1>0, <1>8
    DEF ChildEnds, Placed, WebTypes, Goto, Up, Serving, jobVars, viewVars, Undecided, Past, Phases, Final,
        Kept, OnDisk, NoDir, NewDir
  <1>9. CASE Abandon(j)
    BY <1>0, <1>9
    DEF Abandon, Placed, WebTypes, Goto, Up, Serving, jobVars, viewVars, Undecided, Past, Phases, Final,
        Kept, OnDisk, NoDir, NewDir
  <1>10. CASE PhaseEnds(j)
    <2>1. PICK next \in NextPhase(runner[j], child[j]) :
             /\ Goto(j, next[1])
             /\ disk' = [disk EXCEPT ![j].report = disk[j].there /\ next[2]]
      BY <1>10 DEF PhaseEnds
    <2>2. next[1] \in Phases \cup Final BY <1>10, <2>1, PhaseLeads DEF PhaseEnds
    <2>3. disk'[k].there = disk[k].there BY <1>0, <2>1 DEF WebTypes
    <2> QED
      BY <1>0, <1>10, <2>1, <2>2, <2>3
      DEF PhaseEnds, Placed, WebTypes, Goto, Up, viewVars, Undecided, Phases, Final
  <1>11. CASE Panic(j)
    BY <1>0, <1>11
    DEF Panic, Placed, WebTypes, Goto, Up, Serving, jobVars, viewVars, Undecided, Past, Phases, Final,
        Kept, OnDisk, NoDir, NewDir
  <1>12. CASE SetStatus(j)
    BY <1>0, <1>12
    DEF SetStatus, Placed, WebTypes, Goto, Up, Serving, jobVars, viewVars, Undecided, Past, Phases, Final,
        Kept, OnDisk, NoDir, NewDir
  <1>13. CASE Persist(j)
    <2>1. disk'[k].there = disk[k].there
      <3>1. CASE k = j BY <1>0, <1>13, <3>1 DEF Persist, WebTypes
      <3>2. CASE k # j BY <1>0, <1>13, <3>2 DEF Persist, WebTypes
      <3> QED BY <3>1, <3>2
    <2> QED
      BY <1>0, <1>13, <2>1
      DEF Persist, Placed, WebTypes, Goto, Up, viewVars, Undecided, Phases, Final
  <1>14. CASE Cleanup(j)
    BY <1>0, <1>14
    DEF Cleanup, Placed, WebTypes, Goto, Up, Serving, jobVars, viewVars, Undecided, Past, Phases, Final,
        Kept, OnDisk, NoDir, NewDir
  <1>15. CASE WriteLogs(j)
    <2>1. disk'[k].there = disk[k].there
      <3>1. CASE k = j BY <1>0, <1>15, <3>1 DEF WriteLogs, WebTypes
      <3>2. CASE k # j BY <1>0, <1>15, <3>2 DEF WriteLogs, WebTypes
      <3> QED BY <3>1, <3>2
    <2> QED
      BY <1>0, <1>15, <2>1
      DEF WriteLogs, Placed, WebTypes, Goto, Up, viewVars, Undecided, Phases, Final
  <1>16. CASE Connect(j)
    BY <1>0, <1>16
    DEF Connect, Placed, WebTypes, Goto, Up, Serving, jobVars, viewVars, Undecided, Past, Phases, Final,
        Kept, OnDisk, NoDir, NewDir
  <1>17. CASE Tick(j)
    <2>1. /\ view[j] = "open" /\ Up
          /\ UNCHANGED <<server, runner, status, cancelled, listed, child, disk, deleting, orphans>>
          /\ UNCHANGED view \/ view' = [view EXCEPT ![j] = "told"]
      BY <1>17 DEF Tick, jobVars
    <2>2. view'[k] # "off" => view[k] # "off" BY <1>0, <2>1 DEF WebTypes
    <2> QED BY <1>0, <2>1, <2>2 DEF Placed, Up
  <1>18. CASE Drop(j)
    BY <1>0, <1>18
    DEF Drop, Placed, WebTypes, Goto, Up, Serving, jobVars, viewVars, Undecided, Past, Phases, Final,
        Kept, OnDisk, NoDir, NewDir
  <1>19. CASE Delete(j)
    BY <1>0, <1>19
    DEF Delete, Placed, WebTypes, Goto, Up, Serving, jobVars, viewVars, Undecided, Past, Phases, Final,
        Kept, OnDisk, NoDir, NewDir
  <1>20. CASE Unlist(j)
    BY <1>0, <1>20
    DEF Unlist, Placed, WebTypes, Goto, Up, Serving, jobVars, viewVars, Undecided, Past, Phases, Final,
        Kept, OnDisk, NoDir, NewDir
  <1>21. CASE RemoveDir(j)
    BY <1>0, <1>21
    DEF RemoveDir, Placed, WebTypes, Goto, Up, Serving, jobVars, viewVars, Undecided, Past, Phases, Final,
        Kept, OnDisk, NoDir, NewDir
  <1> QED
    BY <1>1, <1>2, <1>3, <1>4, <1>5, <1>6, <1>7, <1>8, <1>9, <1>10, <1>11,
       <1>12, <1>13, <1>14, <1>15, <1>16, <1>17, <1>18, <1>19, <1>20, <1>21
    DEF JobStep, Handler, Runner, Deleter

-----------------------------------------------------------------------------
(* What a viewer who was told lacks: nothing.                              *)

Told(j) == view[j] = "told" /\ j \in listed =>
              runner[j] \in Past /\ Len(log[j]) <= Len(got[j])

LEMMA ToldStep ==
    ASSUME WebInv, NEW j \in Jobs, JobStep(j), NEW k \in Jobs
    PROVE  Told(k)'
  <1>0. WebTypes /\ Placed(j) /\ Placed(k) /\ Told(j) /\ Told(k)
    BY Unfolded DEF Streamed, Told
  <1>p. Past \cap ({"admitted", "stored"} \cup Undecided) = {}
    BY DEF Past, Undecided, Phases, Final
  <1>1. CASE Admit(j)
    BY <1>0, <1>p, <1>1
    DEF Admit, Told, Placed, WebTypes, Goto, Up, Serving, jobVars, viewVars, Undecided, Past, Phases, Final
  <1>2. CASE Store(j)
    BY <1>0, <1>p, <1>2
    DEF Store, Told, Placed, WebTypes, Goto, Up, Serving, jobVars, viewVars, Undecided, Past, Phases, Final
  <1>3. CASE List(j)
    BY <1>0, <1>p, <1>3
    DEF List, Told, Placed, WebTypes, Goto, Up, Serving, jobVars, viewVars, Undecided, Past, Phases, Final
  <1>4. CASE TakeSlot(j)
    BY <1>0, <1>p, <1>4
    DEF TakeSlot, Logged, MayBeLogged, Told, Placed, WebTypes, Goto, Up, Serving, jobVars, viewVars, Undecided, Past, Phases, Final
  <1>5. CASE AbortQueued(j)
    BY <1>0, <1>p, <1>5
    DEF AbortQueued, Told, Placed, WebTypes, Goto, Up, Serving, jobVars, viewVars, Undecided, Past, Phases, Final
  <1>6. CASE Launch(j)
    BY <1>0, <1>p, <1>6
    DEF Launch, Logged, MayBeLogged, Told, Placed, WebTypes, Goto, Up, Serving, jobVars, viewVars, Undecided, Past, Phases, Final
  <1>7. CASE ChildWrites(j)
    BY <1>0, <1>p, <1>7
    DEF ChildWrites, Logged, MayBeLogged, Told, Placed, WebTypes, Goto, Up, Serving, jobVars, viewVars, Undecided, Past, Phases, Final
  <1>8. CASE ChildEnds(j)
    BY <1>0, <1>p, <1>8
    DEF ChildEnds, Told, Placed, WebTypes, Goto, Up, Serving, jobVars, viewVars, Undecided, Past, Phases, Final
  <1>9. CASE Abandon(j)
    BY <1>0, <1>p, <1>9
    DEF Abandon, Told, Placed, WebTypes, Goto, Up, Serving, jobVars, viewVars, Undecided, Past, Phases, Final
  <1>10. CASE PhaseEnds(j)
    <2>1. runner[j] \in Phases /\ UNCHANGED <<view, listed, got>> BY <1>10 DEF PhaseEnds, viewVars
    <2>2. k # j => log'[k] = log[k] /\ runner'[k] = runner[k]
      <3>1. PICK next \in NextPhase(runner[j], child[j]) : Goto(j, next[1])
        BY <1>10 DEF PhaseEnds
      <3>2. Logged(j) \/ UNCHANGED log BY <1>10 DEF PhaseEnds, MayBeLogged
      <3>3. k # j => runner'[k] = runner[k] BY <1>0, <3>1 DEF Goto, WebTypes
      <3>4. k # j => log'[k] = log[k] BY <1>0, <3>2 DEF Logged, WebTypes
      <3> QED BY <3>3, <3>4
    <2>3. runner[j] \notin Past BY <2>1 DEF Past, Phases
    <2> QED BY <1>0, <2>1, <2>2, <2>3 DEF Told
  <1>11. CASE Panic(j)
    BY <1>0, <1>p, <1>11
    DEF Panic, Logged, MayBeLogged, Told, Placed, WebTypes, Goto, Up, Serving, jobVars, viewVars, Undecided, Past, Phases, Final
  <1>12. CASE SetStatus(j)
    BY <1>0, <1>p, <1>12
    DEF SetStatus, Told, Placed, WebTypes, Goto, Up, Serving, jobVars, viewVars, Undecided, Past, Phases, Final
  <1>13. CASE Persist(j)
    BY <1>0, <1>p, <1>13
    DEF Persist, Told, Placed, WebTypes, Goto, Up, Serving, jobVars, viewVars, Undecided, Past, Phases, Final
  <1>14. CASE Cleanup(j)
    BY <1>0, <1>p, <1>14
    DEF Cleanup, Told, Placed, WebTypes, Goto, Up, Serving, jobVars, viewVars, Undecided, Past, Phases, Final
  <1>15. CASE WriteLogs(j)
    BY <1>0, <1>p, <1>15
    DEF WriteLogs, Told, Placed, WebTypes, Goto, Up, Serving, jobVars, viewVars, Undecided, Past, Phases, Final
  <1>16. CASE Connect(j)
    BY <1>0, <1>p, <1>16
    DEF Connect, Told, Placed, WebTypes, Goto, Up, Serving, jobVars, viewVars, Undecided, Past, Phases, Final
  <1>17. CASE Tick(j)
    <2>1. got' = [got EXCEPT ![j] = got[j] \o Unsent(j)] /\ UNCHANGED <<log, listed, runner>>
      BY <1>17 DEF Tick, jobVars
    <2>2. CASE k = j
      <3>1. Len(got'[j]) >= Len(log[j]) BY <1>0, <2>1, UnsentStable DEF WebTypes
      <3>2. Len(got'[j]) \in Nat /\ Len(log[j]) \in Nat
        <4>1. got'[j] = got[j] \o Unsent(j) BY <1>0, <2>1 DEF WebTypes
        <4>2. got[j] \o Unsent(j) \in Seq(Nat) BY UnsentStable DEF Typed
        <4> QED BY <4>1, <4>2, UnsentStable
      <3>3. view'[j] = "told" => status[j] # "running" /\ status[j] # "none"
        BY <1>0, <1>17 DEF Tick, WebTypes, Placed
      <3>4. view'[j] = "told" => runner[j] \in Past
        BY <1>0, <3>3 DEF WebTypes, Placed
      <3> QED BY <2>1, <2>2, <3>1, <3>2, <3>4 DEF Told
    <2>3. CASE k # j BY <1>0, <1>17, <2>1, <2>3 DEF Tick, Told, WebTypes
    <2> QED BY <2>2, <2>3
  <1>18. CASE Drop(j)
    <2>1. CASE k = j BY <1>0, <1>18, <2>1 DEF Drop, Told, WebTypes
    <2>2. CASE k # j
      <3>1. got'[k] = got[k] BY <1>0, <1>18, <2>2 DEF Drop, WebTypes
      <3> QED BY <1>0, <1>18, <2>2, <3>1 DEF Drop, Told, WebTypes, jobVars
    <2> QED BY <2>1, <2>2
  <1>19. CASE Delete(j)
    BY <1>0, <1>p, <1>19
    DEF Delete, Told, Placed, WebTypes, Goto, Up, Serving, jobVars, viewVars, Undecided, Past, Phases, Final
  <1>20. CASE Unlist(j)
    BY <1>0, <1>p, <1>20
    DEF Unlist, Told, Placed, WebTypes, Goto, Up, Serving, jobVars, viewVars, Undecided, Past, Phases, Final
  <1>21. CASE RemoveDir(j)
    BY <1>0, <1>p, <1>21
    DEF RemoveDir, Told, Placed, WebTypes, Goto, Up, Serving, jobVars, viewVars, Undecided, Past, Phases, Final
  <1> QED
    BY <1>1, <1>2, <1>3, <1>4, <1>5, <1>6, <1>7, <1>8, <1>9, <1>10, <1>11,
       <1>12, <1>13, <1>14, <1>15, <1>16, <1>17, <1>18, <1>19, <1>20, <1>21
    DEF JobStep, Handler, Runner, Deleter

-----------------------------------------------------------------------------
(* What of a job is on disk.                                               *)

LEMMA KeptFrame ==
    ASSUME NEW k \in Jobs, Kept(k), runner'[k] = runner[k], status'[k] = status[k],
           told'[k] = told[k], deleting'[k] = deleting[k],
           disk'[k].there = disk[k].there, disk'[k].meta = disk[k].meta,
           disk'[k].report = disk[k].report
    PROVE  Kept(k)'
  BY DEF Kept, OnDisk

LEMMA KeptStep ==
    ASSUME WebInv, NEW j \in Jobs, JobStep(j), NEW k \in Jobs, k \notin orphans
    PROVE  Kept(k)'
  <1>0. /\ WebTypes /\ Placed(j) /\ Placed(k) /\ Kept(k) /\ (j = k => Kept(j))
        /\ disk[k].there \in BOOLEAN /\ disk[k].report \in BOOLEAN
    BY Unfolded DEF WebTypes
  <1>1. CASE Admit(j)
    <2>1. CASE k = j
      <3>1. ~disk[j].there /\ disk[j].meta = "" /\ deleting[j] = "no" /\ status[j] = "none"
        <4>1. disk[j] = NoDir /\ deleting[j] = "no" /\ status[j] = "none" BY <1>1 DEF Admit
        <4>2. ~NoDir.there /\ NoDir.meta = "" BY DEF NoDir
        <4> QED BY <4>1, <4>2
      <3>2. told[j] = "none" BY <1>0, <2>1, <3>1 DEF Kept, OnDisk
      <3> QED
        BY <1>0, <1>1, <2>1, <3>1, <3>2
        DEF Admit, Kept, OnDisk, WebTypes, Goto, viewVars, Undecided, Phases, Final
    <2>2. CASE k # j
      BY <1>0, <1>1, <2>2 DEF Admit, Kept, OnDisk, WebTypes, Goto, viewVars
    <2> QED BY <2>1, <2>2
  <1>2. CASE Store(j)
    BY <1>0, <1>2
    DEF Store, Kept, OnDisk, Placed, WebTypes, Goto, Up, Serving, jobVars, viewVars, Undecided, Past, Phases, Final,
        NoDir, NewDir
  <1>3. CASE List(j)
    BY <1>0, <1>3
    DEF List, Kept, OnDisk, Placed, WebTypes, Goto, Up, Serving, jobVars, viewVars, Undecided, Past, Phases, Final,
        NoDir, NewDir
  <1>4. CASE TakeSlot(j)
    <2>1. PICK first \in {"clone", "scan"} : Goto(j, first) BY <1>4 DEF TakeSlot
    <2>2. runner[j] = "queued" /\ UNCHANGED <<status, told, deleting, disk>>
      BY <1>4 DEF TakeSlot, viewVars
    <2>3. runner[j] \in Undecided /\ first \in Undecided /\ first # "persist" /\ first # "done"
          /\ first # "stored"
      BY <2>1, <2>2 DEF Undecided, Phases
    <2>4. CASE k = j
      <3>1. runner'[j] = first BY <1>0, <2>1 DEF Goto, WebTypes
      <3> QED BY <1>0, <2>2, <2>3, <2>4, <3>1 DEF Kept, OnDisk
    <2>5. CASE k # j
      <3>1. runner'[k] = runner[k] BY <1>0, <2>1, <2>5 DEF Goto, WebTypes
      <3> QED BY <1>0, <2>2, <3>1, KeptFrame
    <2> QED BY <2>4, <2>5
  <1>5. CASE AbortQueued(j)
    BY <1>0, <1>5
    DEF AbortQueued, Kept, OnDisk, Placed, WebTypes, Goto, Up, Serving, jobVars, viewVars, Undecided, Past, Phases, Final,
        NoDir, NewDir
  <1>6. CASE Launch(j)
    BY <1>0, <1>6
    DEF Launch, Kept, OnDisk, Placed, WebTypes, Goto, Up, Serving, jobVars, viewVars, Undecided, Past, Phases, Final,
        NoDir, NewDir
  <1>7. CASE ChildWrites(j)
    BY <1>0, <1>7
    DEF ChildWrites, Kept, OnDisk, Placed, WebTypes, Goto, Up, Serving, jobVars, viewVars, Undecided, Past, Phases, Final,
        NoDir, NewDir
  <1>8. CASE ChildEnds(j)
    BY <1>0, <1>8
    DEF ChildEnds, Kept, OnDisk, Placed, WebTypes, Goto, Up, Serving, jobVars, viewVars, Undecided, Past, Phases, Final,
        NoDir, NewDir
  <1>9. CASE Abandon(j)
    BY <1>0, <1>9
    DEF Abandon, Kept, OnDisk, Placed, WebTypes, Goto, Up, Serving, jobVars, viewVars, Undecided, Past, Phases, Final,
        NoDir, NewDir
  <1>10. CASE PhaseEnds(j)
    <2>1. PICK next \in NextPhase(runner[j], child[j]) :
             /\ Goto(j, next[1])
             /\ disk' = [disk EXCEPT ![j].report = disk[j].there /\ next[2]]
      BY <1>10 DEF PhaseEnds
    <2>2. next[1] \in Phases \cup Final /\ (next[1] = "done" => next[2] = TRUE)
      BY <1>10, <2>1, PhaseLeads DEF PhaseEnds
    <2>3. runner[j] \in Phases /\ UNCHANGED <<status, told, deleting>>
      BY <1>10 DEF PhaseEnds, viewVars
    <2>4. CASE k = j
      <3>1. disk[j] \in [there : BOOLEAN, meta : {"", "none", "running"} \cup Final,
                         report : BOOLEAN, logs : Seq(Nat)]
        BY <1>0 DEF WebTypes
      <3>2. disk'[j] = [disk[j] EXCEPT !.report = disk[j].there /\ next[2]]
        BY <1>0, <2>1 DEF WebTypes
      <3>3. disk'[j].there = disk[j].there /\ disk'[j].meta = disk[j].meta
        BY <3>1, <3>2
      <3>4. disk[j].there /\ next[1] = "done" => disk'[j].report
        BY <2>2, <3>1, <3>2
      <3>5. runner'[j] = next[1] BY <1>0, <2>1 DEF Goto, WebTypes
      <3>6. runner[j] \in Undecided /\ status[j] = "running" /\ told[j] = "none"
        BY <1>0, <2>3, <2>4 DEF Undecided, Kept, Placed
      <3>7. runner'[j] \notin {"stored", "persist"} BY <2>2, <3>5 DEF Phases, Final
      <3>8. disk[j].meta # "timeout" BY <1>0, <2>4, <3>6 DEF Kept
      <3>9. deleting[j] # "deleted" => disk[j].there
        BY <1>0, <2>4, <3>6 DEF Kept, OnDisk
      <3> QED
        BY <2>3, <2>4, <3>3, <3>4, <3>5, <3>6, <3>7, <3>8, <3>9 DEF Kept, OnDisk
    <2>5. CASE k # j
      <3>1. runner'[k] = runner[k] /\ disk'[k] = disk[k]
        BY <1>0, <2>1, <2>5 DEF Goto, WebTypes
      <3> QED BY <1>0, <2>3, <3>1, KeptFrame
    <2> QED BY <2>4, <2>5
  <1>11. CASE Panic(j)
    BY <1>0, <1>11
    DEF Panic, Kept, OnDisk, Placed, WebTypes, Goto, Up, Serving, jobVars, viewVars, Undecided, Past, Phases, Final,
        NoDir, NewDir
  <1>12. CASE SetStatus(j)
    BY <1>0, <1>12
    DEF SetStatus, Kept, OnDisk, Placed, WebTypes, Goto, Up, Serving, jobVars, viewVars, Undecided, Past, Phases, Final,
        NoDir, NewDir
  <1>13. CASE Persist(j)
    <2>1. /\ runner[j] = "persist" /\ runner' = [runner EXCEPT ![j] = "cleanup"]
          /\ disk' = [disk EXCEPT ![j].meta = IF disk[j].there THEN status[j] ELSE ""]
          /\ UNCHANGED <<status, told, deleting>>
      BY <1>13 DEF Persist, Goto, viewVars
    <2>2. CASE k = j
      <3>1. disk[j] \in [there : BOOLEAN, meta : {"", "none", "running"} \cup Final,
                         report : BOOLEAN, logs : Seq(Nat)]
        BY <1>0 DEF WebTypes
      <3>2. disk'[j] = [disk[j] EXCEPT !.meta = IF disk[j].there THEN status[j] ELSE ""]
        BY <1>0, <2>1 DEF WebTypes
      <3>3. /\ disk'[j].there = disk[j].there /\ disk'[j].report = disk[j].report
            /\ disk'[j].meta = IF disk[j].there THEN status[j] ELSE ""
        BY <3>1, <3>2
      <3>4. runner'[j] = "cleanup" BY <1>0, <2>1 DEF WebTypes
      <3>5. status[j] \in {"error", "timeout"} BY <1>0, <2>1 DEF Placed
      <3>6. /\ "cleanup" \notin {"admitted", "stored", "persist"}
            /\ "cleanup" \notin Undecided /\ status[j] # "none"
        BY <3>5 DEF Undecided, Phases, Final
      <3> QED BY <1>0, <2>1, <2>2, <3>3, <3>4, <3>5, <3>6 DEF Kept, OnDisk
    <2>3. CASE k # j
      <3>1. runner'[k] = runner[k] /\ disk'[k] = disk[k] BY <1>0, <2>1, <2>3 DEF WebTypes
      <3> QED BY <1>0, <2>1, <3>1, KeptFrame
    <2> QED BY <2>2, <2>3
  <1>14. CASE Cleanup(j)
    BY <1>0, <1>14
    DEF Cleanup, Kept, OnDisk, Placed, WebTypes, Goto, Up, Serving, jobVars, viewVars, Undecided, Past, Phases, Final,
        NoDir, NewDir
  <1>15. CASE WriteLogs(j)
    <2>1. /\ runner[j] = "logs" /\ runner' = [runner EXCEPT ![j] = "gone"]
          /\ disk' = [disk EXCEPT ![j].logs = IF disk[j].there THEN log[j] ELSE <<>>]
          /\ UNCHANGED <<status, told, deleting>>
      BY <1>15 DEF WriteLogs, Goto, viewVars
    <2>2. /\ disk'[k].there = disk[k].there /\ disk'[k].report = disk[k].report
          /\ disk'[k].meta = disk[k].meta
      <3>1. disk[k] \in [there : BOOLEAN, meta : {"", "none", "running"} \cup Final,
                         report : BOOLEAN, logs : Seq(Nat)]
        BY <1>0 DEF WebTypes
      <3>2. \/ disk'[k] = disk[k]
            \/ disk'[k] = [disk[k] EXCEPT !.logs = IF disk[j].there THEN log[j] ELSE <<>>]
        BY <1>0, <2>1 DEF WebTypes
      <3> QED BY <3>1, <3>2
    <2>3. CASE k = j
      <3>1. runner'[k] = "gone" BY <1>0, <2>1, <2>3 DEF WebTypes
      <3>2. /\ "gone" \notin {"admitted", "stored", "persist", "done"}
            /\ "gone" \notin Undecided /\ runner[k] # "persist"
        BY <2>1, <2>3 DEF Undecided, Phases, Final
      <3> QED BY <1>0, <2>1, <2>2, <3>1, <3>2 DEF Kept, OnDisk
    <2>4. CASE k # j
      <3>1. runner'[k] = runner[k] BY <1>0, <2>1, <2>4 DEF WebTypes
      <3> QED BY <1>0, <2>1, <2>2, <3>1, KeptFrame
    <2> QED BY <2>3, <2>4
  <1>16. CASE Connect(j)
    BY <1>0, <1>16
    DEF Connect, Kept, OnDisk, Placed, WebTypes, Goto, Up, Serving, jobVars, viewVars, Undecided, Past, Phases, Final,
        NoDir, NewDir
  <1>17. CASE Tick(j)
    <2>1. /\ view[j] = "open" /\ Up /\ UNCHANGED <<runner, status, disk, deleting>>
          /\ \/ UNCHANGED told
             \/ status[j] # "running" /\ told' = [told EXCEPT ![j] = status[j]]
      BY <1>17 DEF Tick, jobVars
    <2>2. CASE UNCHANGED told BY <1>0, <2>1, <2>2, KeptFrame
    <2>3. CASE status[j] # "running" /\ told' = [told EXCEPT ![j] = status[j]]
      <3>1. CASE k = j
        <4>1. told'[k] = status[k] BY <1>0, <2>3, <3>1 DEF WebTypes
        <4>2. status[k] # "none" BY <1>0, <2>1, <3>1 DEF Placed
        <4>3. runner[k] \notin {"admitted", "stored"} \cup Undecided
          BY <1>0, <2>3, <3>1, <4>2 DEF Placed
        <4> QED BY <1>0, <2>1, <4>1, <4>3 DEF Kept, OnDisk
      <3>2. CASE k # j
        <4>1. told'[k] = told[k] BY <1>0, <2>3, <3>2 DEF WebTypes
        <4> QED BY <1>0, <2>1, <4>1, KeptFrame
      <3> QED BY <3>1, <3>2
    <2> QED BY <2>1, <2>2, <2>3
  <1>18. CASE Drop(j)
    BY <1>0, <1>18
    DEF Drop, Kept, OnDisk, Placed, WebTypes, Goto, Up, Serving, jobVars, viewVars, Undecided, Past, Phases, Final,
        NoDir, NewDir
  <1>19. CASE Delete(j)
    BY <1>0, <1>19
    DEF Delete, Kept, OnDisk, Placed, WebTypes, Goto, Up, Serving, jobVars, viewVars, Undecided, Past, Phases, Final,
        NoDir, NewDir
  <1>20. CASE Unlist(j)
    BY <1>0, <1>20
    DEF Unlist, Kept, OnDisk, Placed, WebTypes, Goto, Up, Serving, jobVars, viewVars, Undecided, Past, Phases, Final,
        NoDir, NewDir
  <1>21. CASE RemoveDir(j)
    BY <1>0, <1>21
    DEF RemoveDir, Kept, OnDisk, Placed, WebTypes, Goto, Up, Serving, jobVars, viewVars, Undecided, Past, Phases, Final,
        NoDir, NewDir
  <1> QED
    BY <1>1, <1>2, <1>3, <1>4, <1>5, <1>6, <1>7, <1>8, <1>9, <1>10, <1>11,
       <1>12, <1>13, <1>14, <1>15, <1>16, <1>17, <1>18, <1>19, <1>20, <1>21
    DEF JobStep, Handler, Runner, Deleter

-----------------------------------------------------------------------------
(* The server stops, is killed, and starts again.                          *)

LEMMA StopStep ==
    ASSUME WebInv, Exit \/ Crash, NEW k \in Jobs
    PROVE  Placed(k)' /\ Told(k)' /\ (k \notin orphans' => Kept(k)')
  <1>0. /\ WebTypes /\ Placed(k) /\ (k \notin orphans => Kept(k))
    BY Unfolded
  <1>1. PICK end \in {"down", "crashed"} :
           /\ ProcessGone(end)
           /\ end = "down" => WaitIsOver
    BY DEF Exit, Crash
  <1>2. /\ server' = end /\ runner'[k] = "none" /\ status'[k] = "none"
        /\ listed' = {} /\ (child'[k] = "alive" => k \in orphans')
        /\ deleting'[k] = IF deleting[k] = "deleted" THEN "deleted" ELSE "no"
        /\ disk' = disk /\ (k \in orphans => k \in orphans')
    BY <1>0, <1>1 DEF ProcessGone, WebTypes
  <1>3. ~Up' BY <1>2 DEF Up
  <1>4. Placed(k)'
    BY <1>0, <1>2, <1>3 DEF Placed, Undecided, Phases, Final
  <1>5. Told(k)' BY <1>2 DEF Told
  <1>6. ASSUME k \notin orphans' PROVE Kept(k)'
    <2>1. Kept(k) BY <1>0, <1>2, <1>6
    <2>2. CASE end = "crashed"
      <3>1. told'[k] = "none" BY <1>1, <2>2 DEF ProcessGone
      <3> QED BY <1>2, <3>1 DEF Kept, OnDisk, Undecided, Phases, Final
    <2>3. CASE end = "down"
      <3>1. told' = told BY <1>1, <2>3 DEF ProcessGone
      <3>2. runner[k] # "persist" BY <1>1, <2>3 DEF WaitIsOver, Phases
      <3> QED BY <1>2, <2>1, <3>1, <3>2 DEF Kept, OnDisk, Undecided, Phases, Final
    <2> QED BY <2>2, <2>3
  <1> QED BY <1>4, <1>5, <1>6

LEMMA RestartStep ==
    ASSUME WebInv, Restart, NEW k \in Jobs
    PROVE  Placed(k)' /\ Told(k)' /\ (k \notin orphans' => Kept(k)')
  <1>0. /\ WebTypes /\ Placed(k) /\ (k \notin orphans => Kept(k))
    BY Unfolded
  <1>1. /\ ~Up /\ server' = "up" /\ view'[k] = "off" /\ (k \in listed' <=> disk[k].there)
        /\ status'[k] = IF disk[k].there THEN Recovered(disk[k]) ELSE "none"
        /\ UNCHANGED <<runner, cancelled, child, disk, deleting, told, orphans>>
    BY DEF Restart
  <1>2. runner[k] = "none" /\ deleting[k] \in {"no", "deleted"} BY <1>0, <1>1 DEF Placed
  <1>3. Recovered(disk[k]) \in Final BY DEF Recovered, Final
  <1>4. Placed(k)'
    BY <1>0, <1>1, <1>2, <1>3 DEF Placed, Up, Undecided, Phases, Final
  <1>5. Told(k)' BY <1>1 DEF Told
  <1>6. ASSUME k \notin orphans' PROVE Kept(k)'
    <2>1. Kept(k) BY <1>0, <1>1, <1>6
    <2> QED
      BY <1>1, <1>2, <1>3, <2>1
      DEF Kept, OnDisk, Recovered, Undecided, Phases, Final
  <1> QED BY <1>4, <1>5, <1>6

LEMMA CancelStep ==
    ASSUME WebInv, Drain \/ CancelAll, NEW k \in Jobs
    PROVE  Placed(k)' /\ Told(k)' /\ (k \notin orphans' => Kept(k)')
  <1>0. /\ WebTypes /\ Placed(k) /\ Told(k) /\ (k \notin orphans => Kept(k))
    BY Unfolded DEF Streamed, Told
  <1>1. CASE Drain
    BY <1>0, <1>1 DEF Drain, Placed, Told, Kept, OnDisk, Up, jobVars, viewVars
  <1>2. CASE CancelAll
    BY <1>0, <1>2 DEF CancelAll, Placed, Told, Kept, OnDisk, Up, WebTypes
  <1> QED BY <1>1, <1>2

LEMMA OrphansStay ==
    ASSUME NEW j \in Jobs, JobStep(j) PROVE orphans' = orphans
  BY DEF JobStep, Handler, Runner, Deleter, Admit, Store, List, TakeSlot, AbortQueued, Launch,
         ChildWrites, ChildEnds, Abandon, PhaseEnds, Panic, SetStatus, Persist, Cleanup,
         WriteLogs, Connect, Tick, Drop, Delete, Unlist, RemoveDir

THEOREM WebAlways == Spec => []WebInv
  <1>1. Init => WebInv
    <2> SUFFICES ASSUME Init PROVE WebInv OBVIOUS
    <2>1. Typed(<<>>) BY DEF Typed, Stable
    <2>2. /\ NoDir \in [there : BOOLEAN, meta : {"", "none", "running"} \cup Final,
                        report : BOOLEAN, logs : Seq(Nat)]
          /\ NoDir.logs = <<>> /\ ~NoDir.there
      BY DEF NoDir
    <2>3. WebTypes BY <2>2 DEF Init, WebTypes, Past
    <2>4. ASSUME NEW j \in Jobs
          PROVE  Placed(j) /\ Streamed(j) /\ (j \notin orphans => Kept(j))
      <3>1. Placed(j) BY DEF Init, Placed, Up, Undecided, Phases, Final
      <3>2. Streamed(j) BY <2>1, <2>2 DEF Init, Streamed, Typed
      <3>3. Kept(j) BY DEF Init, Kept, OnDisk, Undecided, Phases, Final
      <3> QED BY <3>1, <3>2, <3>3
    <2> QED BY <2>3, <2>4 DEF WebInv, JobsSound
  <1>2. WebInv /\ [Next]_vars => WebInv'
    <2>1. ASSUME WebInv, Next PROVE WebInv'
      <3>1. WebTypes' BY <2>1, TypesStep
      <3>2. \A k \in Jobs : Stable(log'[k]) /\ Stable(got'[k]) /\ Stable(disk'[k].logs)
        BY <2>1, LogStep, GotStep, DiskStep
      <3>3. ASSUME NEW k \in Jobs
            PROVE  Placed(k)' /\ Told(k)' /\ (k \notin orphans' => Kept(k)')
        <4>1. ASSUME NEW j \in Jobs, JobStep(j)
              PROVE  Placed(k)' /\ Told(k)' /\ (k \notin orphans' => Kept(k)')
          BY <2>1, <4>1, PlacedStep, ToldStep, KeptStep, OrphansStay
        <4>2. CASE \E j \in Jobs : JobStep(j) BY <4>1, <4>2
        <4>3. CASE Exit \/ Crash BY <2>1, <4>3, StopStep
        <4>4. CASE Restart BY <2>1, <4>4, RestartStep
        <4>5. CASE Drain \/ CancelAll BY <2>1, <4>5, CancelStep
        <4> QED BY <2>1, <4>2, <4>3, <4>4, <4>5 DEF Next, JobStep
      <3> QED BY <3>1, <3>2, <3>3 DEF WebInv, JobsSound, Streamed, Told
    <2>2. ASSUME WebInv, UNCHANGED vars PROVE WebInv'
      <3>1. /\ UNCHANGED <<server, runner, status, cancelled, listed, child>>
            /\ UNCHANGED <<log, disk, deleting, view, got, told, orphans>>
        BY <2>2 DEF vars, jobVars, viewVars
      <3>2. WebTypes /\ JobsSound BY <2>2 DEF WebInv
      <3>3. WebTypes' BY <3>1, <3>2 DEF WebTypes
      <3>4. ASSUME NEW k \in Jobs
            PROVE  Placed(k)' /\ Streamed(k)' /\ (k \notin orphans' => Kept(k)')
        <4>1. Placed(k) /\ Streamed(k) /\ (k \notin orphans => Kept(k))
          BY <3>2 DEF JobsSound
        <4>2. Placed(k)' BY <3>1, <4>1 DEF Placed, Up
        <4>3. Streamed(k)' BY <3>1, <4>1 DEF Streamed, Stable
        <4>4. k \notin orphans' => Kept(k)' BY <3>1, <4>1 DEF Kept, OnDisk
        <4> QED BY <4>2, <4>3, <4>4
      <3> QED BY <3>3, <3>4 DEF WebInv, JobsSound
    <2> QED BY <2>1, <2>2
  <1> QED BY <1>1, <1>2, PTL DEF Spec

-----------------------------------------------------------------------------
\* handleScanLogs: whatever is dropped, cut off, deleted or restarted, a viewer
\* has each line once and in its place, and every line there is when told of
\* the end.
THEOREM StreamsComplete == Spec => []StreamComplete
  <1>1. WebInv => StreamComplete
    <2> SUFFICES ASSUME WebInv, NEW j \in Jobs
                 PROVE  /\ \A i \in DOMAIN got[j] :
                              got[j][i] = IF i <= MaxLines THEN i ELSE Marker
                        /\ view[j] = "told" /\ j \in listed => IsPrefix(log[j], got[j])
      BY DEF StreamComplete
    <2>1. /\ Typed(log[j]) /\ Typed(got[j]) /\ Streamed(j)
          /\ log[j] \in Seq(Nat) /\ got[j] \in Seq(Nat)
      BY Unfolded DEF Typed
    <2>2. \A i \in DOMAIN got[j] : got[j][i] = IF i <= MaxLines THEN i ELSE Marker
      <3>1. DOMAIN got[j] = 1..Len(got[j]) BY <2>1
      <3> QED BY <2>1, <3>1 DEF Typed, Stable
    <2>3. ASSUME view[j] = "told", j \in listed PROVE IsPrefix(log[j], got[j])
      <3>1. Len(log[j]) <= Len(got[j]) BY <2>1, <2>3 DEF Streamed
      <3>2. \A i \in 1..Len(log[j]) : log[j][i] = got[j][i]
        BY <2>1, <3>1 DEF Typed, Stable
      <3>3. SubSeq(got[j], 1, Len(log[j])) = log[j]
        BY <2>1, <3>1, <3>2
      <3> QED BY <2>1, <3>1, <3>2, <3>3 DEF IsPrefix
    <2> QED BY <2>2, <2>3
  <1> QED BY <1>1, WebAlways, PTL

\* handleDeleteScan: whatever the job's goroutine and process were doing, and
\* however the server stopped, a deleted job has no directory and no entry.
THEOREM DeletedGone == Spec => []DeletedStaysDeleted
  <1>1. WebInv => DeletedStaysDeleted
    BY DEF WebInv, JobsSound, Placed, DeletedStaysDeleted
  <1> QED BY <1>1, WebAlways, PTL

\* recoverJobs: after a stop in order a job is what its viewer was told it was.
THEOREM StatusKept == Spec => RestartKeepsStatus
  <1> DEFINE Keeps ==
        server = "down" /\ server' = "up" =>
          \A j \in listed' \ orphans : told[j] \in {"done", "timeout"} => status'[j] = told[j]
  <1>1. WebInv /\ [Next]_vars => [Keeps]_vars
    <2> SUFFICES ASSUME WebInv, Next, server = "down", server' = "up",
                        NEW j \in listed' \ orphans, told[j] \in {"done", "timeout"}
                 PROVE  status'[j] = told[j]
      OBVIOUS
    <2>1. Restart
      <3>1. \A k \in Jobs : JobStep(k) => server' = server
        BY DEF JobStep, Handler, Runner, Deleter, Admit, Store, List, TakeSlot, AbortQueued,
               Launch, ChildWrites, ChildEnds, Abandon, PhaseEnds, Panic, SetStatus, Persist,
               Cleanup, WriteLogs, Connect, Tick, Drop, Delete, Unlist, RemoveDir
      <3>2. ~Drain /\ ~CancelAll /\ ~Exit /\ ~Crash
        BY DEF Drain, CancelAll, Exit, Crash, Up
      <3> QED BY <3>1, <3>2 DEF Next, JobStep
    <2>2. j \in Jobs /\ disk[j].there /\ status'[j] = Recovered(disk[j])
      BY <2>1 DEF Restart
    <2>3. Placed(j) /\ Kept(j) /\ ~Up BY <2>1, <2>2, Unfolded DEF Restart
    <2>4. deleting[j] # "deleted" /\ runner[j] = "none" BY <2>2, <2>3 DEF Placed
    <2>5. OnDisk(j, told[j]) BY <2>3, <2>4 DEF Kept
    <2> QED BY <2>2, <2>4, <2>5 DEF OnDisk, Recovered
  <1>2. [][Keeps]_vars => RestartKeepsStatus BY PTL DEF RestartKeepsStatus
  <1> QED BY <1>1, <1>2, WebAlways, PTL DEF Spec
=============================================================================
