------------------------ MODULE CommandRecords_proofs ------------------------
(***************************************************************************)
(* What a command leaves for others to read: its checkpoint rows, and what *)
(* it and its parent report.  The two parts share no state.                *)
(*                                                                         *)
(* Rows: no row is lost and none goes stale but where the removal of a     *)
(* twin was refused, for any units, file names, threads and number of      *)
(* saves.  The invariant says, beyond the types, that a row is only ever   *)
(* at one of its unit's paths; that a thread past the lock holds it; that  *)
(* the path it resolved holds no sibling's row and, unless a removal was   *)
(* refused, is the only one that may hold its unit's; that no copy of a    *)
(* unit's row is newer than its last one (so the newer twin is the one to  *)
(* keep); and that, unless a removal was refused, every copy is that one.  *)
(*                                                                         *)
(* Reports: what the parent answers is what the engine and its tests came  *)
(* to, for any findings, retries and number of commands; and no test       *)
(* outlives the step that ran it.  The first rests on what Wait's error    *)
(* can mean, given the exit code (the race), and on what the step has      *)
(* reported so far (the tests); the second on what each finally clause     *)
(* leaves to the next.                                                     *)
(***************************************************************************)
EXTENDS CheckpointPaths, TestInvocation, TLAPS

-----------------------------------------------------------------------------
(* The checkpoint rows.                                                    *)

Contents == [id : Units, at : Nat] \cup {NoFile, Garbage}

Placed == \A f \in Files, u \in Units : Holds(f, u) => f \in Paths(u)

\* What a thread that has resolved its path may rely on.
Settled(w) ==
    /\ thread[w].path \in Paths(thread[w].unit)
    /\ \A u \in Units : Holds(thread[w].path, u) => u = thread[w].unit
    /\ ~refused[thread[w].unit] =>
           \A f \in Files : Holds(f, thread[w].unit) => f = thread[w].path

ThreadsOK ==
    \A w \in Threads :
        /\ thread[w].step # "idle" => thread[w].unit \in Units
        /\ thread[w].step \in {"resolve", "write"} => lock = w
        /\ thread[w].step = "write" => Settled(w)

\* No row is newer than the clock, or than its unit's last one.
Dated ==
    \A f \in Files, u \in Units : Holds(f, u) =>
        files[f].at <= saves /\ (latest[u] > 0 => files[f].at <= latest[u])

PathsInv == TypeOK /\ Placed /\ ThreadsOK /\ Dated /\ RowsSurvive /\ LoadFindsLatest

LEMMA PathsAreFiles == ASSUME NEW u \in Units PROVE Paths(u) \subseteq Files
BY PathsAssumption DEF Paths, Files, Bare, Home

\* Only its own unit's rows can be in a home.
LEMMA HomesDiffer ==
    ASSUME NEW u \in Units, NEW v \in Units, Home(u) \in Paths(v)
    PROVE  u = v
BY DEF Paths, Home, Bare

\* Only its own unit's rows can be at a truncated name.
LEMMA LongNamesDiffer ==
    ASSUME NEW u \in LongUnits, NEW v \in Units, Bare(u) \in Paths(v)
    PROVE  u = v
BY PathsAssumption DEF Paths, Home, Bare

LEMMA RowsAreNotMarks ==
    /\ ~IsRow(NoFile) /\ ~IsRow(Garbage)
    /\ \A u \in Units, t \in Nat : IsRow(Row(u, t)) /\ Row(u, t).id = u
                                     /\ Row(u, t).at = t
BY PathsAssumption DEF IsRow, Row

-----------------------------------------------------------------------------
(* The path disambiguated_checkpoint_path picks.                           *)

\* It is one of the unit's own and no sibling's row is there.
LEMMA TargetIsFree ==
    ASSUME TypeOK, Placed, NEW u \in Units
    PROVE  /\ Target(u) \in Paths(u)
           /\ \A v \in Units : Holds(Target(u), v) => v = u
<1>0. Paths(u) \subseteq Files
  BY PathsAreFiles
<1>1. CASE u \in LongUnits
  BY <1>0, <1>1, LongNamesDiffer DEF Target, Paths, Placed
<1>2. CASE u \notin LongUnits
  <2>1. Target(u) \in {Bare(u), Home(u)} /\ Paths(u) = {Bare(u), Home(u)}
    BY <1>2 DEF Target, Paths
  <2>2. CASE Target(u) = Home(u)
    BY <1>0, <2>1, <2>2, HomesDiffer DEF Placed
  <2>3. CASE Target(u) = Bare(u) /\ Target(u) # Home(u)
    <3>1. Holds(Bare(u), u) \/ ~IsRow(files[Bare(u)])
      BY <1>2, <2>3 DEF Target, Twins
    <3> QED
      BY <2>1, <2>3, <3>1 DEF Holds
  <2> QED
    BY <2>1, <2>2, <2>3
<1> QED
  BY <1>1, <1>2

\* Once the superseded twin is gone, the unit's row is nowhere else.
LEMMA TargetIsOnly ==
    ASSUME TypeOK, Placed, NEW u \in Units, NEW f \in Files,
           Holds(f, u), f # Target(u)
    PROVE  f \in Superseded(u)
<1>1. f \in Paths(u)
  BY DEF Placed
<1>2. u \notin LongUnits /\ f \in {Bare(u), Home(u)}
  BY <1>1 DEF Paths, Target
<1>3. Twins(u)
  BY <1>2 DEF Twins, Target
<1> QED
  BY <1>2, <1>3 DEF Superseded

\* What is deleted is the unit's own row, and the target keeps a row of it.
LEMMA SupersededIsOwn ==
    ASSUME NEW u \in Units, NEW f \in Superseded(u)
    PROVE  Holds(f, u) /\ f # Target(u) /\ Holds(Target(u), u)
<1>1. u \notin LongUnits /\ Twins(u) /\ f \in {Bare(u), Home(u)} \ {Target(u)}
  BY DEF Superseded
<1>2. Target(u) \in {Bare(u), Home(u)}
  BY <1>1 DEF Target
<1> QED
  BY <1>1, <1>2 DEF Twins

\* It is the newer of the twins that stays.
LEMMA NewerIsKept ==
    ASSUME TypeOK, NEW u \in Units, NEW f \in Superseded(u)
    PROVE  files[f].at <= files[Target(u)].at
<1>1. u \notin LongUnits /\ Twins(u) /\ f \in {Bare(u), Home(u)} \ {Target(u)}
  BY DEF Superseded
<1>2. files[Bare(u)].at \in Nat /\ files[Home(u)].at \in Nat
  BY <1>1 DEF Twins, Holds, IsRow
<1> QED
  BY <1>1, <1>2 DEF Target

-----------------------------------------------------------------------------
(* The invariant.                                                          *)

LEMMA PathsInit == Init => PathsInv
<1> SUFFICES ASSUME Init PROVE PathsInv
  OBVIOUS
<1>1. TypeOK
  <2>1. files \in [Files -> [id : Units, at : Nat] \cup {NoFile, Garbage}]
    BY DEF Init, Row
  <2> QED
    BY <2>1 DEF Init, TypeOK, Resting
<1>2. Placed /\ ThreadsOK /\ RowsSurvive /\ LoadFindsLatest
  BY DEF Init, Placed, ThreadsOK, RowsSurvive, LoadFindsLatest, Resting
<1>3. Dated
  <2> SUFFICES ASSUME NEW f \in Files, NEW u \in Units, Holds(f, u)
               PROVE  files[f].at = 0 /\ saves = 0 /\ latest[u] = 0
    BY DEF Dated
  <2>1. files[f] # NoFile
    BY RowsAreNotMarks DEF Holds
  <2> QED
    BY <2>1 DEF Init, Row
<1> QED
  BY <1>1, <1>2, <1>3 DEF PathsInv

\* A step that leaves the files and latest alone only has threads to answer
\* for.
LEMMA FilesAlone ==
    ASSUME PathsInv, UNCHANGED <<files, latest, saves, refused>>, TypeOK', ThreadsOK'
    PROVE  PathsInv'
BY DEF PathsInv, Placed, Dated, RowsSurvive, LoadFindsLatest, Holds

LEMMA ResolveKeeps ==
    ASSUME PathsInv, NEW w \in Threads, Resolve(w)
    PROVE  PathsInv'
<1> PICK u \in Units : u = thread[w].unit
  BY DEF PathsInv, ThreadsOK, Resolve
<1>0. TypeOK /\ Placed /\ thread[w].step = "resolve" /\ lock = w
  BY DEF PathsInv, ThreadsOK, Resolve
<1>1. Target(u) \in Paths(u) /\ Target(u) \in Files
      /\ \A v \in Units : Holds(Target(u), v) => v = u
  BY <1>0, TargetIsFree, PathsAreFiles
<1>2. /\ thread' = [thread EXCEPT ![w] = [unit |-> u, step |-> "write",
                                           path |-> Target(u)]]
      /\ files' = [f \in Files |-> IF f \in Superseded(u) THEN NoFile ELSE files[f]]
      /\ refused' = [refused EXCEPT ![u] = FALSE]
      /\ UNCHANGED <<lock, saves, latest>>
  BY DEF Resolve
<1>3. \A f \in Files, v \in Units : Holds(f, v)' <=> Holds(f, v) /\ f \notin Superseded(u)
  BY <1>2, RowsAreNotMarks DEF Holds
<1>4. TypeOK'
  BY <1>0, <1>1, <1>2 DEF TypeOK
<1>5. Placed'
  BY <1>0, <1>3 DEF Placed, Paths, Bare, Home
<1>6. ThreadsOK'
  <2> SUFFICES ASSUME NEW x \in Threads
               PROVE  /\ thread'[x].step # "idle" => thread'[x].unit \in Units
                      /\ thread'[x].step \in {"resolve", "write"} => lock' = x
                      /\ thread'[x].step = "write" => Settled(x)'
    BY DEF ThreadsOK
  <2>1. CASE x = w
    <3> PICK p \in Files : p = Target(u)
      BY <1>1
    <3>1. thread'[w].unit = u /\ thread'[w].step = "write" /\ thread'[w].path = p
      BY <1>0, <1>2 DEF TypeOK
    <3>2. \A f \in Files : Holds(f, u)' => f = p
      BY <1>0, <1>3, TargetIsOnly
    <3>3. \A v \in Units : Holds(p, v)' => v = u
      BY <1>1, <1>3
    <3>4. Settled(w)'
      BY <1>1, <3>1, <3>2, <3>3 DEF Settled, Holds, Paths, Bare, Home
    <3> QED
      BY <1>0, <1>2, <2>1, <3>1, <3>4
  <2>2. CASE x # w
    <3>1. thread'[x] = thread[x]
      BY <1>0, <1>2, <2>2 DEF TypeOK
    <3> QED
      BY <1>0, <1>2, <2>2, <3>1 DEF PathsInv, ThreadsOK
  <2> QED
    BY <2>1, <2>2
<1>7. RowsSurvive'
  <2> SUFFICES ASSUME NEW v \in Units, latest[v] > 0
               PROVE  \E f \in Files : files'[f] = Row(v, latest[v])
    BY <1>2 DEF RowsSurvive
  <2> PICK f \in Files : files[f] = Row(v, latest[v])
    BY DEF PathsInv, RowsSurvive
  <2>0. latest[v] \in Nat
    BY <1>0 DEF TypeOK
  <2>1. CASE f \notin Superseded(u)
    BY <1>2, <2>1
  <2>2. CASE f \in Superseded(u)
    <3>1. Holds(f, u) /\ Holds(Target(u), u) /\ Target(u) \notin Superseded(u)
      BY <1>0, <2>2, SupersededIsOwn
    <3>2. v = u /\ files[f].at = latest[u]
      BY <2>0, <3>1, RowsAreNotMarks DEF Holds
    <3>3. files[Target(u)] = Row(u, latest[u])
      <4>1. IsRow(files[Target(u)]) /\ files[Target(u)].id = u
            /\ files[Target(u)].at \in Nat
        BY <1>0, <1>1, <3>1 DEF Holds, IsRow
      <4>2. latest[u] <= files[Target(u)].at
        BY <1>0, <2>2, <3>2, NewerIsKept
      <4>3. files[Target(u)].at <= latest[u]
        BY <1>1, <3>1, <3>2 DEF PathsInv, Dated
      <4>4. files[Target(u)].at = latest[u]
        BY <2>0, <3>2, <4>1, <4>2, <4>3
      <4> QED
        BY <4>1, <4>4 DEF IsRow, Row
    <3> QED
      BY <1>1, <1>2, <3>1, <3>2, <3>3
  <2> QED
    BY <2>1, <2>2
<1>8. LoadFindsLatest'
  <2> SUFFICES ASSUME NEW v \in Units, NEW f \in Files, latest'[v] > 0,
                      ~refused'[v], Holds(f, v)'
               PROVE  files'[f].at = latest'[v]
    BY DEF LoadFindsLatest
  <2>1. CASE v = u
    <3> PICK g \in Files : files'[g] = Row(v, latest'[v])
      BY <1>7 DEF RowsSurvive
    <3>1. latest'[v] \in Nat
      BY <1>4 DEF TypeOK
    <3>2. Holds(g, v)'
      BY <3>1, RowsAreNotMarks DEF Holds
    <3>3. f = Target(u) /\ g = Target(u)
      BY <1>0, <1>3, <2>1, <3>2, TargetIsOnly
    <3> QED
      BY <3>1, <3>3, RowsAreNotMarks
  <2>2. CASE v # u
    <3>1. ~refused[v]
      BY <1>0, <1>2, <2>2 DEF TypeOK
    <3> QED
      BY <1>2, <1>3, <3>1 DEF PathsInv, LoadFindsLatest
  <2> QED
    BY <2>1, <2>2
<1>9. Dated'
  BY <1>2, <1>3 DEF PathsInv, Dated
<1> QED
  BY <1>4, <1>5, <1>6, <1>7, <1>8, <1>9 DEF PathsInv

LEMMA ResolveRefusedKeeps ==
    ASSUME PathsInv, NEW w \in Threads, ResolveRefused(w)
    PROVE  PathsInv'
<1> PICK u \in Units : u = thread[w].unit
  BY DEF PathsInv, ThreadsOK, ResolveRefused
<1>0. TypeOK /\ Placed /\ thread[w].step = "resolve" /\ lock = w
  BY DEF PathsInv, ThreadsOK, ResolveRefused
<1>1. u \notin LongUnits /\ Holds(Bare(u), u)
  BY DEF ResolveRefused, Twins
<1>2. /\ thread' = [thread EXCEPT ![w] = [unit |-> u, step |-> "write",
                                           path |-> Bare(u)]]
      /\ refused' = [refused EXCEPT ![u] = TRUE]
      /\ UNCHANGED <<files, lock, saves, latest>>
  BY DEF ResolveRefused
<1>3. Bare(u) \in Paths(u) /\ Bare(u) \in Files
  BY <1>1, PathsAreFiles DEF Paths
<1>4. TypeOK'
  BY <1>0, <1>2, <1>3 DEF TypeOK
<1>5. \A v \in Units : refused'[v] = (v = u \/ refused[v])
  BY <1>0, <1>2 DEF TypeOK
<1>6. ThreadsOK'
  <2> SUFFICES ASSUME NEW x \in Threads
               PROVE  /\ thread'[x].step # "idle" => thread'[x].unit \in Units
                      /\ thread'[x].step \in {"resolve", "write"} => lock' = x
                      /\ thread'[x].step = "write" => Settled(x)'
    BY DEF ThreadsOK
  <2>1. CASE x = w
    <3> PICK p \in Files : p = Bare(u)
      BY <1>3
    <3>1. thread'[w].unit = u /\ thread'[w].step = "write" /\ thread'[w].path = p
      BY <1>0, <1>2 DEF TypeOK
    <3>2. \A v \in Units : Holds(p, v)' => v = u
      BY <1>1, <1>2 DEF Holds
    <3>3. Settled(w)'
      BY <1>3, <1>5, <3>1, <3>2 DEF Settled, Holds, Paths, Bare, Home
    <3> QED
      BY <1>0, <1>2, <2>1, <3>1, <3>3
  <2>2. CASE x # w
    <3>1. thread'[x] = thread[x]
      BY <1>0, <1>2, <2>2 DEF TypeOK
    <3> QED
      BY <1>0, <1>2, <2>2, <3>1 DEF PathsInv, ThreadsOK
  <2> QED
    BY <2>1, <2>2
<1>7. Placed' /\ Dated' /\ RowsSurvive'
  BY <1>2 DEF PathsInv, Placed, Dated, RowsSurvive, Holds, Paths, Bare, Home
<1>8. LoadFindsLatest'
  BY <1>2, <1>5 DEF PathsInv, LoadFindsLatest, Holds
<1> QED
  BY <1>4, <1>6, <1>7, <1>8 DEF PathsInv

LEMMA WriteKeeps ==
    ASSUME PathsInv, NEW w \in Threads, Write(w)
    PROVE  PathsInv'
<1>a. thread[w].unit \in Units /\ thread[w].path \in Files /\ saves + 1 \in Nat
  BY PathsAreFiles DEF PathsInv, ThreadsOK, Write, TypeOK, Settled
<1> PICK u \in Units, p \in Files, t \in Nat :
        u = thread[w].unit /\ p = thread[w].path /\ t = saves + 1
  BY <1>a
<1>0. TypeOK /\ Placed /\ lock = w /\ t > 0 /\ Settled(w)
  BY DEF PathsInv, ThreadsOK, Write, TypeOK
<1>1. /\ files' = [files EXCEPT ![p] = Row(u, t)]
      /\ latest' = [latest EXCEPT ![u] = t]
      /\ lock' = NoThread /\ thread' = [thread EXCEPT ![w] = Resting] /\ saves' = t
      /\ refused' = refused
  BY DEF Write
<1>2. Row(u, t) \in [id : Units, at : Nat]
  BY <1>0 DEF Row
<1>3. \A f \in Files : files'[f] = IF f = p THEN Row(u, t) ELSE files[f]
  BY <1>0, <1>1 DEF TypeOK
<1>4. \A v \in Units : latest'[v] = IF v = u THEN t ELSE latest[v]
  BY <1>0, <1>1 DEF TypeOK
<1>5. TypeOK'
  BY <1>0, <1>1, <1>2 DEF TypeOK, Resting
<1>6. \A f \in Files, v \in Units :
          Holds(f, v)' <=> IF f = p THEN v = u ELSE Holds(f, v)
  BY <1>0, <1>3, RowsAreNotMarks DEF Holds
<1>7. Placed'
  BY <1>0, <1>6 DEF Placed, Settled, Paths, Bare, Home
<1>8. ThreadsOK'
  <2> SUFFICES ASSUME NEW x \in Threads
               PROVE  /\ thread'[x].step # "idle" => thread'[x].unit \in Units
                      /\ thread'[x].step \notin {"resolve", "write"}
    BY DEF ThreadsOK
  <2>1. CASE x = w
    BY <1>0, <1>1, <2>1 DEF TypeOK, Resting
  <2>2. CASE x # w
    BY <1>0, <1>1, <2>2 DEF PathsInv, ThreadsOK, TypeOK
  <2> QED
    BY <2>1, <2>2
<1>9. RowsSurvive'
  <2> SUFFICES ASSUME NEW v \in Units, latest'[v] > 0
               PROVE  \E f \in Files : files'[f] = Row(v, latest'[v])
    BY DEF RowsSurvive
  <2>1. CASE v = u
    BY <1>0, <1>3, <1>4, <2>1
  <2>2. CASE v # u
    <3> PICK f \in Files : files[f] = Row(v, latest[v])
      BY <1>4, <2>2 DEF PathsInv, RowsSurvive
    <3>1. Holds(f, v)
      BY <1>0, RowsAreNotMarks DEF Holds, TypeOK
    <3>2. f # p
      BY <1>0, <2>2, <3>1 DEF Settled
    <3> QED
      BY <1>3, <1>4, <2>2, <3>2
  <2> QED
    BY <2>1, <2>2
<1>10. LoadFindsLatest'
  <2> SUFFICES ASSUME NEW v \in Units, NEW f \in Files, latest'[v] > 0,
                      ~refused[v], Holds(f, v)'
               PROVE  files'[f].at = latest'[v]
    BY <1>1 DEF LoadFindsLatest
  <2>1. CASE f = p
    BY <1>0, <1>3, <1>4, <1>6, <2>1, RowsAreNotMarks
  <2>2. CASE f # p
    <3>1. Holds(f, v) /\ v # u
      BY <1>0, <1>6, <2>2 DEF Settled
    <3> QED
      BY <1>3, <1>4, <2>2, <3>1 DEF PathsInv, LoadFindsLatest
  <2> QED
    BY <2>1, <2>2
<1>11. Dated'
  <2> SUFFICES ASSUME NEW f \in Files, NEW v \in Units, Holds(f, v)'
               PROVE  files'[f].at <= t /\ (latest'[v] > 0 => files'[f].at <= latest'[v])
    BY <1>1 DEF Dated
  <2>1. CASE f = p
    BY <1>0, <1>3, <1>4, <1>6, <2>1, RowsAreNotMarks
  <2>2. CASE f # p
    <3>1. Holds(f, v) /\ files'[f] = files[f] /\ files[f].at \in Nat
      BY <1>3, <1>6, <2>2 DEF Holds, IsRow
    <3>2. files[f].at <= saves /\ (latest[v] > 0 => files[f].at <= latest[v])
      BY <3>1 DEF PathsInv, Dated
    <3> QED
      BY <1>0, <1>4, <3>1, <3>2 DEF TypeOK
  <2> QED
    BY <2>1, <2>2
<1> QED
  BY <1>5, <1>7, <1>8, <1>9, <1>10, <1>11 DEF PathsInv

LEMMA DamageKeeps ==
    ASSUME PathsInv, NEW g \in Files, Damage(g)
    PROVE  PathsInv'
<1>0. TypeOK /\ Placed
  BY DEF PathsInv
<1>1. PICK c \in {NoFile, Garbage} : files' = [files EXCEPT ![g] = c]
  BY DEF Damage
<1>2. /\ latest' = [u \in Units |-> IF Holds(g, u) THEN 0 ELSE latest[u]]
      /\ UNCHANGED <<thread, lock, saves, refused>>
  BY DEF Damage
<1>3. \A f \in Files : files'[f] = IF f = g THEN c ELSE files[f]
  BY <1>0, <1>1 DEF TypeOK
<1>4. \A f \in Files, v \in Units : Holds(f, v)' <=> f # g /\ Holds(f, v)
  BY <1>3, RowsAreNotMarks DEF Holds
<1>5. TypeOK'
  BY <1>0, <1>1, <1>2 DEF TypeOK
<1>6. Placed'
  BY <1>0, <1>4 DEF Placed, Paths, Bare, Home
<1>7. ThreadsOK'
  <2> SUFFICES ASSUME NEW x \in Threads, thread[x].step = "write"
               PROVE  Settled(x)'
    BY <1>2 DEF PathsInv, ThreadsOK
  <2>1. Settled(x) /\ thread[x].unit \in Units /\ thread[x].path \in Files
    BY PathsAreFiles DEF PathsInv, ThreadsOK, Settled
  <2> PICK u \in Units, p \in Files : u = thread[x].unit /\ p = thread[x].path
    BY <2>1
  <2>2. thread'[x].unit = u /\ thread'[x].path = p
    BY <1>2
  <2>3. \A v \in Units : Holds(p, v)' => v = u
    BY <1>4, <2>1 DEF Settled
  <2>4. ~refused'[u] => \A f \in Files : Holds(f, u)' => f = p
    BY <1>2, <1>4, <2>1 DEF Settled
  <2>5. p \in Paths(u)
    BY <2>1 DEF Settled
  <2> QED
    BY <2>2, <2>3, <2>4, <2>5 DEF Settled, Holds, Paths, Bare, Home
<1>8. RowsSurvive'
  <2> SUFFICES ASSUME NEW v \in Units, latest'[v] > 0
               PROVE  \E f \in Files : files'[f] = Row(v, latest'[v])
    BY DEF RowsSurvive
  <2>1. ~Holds(g, v) /\ latest'[v] = latest[v] /\ latest[v] \in Nat
    BY <1>0, <1>2 DEF TypeOK
  <2> PICK f \in Files : files[f] = Row(v, latest[v])
    BY <2>1 DEF PathsInv, RowsSurvive
  <2>2. f # g
    BY <2>1, RowsAreNotMarks DEF Holds
  <2> QED
    BY <1>3, <2>1, <2>2
<1>9. LoadFindsLatest'
  BY <1>2, <1>3, <1>4 DEF PathsInv, LoadFindsLatest
<1>10. Dated'
  BY <1>2, <1>3, <1>4 DEF PathsInv, Dated
<1> QED
  BY <1>5, <1>6, <1>7, <1>8, <1>9, <1>10 DEF PathsInv

LEMMA PathsStep == PathsInv /\ [Next]_vars => PathsInv'
<1> SUFFICES ASSUME PathsInv, [Next]_vars PROVE PathsInv'
  OBVIOUS
<1>0. TypeOK /\ ThreadsOK
  BY DEF PathsInv
<1>1. CASE UNCHANGED vars
  <2>1. TypeOK' /\ ThreadsOK'
    BY <1>0, <1>1 DEF vars, TypeOK, ThreadsOK, Settled, Holds, Paths, Bare, Home
  <2> QED
    BY <1>1, <2>1, FilesAlone DEF vars
<1>2. ASSUME NEW w \in Threads, NEW u \in Units, Begin(w, u) PROVE PathsInv'
  <2>1. TypeOK' /\ ThreadsOK'
    BY <1>0, <1>2 DEF Begin, TypeOK, ThreadsOK, Settled, Holds, Paths, Bare, Home
  <2> QED
    BY <1>2, <2>1, FilesAlone DEF Begin
<1>3. ASSUME NEW w \in Threads, TakeLock(w) PROVE PathsInv'
  <2>1. TypeOK' /\ ThreadsOK'
    BY <1>0, <1>3, PathsAssumption
       DEF TakeLock, TypeOK, ThreadsOK, Settled, Holds, Paths, Bare, Home
  <2> QED
    BY <1>3, <2>1, FilesAlone DEF TakeLock
<1>4. ASSUME NEW w \in Threads, WriteFails(w) PROVE PathsInv'
  <2>1. TypeOK' /\ ThreadsOK'
    BY <1>0, <1>4 DEF WriteFails, TypeOK, ThreadsOK, Resting
  <2> QED
    BY <1>4, <2>1, FilesAlone DEF WriteFails
<1>5. CASE Kill
  <2>1. TypeOK' /\ ThreadsOK'
    BY <1>0, <1>5 DEF Kill, TypeOK, ThreadsOK, Resting
  <2> QED
    BY <1>5, <2>1, FilesAlone DEF Kill
<1> QED
  BY <1>1, <1>2, <1>3, <1>4, <1>5, ResolveKeeps, ResolveRefusedKeeps, WriteKeeps,
     DamageKeeps DEF Next, Step

\* Every variable keeps its type, whatever threads, kills and damage do.
THEOREM PathsTyped == Spec => []TypeOK
<1>1. PathsInv => TypeOK
  BY DEF PathsInv
<1> QED
  BY PathsInit, PathsStep, <1>1, PTL DEF Spec

\* No save of a sibling, no consolidation of twins and no kill loses a unit's
\* last row.
THEOREM NoRowLost == Spec => []RowsSurvive
<1>1. PathsInv => RowsSurvive
  BY DEF PathsInv
<1> QED
  BY PathsInit, PathsStep, <1>1, PTL DEF Spec

\* Whatever the order of listdir, load can only return a unit's last row, but
\* for a unit whose twin could not be removed when it was last saved.
THEOREM NoRowStale == Spec => []LoadFindsLatest
<1>1. PathsInv => LoadFindsLatest
  BY DEF PathsInv
<1> QED
  BY PathsInit, PathsStep, <1>1, PTL DEF Spec

\* Between resolve and write the lock keeps every sibling off the path.
THEOREM ResolvedPathKept == Spec => []ResolvedStillValid
<1>1. PathsInv => ResolvedStillValid
  BY DEF PathsInv, ThreadsOK, Settled, ResolvedStillValid
<1> QED
  BY PathsInit, PathsStep, <1>1, PTL DEF Spec

-----------------------------------------------------------------------------
(* The race of the process's end.                                          *)

\* What Wait's error says of the exit, and what it cannot say.
RaceInv ==
    /\ Go!TypeOK
    /\ child = "running" => code = 0 /\ pc = "wait"
    /\ pc # "wait" => child = "reaped" /\ (waitErr = "exit" <=> code # 0)
    /\ watched \/ waitErr = "ctx" => ctx # "live"
    /\ side = "cli" => ctx # "cancelled"
    /\ child # "running" /\ code >= 0 /\ out \in Go!Envelopes => code \in Go!CodesAfter(out)
    /\ Go!CompletedRunReturned /\ Go!ReportedAsItEnded
    /\ pc = "answered" /\ answer.code \in {0, 1} => answer.kind = "result"

\* The judgement, given what Wait has returned.
LEMMA JudgedRight ==
    ASSUME RaceInv, Go!Judge
    PROVE  /\ Go!CompletedRunReturned' /\ Go!ReportedAsItEnded'
           /\ answer'.code \in {0, 1} => answer'.kind = "result"
  <1>1. /\ pc = "judge" /\ pc' = "answered" /\ child = "reaped"
        /\ code \in -1..2 /\ out \in {"success", "error", "none", "part"}
        /\ waitErr \in {"none", "exit", "ctx", "delay"} /\ (waitErr = "exit" <=> code # 0)
        /\ ctx \in {"live", "deadline", "cancelled"} /\ side \in {"cli", "server"}
        /\ waitErr = "ctx" => ctx # "live"
        /\ side = "cli" => ctx # "cancelled"
        /\ code >= 0 /\ out = "success" => code \in {0, 1}
        /\ code >= 0 /\ out = "error" => code = 2
        /\ UNCHANGED <<side, code, out, ctx, waitErr, interrupted>>
    BY DEF RaceInv, Go!Judge, Go!TypeOK, Go!CodesAfter, Go!Envelopes
  <1>2. Go!KillArtifact <=> code < 0
    BY <1>1 DEF Go!KillArtifact, Go!Succeeded
  <1>3. CASE side = "cli"
    <2>1. answer' = Go!CliAnswer BY <1>3 DEF Go!Judge
    <2>2. CASE out \in Go!Envelopes
      <3>1. answer' = Go!Result(out, IF code < 0 THEN 2 ELSE code)
        BY <1>1, <1>2, <2>1, <2>2
        DEF Go!CliAnswer, Go!WithEnvelope, Go!Normalized, Go!Envelopes
      <3> QED
        BY <1>1, <1>3, <2>2, <3>1
        DEF Go!CompletedRunReturned, Go!ReportedAsItEnded, Go!Result, Go!Envelopes
    <2>3. CASE out = "none" /\ interrupted
      <3>1. answer' = Go!Result("interrupted", 130)
        BY <2>1, <2>3 DEF Go!CliAnswer, Go!Envelopes
      <3> QED
        BY <1>1, <1>3, <2>3, <3>1
        DEF Go!CompletedRunReturned, Go!ReportedAsItEnded, Go!Result, Go!Envelopes
    <2>4. CASE /\ out \notin Go!Envelopes /\ ~(out = "none" /\ interrupted)
               /\ Go!DeadlineFired /\ Go!KillArtifact
      <3>1. answer' = Go!Failure("diagnosed") BY <2>1, <2>4 DEF Go!CliAnswer
      <3> QED
        BY <1>1, <1>2, <1>3, <2>4, <3>1
        DEF Go!CompletedRunReturned, Go!ReportedAsItEnded, Go!Failure, Go!Envelopes,
            Go!DeadlineFired
    <2>5. CASE /\ out \notin Go!Envelopes /\ ~(out = "none" /\ interrupted)
               /\ ~(Go!DeadlineFired /\ Go!KillArtifact)
      <3>1. answer' = Go!WithoutEnvelope BY <2>1, <2>5 DEF Go!CliAnswer
      <3>2. ~(waitErr = "ctx" /\ ~(Go!DeadlineFired /\ Go!Succeeded))
        BY <1>1, <1>3 DEF Go!DeadlineFired, Go!Succeeded
      <3>3. answer' = Go!Result("error", IF code < 0 \/ code < 2 THEN 2 ELSE code)
        BY <3>1, <3>2 DEF Go!WithoutEnvelope, Go!Normalized
      <3> QED
        BY <1>1, <1>3, <2>5, <3>3
        DEF Go!CompletedRunReturned, Go!ReportedAsItEnded, Go!Result, Go!Envelopes
    <2> QED BY <2>2, <2>3, <2>4, <2>5
  <1>4. CASE side = "server"
    <2>1. answer' = Go!ServerAnswer BY <1>4 DEF Go!Judge
    <2>2. \/ answer' = Go!Result(out, code)
          \/ answer' = Go!Failure("diagnosed") /\ code = -1 /\ ctx = "deadline"
          \/ answer' = Go!Failure("cancelled") /\ ctx = "cancelled"
      BY <1>1, <2>1
      DEF Go!ServerAnswer, Go!DeadlineOutcome, Go!EnvelopeOnOneLine, Go!DeadlineFired,
          Go!Succeeded
    <2> QED
      BY <1>1, <1>4, <2>2
      DEF Go!CompletedRunReturned, Go!ReportedAsItEnded, Go!Result, Go!Failure,
          Go!Envelopes, Go!DeadlineFired
  <1> QED BY <1>1, <1>3, <1>4

\* However the engine ends, its code is one that its envelope allows.
LEMMA RaceEnds ==
    ASSUME RaceInv, NEW c \in -1..2, Go!Ends(c),
           watched' \in BOOLEAN, watched' => ctx # "live",
           c >= 0 /\ out \in Go!Envelopes => c \in Go!CodesAfter(out)
    PROVE  RaceInv'
  <1>1. /\ Go!TypeOK /\ pc = "wait" /\ child' = "ended" /\ code' = c
        /\ UNCHANGED <<side, out, held, ctx, interrupted, pc, waitErr, answer>>
    BY DEF RaceInv, Go!Ends
  <1>2. Go!TypeOK' BY <1>1 DEF Go!TypeOK
  <1>3. Go!CompletedRunReturned' /\ Go!ReportedAsItEnded'
    BY <1>1 DEF Go!CompletedRunReturned, Go!ReportedAsItEnded
  <1> QED BY <1>1, <1>2, <1>3 DEF RaceInv, Go!CodesAfter, Go!Envelopes

LEMMA RaceStep ==
    ASSUME RaceInv,
           \/ Go!PrintEnvelope \/ Go!ChildExits \/ Go!ChildDies \/ Go!ForceKill
           \/ Go!JobCancelled \/ Go!Interrupt \/ Go!DescendantEnds
           \/ Go!DeadlineFires \/ Go!ParentWork \/ UNCHANGED invocation
    PROVE  RaceInv'
  <1>0. Go!TypeOK BY DEF RaceInv
  <1>1. CASE Go!PrintEnvelope
    <2>1. /\ child = "running" /\ pc = "wait" /\ out' \in {"part", "success", "error"}
          /\ UNCHANGED <<side, child, code, held, ctx, watched, interrupted, pc,
                         waitErr, answer>>
      BY <1>1 DEF RaceInv, Go!PrintEnvelope, Go!Envelopes
    <2>2. Go!TypeOK' BY <1>0, <2>1 DEF Go!TypeOK, Go!Envelopes
    <2>3. Go!CompletedRunReturned' /\ Go!ReportedAsItEnded'
      BY <2>1 DEF Go!CompletedRunReturned, Go!ReportedAsItEnded
    <2> QED BY <2>1, <2>2, <2>3 DEF RaceInv
  <1>2. CASE Go!ChildExits
    <2>1. PICK c \in Go!CodesAfter(out) : Go!Ends(c) BY <1>2 DEF Go!ChildExits
    <2>2. c \in -1..2 BY <2>1 DEF Go!CodesAfter
    <2>3. watched' \in BOOLEAN /\ (watched' => ctx # "live")
      BY <1>0, <1>2 DEF RaceInv, Go!ChildExits, Go!TypeOK
    <2> QED BY <2>1, <2>2, <2>3, RaceEnds
  <1>3. CASE Go!ChildDies \/ Go!ForceKill
    <2>1. Go!Ends(-1) /\ UNCHANGED watched BY <1>3 DEF Go!ChildDies, Go!ForceKill
    <2>2. watched' \in BOOLEAN /\ (watched' => ctx # "live")
      BY <1>0, <2>1 DEF RaceInv, Go!TypeOK
    <2> QED BY <2>1, <2>2, RaceEnds
  <1>4. ASSUME NEW why \in {"deadline", "cancelled"}, Go!CtxDone(why),
               why = "cancelled" => side = "server"
        PROVE  RaceInv'
    <2>1. /\ pc # "answered" /\ ctx' = why
          /\ UNCHANGED <<side, child, code, out, held, watched, interrupted, pc,
                         waitErr, answer>>
      BY <1>4 DEF Go!CtxDone, Go!Waiting
    <2>2. Go!TypeOK' BY <1>0, <2>1 DEF Go!TypeOK
    <2>3. Go!CompletedRunReturned' /\ Go!ReportedAsItEnded'
      BY <2>1 DEF Go!CompletedRunReturned, Go!ReportedAsItEnded
    <2> QED
      BY <1>4, <2>1, <2>2, <2>3 DEF RaceInv, Go!CodesAfter, Go!Envelopes
  <1>5. CASE Go!Interrupt
    <2>1. /\ pc # "answered" /\ interrupted' = TRUE
          /\ UNCHANGED <<side, child, code, out, held, ctx, watched, pc, waitErr, answer>>
      BY <1>5 DEF Go!Interrupt, Go!Waiting
    <2>2. Go!TypeOK' BY <1>0, <2>1 DEF Go!TypeOK
    <2>3. Go!CompletedRunReturned' /\ Go!ReportedAsItEnded'
      BY <2>1 DEF Go!CompletedRunReturned, Go!ReportedAsItEnded
    <2> QED BY <2>1, <2>2, <2>3 DEF RaceInv, Go!CodesAfter, Go!Envelopes
  <1>6. ASSUME held' \in BOOLEAN,
               UNCHANGED <<side, child, code, out, ctx, watched, interrupted, pc,
                           waitErr, answer>>
        PROVE  RaceInv'
    <2>1. Go!TypeOK' BY <1>0, <1>6 DEF Go!TypeOK
    <2>2. Go!CompletedRunReturned' /\ Go!ReportedAsItEnded'
      BY <1>6
      DEF RaceInv, Go!CompletedRunReturned, Go!ReportedAsItEnded, Go!DeadlineFired
    <2> QED BY <1>6, <2>1, <2>2 DEF RaceInv, Go!CodesAfter, Go!Envelopes
  <1>7. CASE Go!DescendantEnds BY <1>6, <1>7 DEF Go!DescendantEnds
  <1>8. CASE UNCHANGED invocation BY <1>0, <1>6, <1>8 DEF invocation, Go!TypeOK
  <1>9. CASE Go!Cancel
    <2>1. CASE child = "running"
      <3>1. Go!Ends(-1) /\ watched' \in BOOLEAN /\ ctx # "live"
        BY <1>9, <2>1 DEF Go!Cancel
      <3> QED BY <3>1, RaceEnds
    <2>2. CASE child # "running"
      <3>1. /\ pc = "wait" /\ ctx # "live" /\ watched' = TRUE
            /\ UNCHANGED <<side, child, code, out, held, ctx, interrupted, pc,
                           waitErr, answer>>
        BY <1>9, <2>2 DEF Go!Cancel
      <3>2. Go!TypeOK' BY <1>0, <3>1 DEF Go!TypeOK
      <3>3. Go!CompletedRunReturned' /\ Go!ReportedAsItEnded'
        BY <3>1 DEF Go!CompletedRunReturned, Go!ReportedAsItEnded
      <3> QED BY <3>1, <3>2, <3>3 DEF RaceInv, Go!CodesAfter, Go!Envelopes
    <2> QED BY <2>1, <2>2
  <1>10. CASE Go!Reap \/ Go!DrainEnds
    <2>1. /\ pc' \in {"drain", "judge"} /\ child' = "reaped"
          /\ waitErr' \in {"none", "exit", "ctx", "delay"}
          /\ waitErr' = "exit" <=> code # 0
          /\ waitErr' = "ctx" => ctx # "live"
          /\ UNCHANGED <<side, code, out, held, ctx, watched, interrupted, answer>>
      BY <1>0, <1>10 DEF RaceInv, Go!Reap, Go!DrainEnds, Go!TypeOK
    <2>2. Go!TypeOK' BY <1>0, <2>1 DEF Go!TypeOK
    <2>3. Go!CompletedRunReturned' /\ Go!ReportedAsItEnded'
      BY <2>1 DEF Go!CompletedRunReturned, Go!ReportedAsItEnded
    <2>4. child # "running" BY <1>10 DEF RaceInv, Go!Reap, Go!DrainEnds
    <2> QED BY <2>1, <2>2, <2>3, <2>4 DEF RaceInv, Go!CodesAfter, Go!Envelopes
  <1>11. CASE Go!Judge
    <2>1. /\ pc = "judge" /\ pc' = "answered"
          /\ UNCHANGED <<side, child, code, out, held, ctx, watched, interrupted, waitErr>>
      BY <1>11 DEF Go!Judge
    <2>2. Go!TypeOK' BY <1>0, <2>1 DEF Go!TypeOK
    <2>3. /\ Go!CompletedRunReturned' /\ Go!ReportedAsItEnded'
          /\ answer'.code \in {0, 1} => answer'.kind = "result"
      BY <1>11, JudgedRight
    <2> QED BY <2>1, <2>2, <2>3 DEF RaceInv, Go!CodesAfter, Go!Envelopes
  <1> QED
    BY <1>1, <1>2, <1>3, <1>4, <1>5, <1>7, <1>8, <1>9, <1>10, <1>11
    DEF Go!JobCancelled, Go!DeadlineFires, Go!ParentWork

-----------------------------------------------------------------------------
(* What the step has reported.                                             *)

AtWork == {"generate", "build", "up", "run", "remove", "cleanup", "judge", "save"}

\* Each finding reported so far is one of the population, told as its row says.
ToldSoFar ==
    \A f \in DOMAIN reported :
        /\ f \in population
        /\ IF reported[f] = "skipped" THEN ~Tested(f) ELSE reported[f] = rows[f]

ResultInv ==
    /\ rows \in [Findings -> Statuses \cup {NoRow}] /\ population \subseteq Findings
    /\ status \in Statuses /\ step \in Steps
    /\ step \in AtWork \cup {"loop", "returned"} => ToldSoFar
    /\ step \in AtWork => current \in population \ DOMAIN reported
    /\ step = "returned" => DOMAIN reported = population /\ results = reported

\* Everything the step, or its end, may do.
TestStep ==
    \/ \E S \in Populations, U \in Untestable : BeginTests(S, U)
    \/ Refuse \/ Testing \/ Interrupted \/ Gone \/ UNCHANGED testVars

LEMMA UnwindsTo ==
    ASSUME NEW why \in {"error", "interrupt"}, Unwind(why)
    PROVE  /\ step \in AtWork \cup {"loop"}
           /\ \/ step = "run" /\ step' = "remove"
              \/ step \in {"build", "up", "remove"} /\ step' = "cleanup"
              \/ step' \in {"interrupted", "raised"}
           /\ UNCHANGED <<rows, results, population, reported, current, status, compose>>
  <1>1. /\ step \in AtWork \cup {"loop"}
        /\ UNCHANGED <<rows, results, population, reported, current, status, compose>>
    BY DEF Unwind, AtWork, onDisk, scope, attempt
  <1>2. CASE step = "run"
    <2>1. step' = "remove" BY <1>2 DEF Unwind
    <2> QED BY <1>1, <1>2, <2>1
  <1>3. CASE step \in {"build", "up", "remove"}
    <2>1. step' = "cleanup" BY <1>3 DEF Unwind
    <2> QED BY <1>1, <1>3, <2>1
  <1>4. CASE step \notin {"build", "up", "run", "remove"}
    <2>1. step' \in {"interrupted", "raised"} BY <1>4 DEF Unwind
    <2> QED BY <1>1, <2>1
  <1> QED BY <1>2, <1>3, <1>4

LEMMA ResultStep == ASSUME ResultInv, TestStep PROVE ResultInv'
  <1>1. ASSUME NEW S \in Populations, NEW U \in Untestable, BeginTests(S, U)
        PROVE  ResultInv'
    <2>1. S \subseteq Findings BY DynamicAssumption
    <2>2. DOMAIN Nothing = {} BY DEF Nothing
    <2> QED
      BY <1>1, <2>1, <2>2
      DEF BeginTests, ResultInv, ToldSoFar, AtWork, Steps, attempt
  <1>2. CASE Refuse
    BY <1>2 DEF Refuse, ResultInv, AtWork, Steps, onDisk, scope, attempt
  <1>3. ASSUME NEW f \in Findings, Restore(f) \/ PassOver(f) PROVE ResultInv'
    <2>1. PICK v : /\ reported' = Entered(f, v)
                   /\ IF v = "skipped" THEN ~Tested(f) ELSE v = rows[f]
      BY <1>3 DEF Restore, PassOver, Tested, Passed
    <2>2. /\ step = "loop" /\ f \in population \ DOMAIN reported
          /\ UNCHANGED <<rows, results, population, step, current, status>>
      BY <1>3 DEF Restore, PassOver, onDisk, scope, attempt
    <2>3. /\ DOMAIN reported' = DOMAIN reported \cup {f} /\ reported'[f] = v
          /\ \A g \in DOMAIN reported : reported'[g] = reported[g]
      BY <2>1, <2>2 DEF Entered
    <2>4. ToldSoFar BY <2>2 DEF ResultInv
    <2>5. ToldSoFar'
      BY <2>1, <2>2, <2>3, <2>4 DEF ToldSoFar, Tested
    <2> QED BY <2>2, <2>5 DEF ResultInv, AtWork
  <1>4. ASSUME NEW f \in Findings, TakeUp(f) PROVE ResultInv'
    BY <1>4
    DEF TakeUp, ResultInv, ToldSoFar, Tested, AtWork, Steps, onDisk, scope, attempt
  <1>5. ASSUME step \in AtWork, step' \in AtWork, status' \in Statuses,
               UNCHANGED <<rows, population, reported, current>>
        PROVE  ResultInv'
    BY <1>5 DEF ResultInv, ToldSoFar, Tested, AtWork, Steps
  <1>6. ASSUME step' \in {"raised", "interrupted"}, UNCHANGED <<rows, population, status>>
        PROVE  ResultInv'
    BY <1>6 DEF ResultInv, AtWork, Steps
  <1>7. CASE (\E many \in BOOLEAN : Generate(many)) \/ GenerateFails \/ Build \/ Up
               \/ RunEnds \/ RunTimesOut \/ Remove \/ Judge
    <2>1. /\ step \in AtWork /\ step' \in AtWork /\ status' \in Statuses
          /\ UNCHANGED <<rows, population, reported, current>>
      BY <1>7
      DEF Generate, GenerateFails, Build, Up, RunEnds, RunTimesOut, Remove, Judge,
          ResultInv, AtWork, Statuses, onDisk, scope, attempt
    <2> QED BY <1>5, <2>1
  <1>8. CASE Cleanup \/ RegenerateRaises
    <2>1. /\ step \in AtWork /\ step' \in {"judge", "raised", "interrupted"}
          /\ UNCHANGED <<rows, population, reported, current, status>>
      BY <1>8 DEF Cleanup, RegenerateRaises, AtWork, onDisk, scope, attempt
    <2>2. CASE step' = "judge" BY <1>5, <2>1, <2>2 DEF ResultInv, AtWork
    <2>3. CASE step' # "judge" BY <1>6, <2>1, <2>3
    <2> QED BY <2>2, <2>3
  <1>9. CASE SaveRow
    <2>1. /\ step = "save" /\ step' = "loop"
          /\ current \in population \ DOMAIN reported /\ population \subseteq Findings
          /\ status \in Statuses
      BY <1>9 DEF SaveRow, ResultInv, AtWork
    <2>2. /\ rows' = [rows EXCEPT ![current] = status] /\ population' = population
          /\ reported' = Entered(current, status) /\ status' = "error"
      BY <1>9 DEF SaveRow, NoAttempt, scope
    <2>3. /\ DOMAIN reported' = DOMAIN reported \cup {current}
          /\ reported'[current] = status
          /\ \A g \in DOMAIN reported : reported'[g] = reported[g]
      BY <2>1, <2>2 DEF Entered
    <2>4. /\ rows' \in [Findings -> Statuses \cup {NoRow}] /\ rows'[current] = status
          /\ \A g \in DOMAIN reported : rows'[g] = rows[g]
      BY <2>1, <2>2 DEF ResultInv, ToldSoFar
    <2>5. ToldSoFar'
      BY <2>1, <2>2, <2>3, <2>4 DEF ResultInv, ToldSoFar, Tested, Statuses, AtWork
    <2> QED BY <2>1, <2>2, <2>4, <2>5 DEF ResultInv, AtWork, Steps, Statuses
  <1>10. CASE Publish
    BY <1>10
    DEF Publish, ResultInv, ToldSoFar, Tested, AtWork, Steps, scope, attempt
  <1>11. ASSUME NEW why \in {"error", "interrupt"}, Unwind(why) PROVE ResultInv'
    <2>1. CASE step \in AtWork /\ step' \in AtWork
      BY <1>5, <1>11, <2>1, UnwindsTo DEF ResultInv
    <2>2. CASE step' \in {"interrupted", "raised"} BY <1>6, <1>11, <2>2, UnwindsTo
    <2> QED BY <1>11, <2>1, <2>2, UnwindsTo DEF AtWork
  <1>12. CASE Gone
    BY <1>12 DEF Gone, NoAttempt, ResultInv, AtWork, Steps, Statuses, onDisk
  <1>13. CASE UNCHANGED testVars
    BY <1>13 DEF testVars, onDisk, scope, attempt, ResultInv, ToldSoFar, Tested
  <1>14. CASE DiskFails \/ Interrupted
    BY <1>11, <1>14 DEF DiskFails, Interrupted
  <1> QED
    BY <1>1, <1>2, <1>3, <1>4, <1>7, <1>8, <1>9, <1>10, <1>12, <1>13, <1>14
    DEF TestStep, Testing

-----------------------------------------------------------------------------
(* What the tests have left in the daemon.                                 *)

\* Only the executor of the finding under test has something left to take
\* down, and the last of its finally clauses only what it takes down itself.
TornInv ==
    /\ daemon \subseteq Resources /\ TornDown
    /\ step = "up" => compose
    /\ step = "cleanup" => daemon \subseteq excused \cup Cleaned

LEMMA OwnResources ==
    ASSUME daemon \subseteq Resources, NEW r \in daemon, r[1] = current
    PROVE  r \in {Of("container"), Of("image")}
  BY DEF Resources, Of

LEMMA OneTaken ==
    ASSUME NEW kind \in {"container", "image"}, current \in Findings
    PROVE  Of(kind) \in Resources /\ Of(kind)[1] = current
  BY DEF Of, Resources

LEMMA TornStep == ASSUME ResultInv, TornInv, TestStep PROVE TornInv'
  <1>1. daemon \subseteq Resources /\ TornDown BY DEF TornInv
  <1>2. step \in AtWork => current \in Findings BY DEF ResultInv
  <1>3. ASSUME UNCHANGED docker,
               step \notin {"up", "run", "remove", "cleanup"} \/ UNCHANGED current,
               step \in {"up", "run", "remove"} => step' \in {"up", "run", "remove"},
               step # "cleanup", step' \notin {"up", "cleanup"}
        PROVE  TornInv'
    BY <1>1, <1>3 DEF TornInv, TornDown, docker
  <1>4. CASE (\E S \in Populations, U \in Untestable : BeginTests(S, U)) \/ Refuse
    BY <1>3, <1>4 DEF BeginTests, Refuse, docker
  <1>5. CASE \E f \in Findings : Restore(f) \/ PassOver(f) \/ TakeUp(f)
    BY <1>3, <1>5 DEF Restore, PassOver, TakeUp
  <1>6. CASE (\E many \in BOOLEAN : Generate(many)) \/ GenerateFails \/ RegenerateRaises
    BY <1>3, <1>6 DEF Generate, GenerateFails, RegenerateRaises
  <1>7. CASE RunEnds \/ Judge \/ SaveRow \/ Publish
    <2>1. CASE RunEnds BY <1>3, <2>1 DEF RunEnds
    <2>2. CASE Judge \/ SaveRow \/ Publish BY <1>3, <2>2 DEF Judge, SaveRow, Publish
    <2> QED BY <1>7, <2>1, <2>2
  <1>8. CASE Build
    <2>1. /\ step = "build" /\ step' \in {"up", "run", "remove", "cleanup"}
          /\ UNCHANGED <<excused, current, compose>>
          /\ step' = "up" => compose
          /\ step' = "cleanup" => ~compose
          /\ daemon' \subseteq daemon \cup {Of("image")}
      BY <1>8 DEF Build
    <2>2. daemon \subseteq excused BY <1>1, <2>1 DEF TornDown
    <2>3. Of("image") \in Resources /\ Of("image")[1] = current
      BY <1>2, <2>1, OneTaken DEF AtWork
    <2>4. step' = "cleanup" => daemon' \subseteq excused' \cup Cleaned'
      BY <2>1, <2>2 DEF Cleaned, Of
    <2> QED BY <1>1, <2>1, <2>2, <2>3, <2>4 DEF TornInv, TornDown
  <1>9. CASE Up \/ RunTimesOut
    <2>1. /\ step \in {"up", "run"} /\ step' \in {"run", "remove"}
          /\ UNCHANGED <<excused, current>>
          /\ daemon' \subseteq daemon \cup {Of("container")}
      BY <1>9 DEF Up, RunTimesOut, Started, attempt
    <2>2. Of("container") \in Resources /\ Of("container")[1] = current
      BY <1>2, <2>1, OneTaken DEF AtWork
    <2> QED BY <1>1, <2>1, <2>2 DEF TornInv, TornDown
  <1>10. CASE Remove
    <2>1. /\ step = "remove" /\ step' = "cleanup" /\ Teardown(Removed)
          /\ UNCHANGED <<current, compose>>
      BY <1>10 DEF Remove, attempt
    <2>2. \A r \in daemon : r \in excused \/ r \in Removed \/ r \in Cleaned
      BY <1>1, <2>1, OwnResources DEF TornDown, Removed, Cleaned
    <2>3. daemon' \subseteq daemon /\ daemon' \subseteq excused' \cup Cleaned
      BY <2>1, <2>2 DEF Teardown
    <2>4. Cleaned' = Cleaned BY <2>1 DEF Cleaned, Of
    <2>5. \A r \in Cleaned : r[1] = current BY DEF Cleaned, Of
    <2> QED BY <1>1, <2>1, <2>3, <2>4, <2>5 DEF TornInv, TornDown
  <1>11. CASE Cleanup
    <2>1. /\ step = "cleanup" /\ step' \in {"judge", "interrupted", "raised"}
          /\ daemon \subseteq excused \cup Cleaned
      BY <1>11 DEF Cleanup, TornInv
    <2>2. daemon' \subseteq daemon /\ daemon' \subseteq excused'
      BY <1>11, <2>1 DEF Cleanup, Teardown
    <2> QED BY <1>1, <2>1, <2>2 DEF TornInv, TornDown
  <1>12. ASSUME NEW why \in {"error", "interrupt"}, Unwind(why) PROVE TornInv'
    <2>1. /\ step \in AtWork \cup {"loop"} /\ UNCHANGED <<current, compose>>
          /\ \/ step = "run" /\ step' = "remove"
             \/ step \in {"build", "up", "remove"} /\ step' = "cleanup"
             \/ step' \in {"interrupted", "raised"}
      BY <1>12, UnwindsTo
    <2>2. /\ daemon' \in {daemon, daemon \cup (IF step \in {"run", "up"} THEN {Of("container")} ELSE {})
                                         \cup (IF step = "build" THEN {Of("image")} ELSE {})}
          /\ excused' = excused \cup {r \in daemon' : r[1] = current /\
                           \/ compose /\ step \in {"build", "up", "remove"}
                           \/ step = "remove" /\ r[2] = "container"
                           \/ step = "cleanup"}
          /\ step' \in {"interrupted", "raised"} => step \notin {"build", "up", "run", "remove"}
      BY <1>12 DEF Unwind
    <2>3. daemon' \subseteq Resources
      BY <1>1, <1>2, <2>1, <2>2, OneTaken DEF AtWork
    <2>4. CASE step' = "remove"
      BY <1>1, <1>2, <2>1, <2>2, <2>3, <2>4, OneTaken DEF AtWork, TornInv, TornDown
    <2>5. CASE step' = "cleanup"
      <3>1. step \in {"build", "up", "remove"} BY <2>1, <2>5
      <3>2. ASSUME NEW r \in daemon', r \notin excused' PROVE r \in Cleaned
        <4>1. r[1] = current
          BY <1>1, <2>2, <3>1, <3>2 DEF TornDown, Of
        <4>2. ~compose /\ step # "up" BY <2>2, <3>1, <3>2, <4>1 DEF TornInv
        <4>3. r \in {Of("container"), Of("image")} BY <2>3, <4>1 DEF Resources, Of
        <4>4. r # Of("container")
          <5>1. CASE step = "remove" BY <2>2, <3>2, <4>1, <5>1 DEF Of
          <5>2. CASE step = "build"
            <6>1. daemon \subseteq excused BY <1>1, <5>2 DEF TornDown
            <6> QED BY <2>2, <3>2, <5>2, <6>1 DEF Of
          <5> QED BY <3>1, <4>2, <5>1, <5>2
        <4> QED BY <4>2, <4>3, <4>4 DEF Cleaned
      <3>3. Cleaned' = Cleaned BY <2>1 DEF Cleaned, Of
      <3>4. \A r \in Cleaned : r[1] = current BY DEF Cleaned, Of
      <3> QED BY <2>1, <2>3, <2>5, <3>2, <3>3, <3>4 DEF TornInv, TornDown
    <2>6. CASE step' \in {"interrupted", "raised"}
      <3>1. step \notin {"build", "up", "run", "remove"} BY <2>2, <2>6
      <3>2. daemon' = daemon BY <2>2, <3>1
      <3>3. \A r \in daemon : r \in excused \/ (r[1] = current /\ step = "cleanup")
        BY <1>1, <3>1 DEF TornDown
      <3>4. daemon' \subseteq excused' BY <2>2, <3>2, <3>3
      <3> QED BY <2>3, <2>6, <3>4 DEF TornInv, TornDown
    <2> QED BY <2>1, <2>4, <2>5, <2>6
  <1>13. CASE Gone
    BY <1>13 DEF Gone, TornInv, TornDown
  <1>14. CASE UNCHANGED testVars
    BY <1>14 DEF testVars, docker, attempt, TornInv, TornDown, Cleaned, Of
  <1>15. CASE DiskFails \/ Interrupted
    BY <1>12, <1>15 DEF DiskFails, Interrupted
  <1> QED
    BY <1>4, <1>5, <1>6, <1>7, <1>8, <1>9, <1>10, <1>11, <1>13, <1>14, <1>15
    DEF TestStep, Testing

-----------------------------------------------------------------------------
(* The engine and the parent together.                                     *)

ConfirmedResult == \E f \in DOMAIN results : results[f] = "confirmed"

\* The step is there while its process is; the envelope and the exit code are
\* of how it has ended.
LinkInv ==
    /\ command \in {"dynamic-test", "other"}
    /\ command = "other" \/ child # "running" => step = "away"
    /\ command = "dynamic-test" /\ child = "running" =>
          /\ out # "none" => step \in {"returned", "raised"}
          /\ out = "success" => step = "returned"
          /\ out = "error" => step = "raised"
    /\ command = "dynamic-test" /\ child # "running" /\ code \in {0, 1} =>
          (code = 1 <=> ConfirmedResult)

InvocationInv == RaceInv /\ ResultInv /\ TornInv /\ LinkInv

\* What the step does, it does while its process runs and has printed nothing.
LEMMA WorkLinked == ASSUME InvocationInv, Work PROVE InvocationInv'
  <1>1. /\ command = "dynamic-test" /\ child = "running" /\ UNCHANGED invocation
        /\ UNCHANGED command
        /\ \/ \E S \in Populations, U \in Untestable : BeginTests(S, U)
           \/ Refuse \/ Testing \/ Interrupted
    BY DEF Work, Ours
  <1>2. RaceInv' /\ ResultInv' /\ TornInv'
    BY <1>1, RaceStep, ResultStep, TornStep DEF InvocationInv, TestStep
  <1>3. step \notin {"returned", "raised", "interrupted"}
    BY <1>1, UnwindsTo
    DEF BeginTests, Refuse, Testing, Interrupted, DiskFails, AtWork, Restore, PassOver,
        TakeUp, Generate, GenerateFails, RegenerateRaises, Build, Up, RunEnds,
        RunTimesOut, Remove, Cleanup, Judge, SaveRow, Publish
  <1> QED
    BY <1>1, <1>2, <1>3 DEF InvocationInv, LinkInv, RaceInv, invocation

\* The engine's own end: the code is that of the envelope, and of the results.
LEMMA ExitsLinked == ASSUME InvocationInv, Exits PROVE InvocationInv'
  <1>0. /\ RaceInv /\ ResultInv /\ TornInv /\ LinkInv
        /\ UNCHANGED command
    BY DEF InvocationInv, Exits
  <1>1. CASE command = "dynamic-test"
    <2>1. /\ (step \in {"returned", "raised"} /\ Printed) \/ step = "interrupted"
          /\ Go!Ends(ExitCode) /\ UNCHANGED watched /\ Gone
      BY <1>1 DEF Exits
    <2>2. /\ child = "running" /\ child' = "ended" /\ code' = ExitCode /\ out' = out
      BY <2>1 DEF Go!Ends
    <2>3. /\ ExitCode \in -1..2
          /\ step = "returned" => ExitCode = IF Confirmed THEN 1 ELSE 0
          /\ step = "raised" => ExitCode = 2
          /\ step \notin {"returned", "raised"} => ExitCode = -1
      <3>1. CASE step = "returned" BY <3>1 DEF ExitCode
      <3>2. CASE step = "raised" BY <3>2 DEF ExitCode
      <3>3. CASE step \notin {"returned", "raised"} BY <3>3 DEF ExitCode
      <3> QED BY <3>1, <3>2, <3>3
    <2>4. ExitCode >= 0 /\ out \in Go!Envelopes => ExitCode \in Go!CodesAfter(out)
      BY <1>0, <1>1, <2>2, <2>3 DEF LinkInv, Go!Envelopes, Go!CodesAfter
    <2>5. watched' \in BOOLEAN /\ (watched' => ctx # "live")
      BY <1>0, <2>1 DEF RaceInv, Go!TypeOK
    <2>6. RaceInv' BY <1>0, <2>1, <2>3, <2>4, <2>5, RaceEnds
    <2>7. ResultInv' /\ TornInv' BY <1>0, <2>1, ResultStep, TornStep DEF TestStep
    <2>8. step = "returned" => (ExitCode = 1 <=> ConfirmedResult)
      BY <1>0, <2>3 DEF ResultInv, Confirmed, ConfirmedResult
    <2>9. ConfirmedResult' = ConfirmedResult /\ step' = "away"
      BY <2>1 DEF Gone, onDisk, ConfirmedResult
    <2>10. LinkInv'
      BY <1>0, <1>1, <2>2, <2>3, <2>8, <2>9 DEF LinkInv
    <2> QED BY <2>6, <2>7, <2>10 DEF InvocationInv
  <1>2. CASE command # "dynamic-test"
    <2>1. Go!ChildExits /\ UNCHANGED testVars BY <1>2 DEF Exits
    <2>2. RaceInv' BY <1>0, <2>1, RaceStep
    <2>3. ResultInv' /\ TornInv' BY <1>0, <2>1, ResultStep, TornStep DEF TestStep
    <2> QED
      BY <1>0, <1>2, <2>1, <2>2, <2>3 DEF InvocationInv, LinkInv, testVars
  <1> QED BY <1>1, <1>2

\* What kills the engine takes its step with it; the rest leaves both alone.
LEMMA EndsLinked ==
    ASSUME InvocationInv, RaceInv', UNCHANGED command,
           child' # child => (child' = "ended" /\ code' = -1) \/ child # "running",
           child' = child \/ child # "running" => code' = code,
           child' = "running" => child = "running" /\ out' = out,
           IF child = "running" /\ child' # "running" THEN Gone ELSE UNCHANGED testVars
    PROVE  InvocationInv'
  <1>0. RaceInv /\ ResultInv /\ TornInv /\ LinkInv BY DEF InvocationInv
  <1>1. ResultInv' /\ TornInv' BY <1>0, ResultStep, TornStep DEF TestStep
  <1>2. UNCHANGED results BY DEF Gone, testVars, onDisk
  <1>3. CASE child = "running" /\ child' # "running"
    <2>1. step' = "away" /\ code' = -1 BY <1>3 DEF Gone
    <2> QED BY <1>0, <1>1, <1>3, <2>1 DEF InvocationInv, LinkInv
  <1>4. CASE ~(child = "running" /\ child' # "running")
    <2>1. UNCHANGED <<step, code>> /\ (child' = "running" <=> child = "running")
      BY <1>4 DEF testVars
    <2> QED
      BY <1>0, <1>1, <1>2, <1>4, <2>1 DEF InvocationInv, LinkInv, ConfirmedResult
  <1> QED BY <1>3, <1>4

LEMMA NextLinked == ASSUME InvocationInv, NextCommand PROVE InvocationInv'
  <1>0. RaceInv /\ ResultInv /\ TornInv /\ LinkInv BY DEF InvocationInv
  <1>1. /\ pc = "answered" /\ child # "running" /\ step = "away"
        /\ UNCHANGED <<command, side, held, docker, step, current, compose, status, population>>
        /\ child' = "running" /\ code' = 0 /\ out' = "none" /\ ctx' = "live"
        /\ watched' = FALSE /\ interrupted' = FALSE /\ pc' = "wait" /\ waitErr' = "none"
        /\ rows' \in {rows, [f \in Findings |-> NoRow]}
    BY <1>0 DEF NextCommand, RaceInv, LinkInv, attempt, scope
  <1>2. RaceInv'
    <2>1. Go!TypeOK'
      <3>1. code' \in -1..2 BY <1>1
      <3>2. side' \in {"cli", "server"} /\ held' \in BOOLEAN
        BY <1>0, <1>1 DEF RaceInv, Go!TypeOK
      <3> QED BY <1>1, <3>1, <3>2, Zenon DEF Go!TypeOK
    <2>2. Go!CompletedRunReturned' /\ Go!ReportedAsItEnded'
      BY <1>1 DEF Go!CompletedRunReturned, Go!ReportedAsItEnded
    <2> QED BY <1>1, <2>1, <2>2 DEF RaceInv
  <1>3. ResultInv' BY <1>0, <1>1 DEF ResultInv, AtWork
  <1>4. TornInv' BY <1>0, <1>1 DEF TornInv, TornDown, docker
  <1> QED BY <1>0, <1>1, <1>2, <1>3, <1>4 DEF InvocationInv, LinkInv

LEMMA InvocationInit == CombinedInit => InvocationInv
  <1> SUFFICES ASSUME CombinedInit PROVE InvocationInv OBVIOUS
  <1>1. Go!Init /\ TestInit /\ command \in {"dynamic-test", "other"} BY DEF CombinedInit
  <1>2. RaceInv
    <2>1. Go!TypeOK
      <3>1. code \in -1..2 BY <1>1 DEF Go!Init
      <3> QED BY <1>1, <3>1, Zenon DEF Go!Init, Go!TypeOK
    <2>2. Go!CompletedRunReturned /\ Go!ReportedAsItEnded
      BY <1>1 DEF Go!Init, Go!CompletedRunReturned, Go!ReportedAsItEnded
    <2> QED BY <1>1, <2>1, <2>2 DEF Go!Init, RaceInv
  <1>3. ResultInv BY <1>1 DEF TestInit, ResultInv, AtWork, Steps, Statuses
  <1>4. TornInv BY <1>1 DEF TestInit, TornInv, TornDown
  <1>5. LinkInv BY <1>1 DEF Go!Init, TestInit, LinkInv
  <1> QED BY <1>2, <1>3, <1>4, <1>5 DEF InvocationInv

LEMMA InvocationStep == InvocationInv /\ [CombinedNext]_allVars => InvocationInv'
  <1> SUFFICES ASSUME InvocationInv, [CombinedNext]_allVars PROVE InvocationInv'
    OBVIOUS
  <1>0. RaceInv /\ LinkInv BY DEF InvocationInv
  <1>1. CASE NextCommand BY <1>1, NextLinked
  <1>2. CASE Work BY <1>2, WorkLinked
  <1>3. CASE Exits BY <1>3, ExitsLinked
  <1>4. CASE Prints
    <2>1. /\ Go!PrintEnvelope /\ UNCHANGED <<testVars, command>>
          /\ command = "dynamic-test" =>
                /\ out = "none" => step \in {"returned", "raised"}
                /\ out # "none" /\ out' = "success" => step = "returned"
                /\ out # "none" /\ out' # "success" => step = "raised"
      BY <1>4 DEF Prints
    <2>2. RaceInv' BY <1>0, <2>1, RaceStep
    <2>3. ResultInv' /\ TornInv'
      BY <2>1, ResultStep, TornStep DEF InvocationInv, TestStep
    <2>4. /\ child = "running" /\ UNCHANGED <<child, code, step>>
          /\ \/ out = "none" /\ out' = "part"
             \/ out = "part" /\ out' \in {"success", "error"}
      <3>1. child = "running" /\ UNCHANGED <<child, code, step>>
        BY <2>1 DEF Go!PrintEnvelope, testVars
      <3>2. CASE out = "none"
        <4>1. out' \in {"part"} BY <2>1, <3>2 DEF Go!PrintEnvelope
        <4> QED BY <3>1, <3>2, <4>1
      <3>3. CASE out = "part" BY <2>1, <3>1, <3>3 DEF Go!PrintEnvelope, Go!Envelopes
      <3>4. CASE out \notin {"none", "part"} BY <2>1, <3>4 DEF Go!PrintEnvelope
      <3> QED BY <3>2, <3>3, <3>4
    <2> QED BY <1>0, <2>1, <2>2, <2>3, <2>4 DEF InvocationInv, LinkInv
  <1>5. CASE Dies
    <2>1. /\ RaceInv' /\ AndTheStep /\ child = "running" /\ child' = "ended" /\ code' = -1
      BY <1>0, <1>5, RaceStep DEF Dies, Go!ChildDies, Go!ForceKill, Go!Ends
    <2> QED BY <2>1, EndsLinked DEF AndTheStep
  <1>6. CASE Events \/ DeadlineFires
    <2>1. RaceInv' BY <1>0, <1>6, RaceStep DEF Events, DeadlineFires
    <2>2. UNCHANGED <<testVars, command, child, code, out>>
      BY <1>6
      DEF Events, DeadlineFires, Go!JobCancelled, Go!DeadlineFires, Go!CtxDone,
          Go!Interrupt, Go!DescendantEnds
    <2> QED BY <2>1, <2>2, EndsLinked
  <1>7. CASE ParentWork
    <2>1. RaceInv' /\ AndTheStep BY <1>0, <1>7, RaceStep DEF ParentWork
    <2>2. /\ child' # child => (child' = "ended" /\ code' = -1) \/ child # "running"
          /\ child' = child \/ child # "running" => code' = code
          /\ child' = "running" => child = "running" /\ out' = out
      BY <1>7
      DEF ParentWork, Go!ParentWork, Go!Cancel, Go!Ends, Go!Reap, Go!DrainEnds, Go!Judge
    <2> QED BY <2>1, <2>2, EndsLinked DEF AndTheStep
  <1>8. CASE UNCHANGED allVars
    <2>1. UNCHANGED <<testVars, invocation, command>> BY <1>8 DEF allVars
    <2>2. RaceInv' BY <1>0, <2>1, RaceStep
    <2> QED BY <2>1, <2>2, EndsLinked DEF invocation
  <1> QED
    BY <1>1, <1>2, <1>3, <1>4, <1>5, <1>6, <1>7, <1>8 DEF CombinedNext

LEMMA InvocationAlways == FairSpec => []InvocationInv
  <1>1. FairSpec => CombinedInit /\ [][CombinedNext]_allVars
    BY PTL DEF FairSpec
  <1> QED BY <1>1, InvocationInit, InvocationStep, PTL

-----------------------------------------------------------------------------
\* What the command line and the server answer, through every race of the
\* engine's end with the deadline, an interrupt, a kill, a cancellation and a
\* descendant on its pipes, is how the engine has ended and what it has printed;
\* for the dynamic tests, what the rows of their findings say.
THEOREM ReportedRight == FairSpec => []RunReported
  <1>1. InvocationInv => RunReported
    <2> SUFFICES ASSUME InvocationInv PROVE RunReported OBVIOUS
    <2>0. RaceInv /\ ResultInv /\ LinkInv BY DEF InvocationInv
    <2>1. ResultsTell
      BY <2>0 DEF ResultInv, ToldSoFar, ResultsTell
    <2>2. ASSUME pc = "answered", command = "dynamic-test", answer.code \in {0, 1}
          PROVE  answer.code = 1 <=> \E f \in DOMAIN results : results[f] = "confirmed"
      <3>1. code = answer.code /\ child # "running"
        BY <2>0, <2>2 DEF RaceInv, Go!ReportedAsItEnded
      <3> QED BY <2>0, <2>2, <3>1 DEF LinkInv, ConfirmedResult
    <2> QED BY <2>0, <2>1, <2>2 DEF RunReported, VerdictsTold, RaceInv
  <1> QED BY <1>1, InvocationAlways, PTL

\* run_single_container and the compose path: on whichever path a test ends, its
\* container and its image are gone, but for what the daemon refused and what an
\* interrupt took out of the process's hands.
THEOREM TestsTornDown == FairSpec => []TornDown
  <1>1. InvocationInv => TornDown BY DEF InvocationInv, TornInv
  <1> QED BY <1>1, InvocationAlways, PTL
==============================================================================
