-------------------------- MODULE VerifyStep_proofs --------------------------
(***************************************************************************)
(* What the analyze and verify steps say they spent and did is true, for   *)
(* any units, populations, prices, threads and number of runs.  The        *)
(* ledgers: what is on disk, or about to be, is paid for, and the tracker  *)
(* holds what this process has paid.  The accounts of the verify step:     *)
(* what its summary counts is what the main thread has consumed, row by    *)
(* row.                                                                    *)
(*                                                                         *)
(* The library defines a sum over a set by recursion.  It is shown here to *)
(* be the size of a set, that of the coins paid for each element; what is  *)
(* said of sums then follows from what is known of sizes.                  *)
(***************************************************************************)
EXTENDS VerifyStep, FiniteSetTheorems, WellFoundedInduction, TLAPS

Rows  == [kind : Kinds \cup VerifyKinds, usage : Nat]
Table == [Units -> Rows \cup {NoRow}]
Cost(r) == IF r = NoRow THEN 0 ELSE r.usage

-----------------------------------------------------------------------------
(* Sums.                                                                   *)

LEMMA Least == ASSUME NEW S, S \subseteq Nat, S # {}
               PROVE  \E n \in S : \A m \in S : n <= m
  <1> DEFINE R == OpToRel(<, Nat)
  <1>1. IsWellFoundedOn(R, Nat) BY NatLessThanWellFounded
  <1>2. \E n \in S : \A m \in S : <<m, n>> \notin R
    <2> HIDE DEF R
    <2> QED BY <1>1, WFMin
  <1>3. PICK n \in S : \A m \in S : <<m, n>> \notin R BY <1>2
  <1>4. \A m \in S : ~(m < n) BY <1>3 DEF OpToRel
  <1> HIDE DEF R
  <1>5. \A m \in S : n <= m BY <1>4
  <1> QED BY <1>5

\* What is paid for the elements of a set, coin by coin.
Price(rows, u) == {u} \X (1..rows[u].usage)
Coins(rows, S) == UNION {Price(rows, u) : u \in S}

LEMMA PriceIs ==
    ASSUME NEW rows, NEW u, rows[u].usage \in Nat
    PROVE  IsFiniteSet(Price(rows, u)) /\ Cardinality(Price(rows, u)) = rows[u].usage
  <1> DEFINE n == rows[u].usage
  <1>0. n \in Nat /\ Price(rows, u) = {u} \X (1..n) BY DEF Price
  <1> HIDE DEF n
  <1>1. IsFiniteSet(1..n) /\ Cardinality(1..n) = n
    <2>1. 1 \in Int /\ n \in Int BY <1>0
    <2>2. IsFiniteSet(1..n) /\ Cardinality(1..n) = IF 1 > n THEN 0 ELSE n - 1 + 1
      BY <2>1, FS_Interval
    <2> QED BY <1>0, <2>2
  <1>2. IsFiniteSet({u}) /\ Cardinality({u}) = 1 BY FS_Singleton
  <1>3. /\ IsFiniteSet({u} \X (1..n))
        /\ Cardinality({u} \X (1..n)) = Cardinality({u}) * Cardinality(1..n)
    BY <1>1, <1>2, FS_Product
  <1> QED BY <1>0, <1>1, <1>2, <1>3 DEF n

LEMMA CoinsFinite ==
    ASSUME NEW rows, NEW S, IsFiniteSet(S), \A u \in S : rows[u].usage \in Nat
    PROVE  IsFiniteSet(Coins(rows, S)) /\ Cardinality(Coins(rows, S)) \in Nat
  <1> DEFINE T == {Price(rows, u) : u \in S}
             f == [u \in S |-> Price(rows, u)]
  <1>1. f \in Surjection(S, T) BY DEF Surjection
  <1>2. IsFiniteSet(T) BY <1>1, FS_Surjection
  <1>3. \A p \in T : IsFiniteSet(p) BY PriceIs
  <1> QED BY <1>2, <1>3, FS_UNION, FS_CardinalityType DEF Coins

LEMMA CoinsSplit ==
    ASSUME NEW rows, NEW S, IsFiniteSet(S), \A u \in S : rows[u].usage \in Nat, NEW x \in S
    PROVE  Cardinality(Coins(rows, S)) = rows[x].usage + Cardinality(Coins(rows, S \ {x}))
  <1>1. IsFiniteSet(S \ {x}) BY FS_RemoveElement
  <1>2. /\ IsFiniteSet(Coins(rows, S \ {x})) /\ Cardinality(Coins(rows, S \ {x})) \in Nat
        /\ IsFiniteSet(Price(rows, x)) /\ Cardinality(Price(rows, x)) = rows[x].usage
    BY <1>1, CoinsFinite, PriceIs
  <1>3. Coins(rows, S) = Price(rows, x) \cup Coins(rows, S \ {x}) BY DEF Coins
  <1>4. Price(rows, x) \cap Coins(rows, S \ {x}) = {}
    <2>1. ASSUME NEW u, NEW c \in Price(rows, u) PROVE c[1] = u
      <3> DEFINE T == 1..rows[u].usage
      <3> HIDE DEF T
      <3>1. c \in {u} \X T BY DEF Price, T
      <3> QED BY <3>1
    <2>2. \A c \in Coins(rows, S \ {x}) : c[1] # x BY <2>1 DEF Coins
    <2> QED BY <2>1, <2>2
  <1>5. Cardinality(Price(rows, x) \cap Coins(rows, S \ {x})) = 0 BY <1>4, FS_EmptySet
  <1>6. Cardinality(Price(rows, x) \cup Coins(rows, S \ {x}))
          = Cardinality(Price(rows, x)) + Cardinality(Coins(rows, S \ {x}))
              - Cardinality(Price(rows, x) \cap Coins(rows, S \ {x}))
    BY <1>2, FS_Union
  <1> QED BY <1>2, <1>3, <1>5, <1>6

Adds(f, rows, S) ==
    f = [s \in SUBSET S |-> IF s = {} THEN 0
                            ELSE LET x == CHOOSE x \in s : TRUE
                                 IN  rows[x].usage + f[s \ {x}]]

LEMMA SumIs ==
    ASSUME NEW rows, NEW S
    PROVE  MapThenSumSet(LAMBDA u : rows[u].usage, S) = (CHOOSE f : Adds(f, rows, S))[S]
  BY DEF MapThenSumSet, MapThenFoldSet, Adds


\* The recursion has the sizes for its solution,
LEMMA SizesAdd ==
    ASSUME NEW rows, NEW S, IsFiniteSet(S), \A u \in S : rows[u].usage \in Nat
    PROVE  Adds([s \in SUBSET S |-> Cardinality(Coins(rows, s))], rows, S)
  <1> DEFINE f == [s \in SUBSET S |-> Cardinality(Coins(rows, s))]
  <1>1. ASSUME NEW s \in SUBSET S
        PROVE  f[s] = IF s = {} THEN 0
                      ELSE LET x == CHOOSE x \in s : TRUE IN rows[x].usage + f[s \ {x}]
    <2>1. CASE s = {}
      <3>1. Coins(rows, {}) = {} BY DEF Coins
      <3> QED BY <2>1, <3>1, FS_EmptySet
    <2>2. CASE s # {}
      <3> DEFINE x == CHOOSE x \in s : TRUE
      <3>1. x \in s /\ s \ {x} \in SUBSET S BY <2>2
      <3>2. IsFiniteSet(s) BY FS_Subset
      <3> HIDE DEF x
      <3>3. f[s] = rows[x].usage + f[s \ {x}] BY <3>1, <3>2, CoinsSplit
      <3> HIDE DEF f
      <3> QED BY <2>2, <3>3 DEF x
    <2> QED BY <2>1, <2>2
  <1> HIDE DEF f
  <1>2. f = [s \in SUBSET S |-> f[s]] BY DEF f
  <1> QED BY <1>1, <1>2 DEF Adds, f

\* and no other.
LEMMA AddsOnce ==
    ASSUME NEW rows, NEW S, IsFiniteSet(S), NEW f, Adds(f, rows, S), NEW g, Adds(g, rows, S)
    PROVE  f[S] = g[S]
  <1> DEFINE Wrong == {s \in SUBSET S : f[s] # g[s]}
             sizes == {n \in Nat : \E s \in Wrong : Cardinality(s) = n}
  <1>1. \A s \in SUBSET S : IsFiniteSet(s) /\ Cardinality(s) \in Nat
    BY FS_Subset, FS_CardinalityType
  <1> SUFFICES ASSUME S \in Wrong PROVE FALSE OBVIOUS
  <1>2. sizes # {} BY <1>1
  <1>3. PICK n \in sizes : \A m \in sizes : n <= m
    <2> HIDE DEF Wrong
    <2> QED BY <1>2, Least
  <1>4. PICK s \in Wrong : Cardinality(s) = n BY <1>3
  <1>5. /\ f[s] = IF s = {} THEN 0
                  ELSE LET x == CHOOSE x \in s : TRUE IN rows[x].usage + f[s \ {x}]
        /\ g[s] = IF s = {} THEN 0
                  ELSE LET x == CHOOSE x \in s : TRUE IN rows[x].usage + g[s \ {x}]
    BY DEF Adds
  <1>6. s # {} BY <1>5
  <1> DEFINE x == CHOOSE x \in s : TRUE
  <1>7. x \in s BY <1>6
  <1>8. f[s] = rows[x].usage + f[s \ {x}] /\ g[s] = rows[x].usage + g[s \ {x}]
    BY <1>5, <1>6
  <1> HIDE DEF x
  <1>9. s \ {x} \in Wrong BY <1>8
  <1>10. Cardinality(s \ {x}) = n - 1 BY <1>1, <1>4, <1>7, FS_RemoveElement
  <1>11. n - 1 \in sizes BY <1>1, <1>9, <1>10
  <1> QED BY <1>3, <1>11

LEMMA SumIsSize ==
    ASSUME NEW rows, NEW S, IsFiniteSet(S), \A u \in S : rows[u].usage \in Nat
    PROVE  MapThenSumSet(LAMBDA u : rows[u].usage, S) = Cardinality(Coins(rows, S))
  <1> DEFINE g == CHOOSE f : Adds(f, rows, S)
             h == [s \in SUBSET S |-> Cardinality(Coins(rows, s))]
  <1>1. Adds(h, rows, S) BY SizesAdd
  <1>2. Adds(g, rows, S) BY <1>1
  <1>3. h[S] = Cardinality(Coins(rows, S)) OBVIOUS
  <1>4. MapThenSumSet(LAMBDA u : rows[u].usage, S) = g[S] BY SumIs
  <1> HIDE DEF g, h
  <1>5. g[S] = h[S] BY <1>1, <1>2, AddsOnce
  <1> QED BY <1>3, <1>4, <1>5
LEMMA UsageIs ==
    ASSUME NEW rows \in Table, NEW S \in SUBSET Units
    PROVE  LET paid == {u \in S : rows[u] # NoRow}
           IN  /\ Usage(rows, S) = Cardinality(Coins(rows, paid))
               /\ IsFiniteSet(paid) /\ IsFiniteSet(Coins(rows, paid))
               /\ \A u \in paid : rows[u].usage \in Nat
  <1> DEFINE paid == {u \in S : rows[u] # NoRow}
  <1>1. IsFiniteSet(paid) BY LedgerAssumption, FS_Subset
  <1>2. \A u \in paid : rows[u].usage \in Nat BY DEF Table, Rows
  <1>3. MapThenSumSet(LAMBDA u : rows[u].usage, paid) = Cardinality(Coins(rows, paid))
    <2> HIDE DEF paid
    <2> QED BY <1>1, <1>2, SumIsSize
  <1>4. IsFiniteSet(Coins(rows, paid))
    <2> HIDE DEF paid
    <2> QED BY <1>1, <1>2, CoinsFinite
  <1> QED BY <1>1, <1>2, <1>3, <1>4 DEF Usage

LEMMA UsageType ==
    ASSUME NEW rows \in Table, NEW S \in SUBSET Units
    PROVE  Usage(rows, S) \in Nat
  BY UsageIs, FS_CardinalityType

LEMMA CostType == ASSUME NEW r \in Rows \cup {NoRow} PROVE Cost(r) \in Nat
  BY DEF Cost, Rows

LEMMA UsageNone == ASSUME NEW rows \in Table PROVE Usage(rows, {}) = 0
  <1>1. Coins(rows, {}) = {} BY DEF Coins
  <1>2. Usage(rows, {}) = Cardinality(Coins(rows, {u \in {} : rows[u] # NoRow})) BY UsageIs
  <1>3. {u \in {} : rows[u] # NoRow} = {} OBVIOUS
  <1> QED BY <1>1, <1>2, <1>3, FS_EmptySet

LEMMA UsageSame ==
    ASSUME NEW rows \in Table, NEW other \in Table, NEW S \in SUBSET Units,
           \A u \in S : rows[u] = other[u]
    PROVE  Usage(rows, S) = Usage(other, S)
  <1>1. {u \in S : rows[u] # NoRow} = {u \in S : other[u] # NoRow} OBVIOUS
  <1> DEFINE paid == {u \in S : rows[u] # NoRow}
  <1>2. \A u \in paid : Price(rows, u) = Price(other, u) BY DEF Price
  <1>3. Coins(rows, paid) = Coins(other, paid)
    <2> HIDE DEF paid
    <2>1. {Price(rows, u) : u \in paid} = {Price(other, u) : u \in paid} BY <1>2
    <2> QED BY <2>1 DEF Coins
  <1> QED BY <1>1, <1>3, UsageIs

LEMMA UsageSplit ==
    ASSUME NEW rows \in Table, NEW S \in SUBSET Units, NEW x \in S
    PROVE  Usage(rows, S) = Cost(rows[x]) + Usage(rows, S \ {x})
  <1> DEFINE paid == {u \in S : rows[u] # NoRow}
             rest == {u \in S \ {x} : rows[u] # NoRow}
  <1>1. S \ {x} \in SUBSET Units OBVIOUS
  <1>2. /\ Usage(rows, S) = Cardinality(Coins(rows, paid)) /\ IsFiniteSet(paid)
        /\ \A u \in paid : rows[u].usage \in Nat
        /\ Usage(rows, S \ {x}) = Cardinality(Coins(rows, rest))
    BY <1>1, UsageIs
  <1>3. CASE rows[x] = NoRow
    <2>1. rest = paid BY <1>3
    <2>2. Usage(rows, S) \in Nat BY UsageType
    <2> HIDE DEF paid, rest
    <2> QED BY <1>2, <1>3, <2>1, <2>2 DEF Cost
  <1>4. CASE rows[x] # NoRow
    <2>1. rest = paid \ {x} /\ x \in paid BY <1>4
    <2> HIDE DEF paid, rest
    <2>2. Cardinality(Coins(rows, paid)) = rows[x].usage + Cardinality(Coins(rows, paid \ {x}))
      BY <1>2, <2>1, CoinsSplit
    <2> QED BY <1>2, <1>4, <2>1, <2>2 DEF Cost
  <1> QED BY <1>3, <1>4

\* A row is replaced.
LEMMA UsagePut ==
    ASSUME NEW rows \in Table, NEW S \in SUBSET Units, NEW x \in S,
           NEW r \in Rows \cup {NoRow}, NEW other, other = [rows EXCEPT ![x] = r]
    PROVE  /\ other \in Table /\ Usage(rows, S) \in Nat
           /\ Usage(other, S) + Cost(rows[x]) = Usage(rows, S) + Cost(r)
           /\ Usage(other, S) <= Usage(rows, S) + Cost(r)
  <1>1. other \in Table /\ other[x] = r /\ \A u \in S \ {x} : other[u] = rows[u]
    BY DEF Table
  <1>2. S \ {x} \in SUBSET Units OBVIOUS
  <1>3. Usage(other, S \ {x}) = Usage(rows, S \ {x}) BY <1>1, <1>2, UsageSame
  <1>4. /\ Usage(rows, S) = Cost(rows[x]) + Usage(rows, S \ {x})
        /\ Usage(other, S) = Cost(r) + Usage(other, S \ {x})
    <2>1. Usage(rows, S) = Cost(rows[x]) + Usage(rows, S \ {x}) BY UsageSplit
    <2>2. Usage(other, S) = Cost(other[x]) + Usage(other, S \ {x}) BY <1>1, UsageSplit
    <2> QED BY <1>1, <2>1, <2>2
  <1>5. /\ Usage(rows, S \ {x}) \in Nat /\ Usage(rows, S) \in Nat
        /\ Cost(r) \in Nat /\ Cost(rows[x]) \in Nat
    <2>1. rows[x] \in Rows \cup {NoRow} BY DEF Table
    <2> QED BY <1>2, <2>1, UsageType, CostType
  <1> QED BY <1>1, <1>3, <1>4, <1>5

\* A row out of a set is replaced, and joins the set.
LEMMA UsageJoin ==
    ASSUME NEW rows \in Table, NEW other \in Table, NEW T \in SUBSET Units, NEW x \in T,
           \A u \in T \ {x} : other[u] = rows[u]
    PROVE  Usage(other, T) = Usage(rows, T \ {x}) + Cost(other[x])
  <1>1. T \ {x} \in SUBSET Units OBVIOUS
  <1>2. Usage(other, T \ {x}) = Usage(rows, T \ {x}) BY <1>1, UsageSame
  <1>3. Usage(other, T) = Cost(other[x]) + Usage(other, T \ {x}) BY UsageSplit
  <1>4. Usage(rows, T \ {x}) \in Nat BY <1>1, UsageType
  <1>5. Cost(other[x]) \in Nat
    <2>1. other[x] \in Rows \cup {NoRow} BY DEF Table
    <2> QED BY <2>1, CostType
  <1> QED BY <1>2, <1>3, <1>4, <1>5

LEMMA UsageMonotone ==
    ASSUME NEW rows \in Table, NEW S \in SUBSET Units, NEW T \in SUBSET S
    PROVE  Usage(rows, T) <= Usage(rows, S)
  <1>1. T \in SUBSET Units OBVIOUS
  <1> DEFINE paid(X) == {u \in X : rows[u] # NoRow}
  <1>2. Coins(rows, paid(T)) \subseteq Coins(rows, paid(S)) BY DEF Coins
  <1>3. /\ Usage(rows, S) = Cardinality(Coins(rows, paid(S)))
        /\ IsFiniteSet(Coins(rows, paid(S)))
        /\ Usage(rows, T) = Cardinality(Coins(rows, paid(T)))
    BY <1>1, UsageIs
  <1> QED BY <1>2, <1>3, FS_Subset

-----------------------------------------------------------------------------
(* The invariant.                                                          *)

Amounts == /\ tracker \in Nat /\ summaryCost \in Nat /\ spent \in Nat /\ baseline \in Nat

LedgerTypes ==
    /\ ckpt \in Table /\ held \in Table /\ verified \in Table /\ answer \in Table
    /\ pc \in {"idle", "seed", "detect", "retry", "summed", "done"}
    /\ vpc \in {"none", "pool", "interrupted", "failed", "done", "checked"}
    /\ scope \subseteq Units /\ batch \subseteq Units
    /\ stage \in [Units -> {"out", "adopted", "queued", "called", "saved", "counted",
                            "retried", "done"}]
    /\ vstage \in [Units -> {"out", "restored", "queued", "asked", "answered", "saved",
                             "counted"}]
    /\ Amounts
    /\ vsummary \in [completed : Nat, incomplete : Nat, errors : Nat, usage : Nat]

\* Answers that are paid for and not on disk yet, or not in the summary.
Unsaved    == {u \in Units : stage[u] \in {"called", "retried"}}
Uncounted  == {u \in Units : stage[u] \in {"called", "saved"}}
Unstored   == {u \in Units : vstage[u] = "answered"}
Unconsumed == {u \in Units : vstage[u] \in {"answered", "saved"}}

\* How far the units of the analyze step are.
Staged ==
    /\ pc = "idle" => scope = {}
    /\ pc \in {"idle", "seed"} => stage = AllOut /\ tracker = 0 /\ summaryCost = 0
    /\ pc = "detect" => \A u \in Units : stage[u] \notin {"retried", "done"}
    /\ pc \in {"retry", "summed", "done"} =>
          \A u \in Units : stage[u] \notin {"queued", "called", "saved"}
    /\ pc \in {"summed", "done"} => \A u \in Units : stage[u] # "retried"
    /\ \A u \in Units : stage[u] # "out" => u \in scope
    /\ \A u \in Units : stage[u] \in {"called", "saved", "counted", "retried"} =>
          held[u] # NoRow
    /\ vpc # "none" => pc = "done"

\* What is on disk, or about to be, is paid for; and what the tracker says.
Paid ==
    /\ Usage(ckpt, Units) + Usage(held, Unsaved) + Usage(verified, Units)
         + Usage(answer, Unstored) <= spent
    /\ tracker <= spent
    /\ vpc = "none" => tracker + Usage(verified, Units) <= spent
    /\ pc \in {"detect", "retry", "summed"} =>
          tracker = summaryCost + Usage(held, Uncounted)
    /\ pc \in {"detect", "retry", "summed", "done"} =>
          Usage(ckpt, scope) + Usage(held, Unsaved) <= tracker
    /\ summaryCost <= tracker

\* How far the findings of the verify step are.
Batched ==
    /\ vpc = "none" => /\ batch = {} /\ vstage = AllOut /\ answer = NoRows
                       /\ vsummary = Blank /\ baseline = 0
    /\ \A u \in Units :
          /\ vstage[u] = "out" <=> u \notin batch
          /\ vstage[u] \in {"answered", "saved", "counted"} <=> answer[u] # NoRow
          /\ answer[u] # NoRow => answer[u].kind \in VerifyKinds
          /\ vstage[u] \in {"saved", "counted"} => verified[u] = answer[u]
          /\ vstage[u] = "restored" =>
                verified[u] # NoRow /\ verified[u].kind \in {"verdict", "incomplete"}
    /\ vpc \in {"done", "checked"} => \A u \in batch : vstage[u] \in {"restored", "counted"}

\* The findings whose rows are in the summary, by what their rows say.
Consumed(kind) ==
    {u \in batch : vstage[u] \in {"restored", "counted"} /\ verified[u].kind = kind}

Summed ==
    /\ vsummary.completed = Cardinality(Consumed("verdict"))
    /\ vsummary.incomplete = Cardinality(Consumed("incomplete"))
    /\ vsummary.errors = Cardinality(Consumed("error"))

Charged ==
    LET told == baseline + vsummary.usage + Usage(answer, Unconsumed)
    IN  /\ vpc # "none" => told <= tracker
        /\ vpc \in {"pool", "interrupted", "failed", "done"} => told = tracker

LedgerInv  == LedgerTypes /\ Staged /\ Paid
AccountInv == Batched /\ Summed /\ Charged

LEMMA BlankTables ==
    /\ NoRows \in Table /\ \A S \in SUBSET Units : Usage(NoRows, S) = 0
    /\ AllOut \in [Units -> {"out", "adopted", "queued", "called", "saved", "counted",
                             "retried", "done"}]
    /\ AllOut \in [Units -> {"out", "restored", "queued", "asked", "answered", "saved",
                             "counted"}]
    /\ Blank \in [completed : Nat, incomplete : Nat, errors : Nat, usage : Nat]
  <1>1. NoRows \in Table BY DEF NoRows, Table
  <1>2. ASSUME NEW S \in SUBSET Units PROVE Usage(NoRows, S) = 0
    <2>1. {u \in S : NoRows[u] # NoRow} = {} BY DEF NoRows
    <2>2. Coins(NoRows, {}) = {} BY DEF Coins
    <2> QED BY <1>1, <2>1, <2>2, UsageIs, FS_EmptySet
  <1> QED BY <1>1, <1>2 DEF AllOut, Blank

LEMMA SameTypes ==
    ASSUME LedgerTypes, UNCHANGED <<vars, verification>> PROVE LedgerTypes'
  BY DEF LedgerTypes, Amounts, vars, verification

\* What one call adds.
LEMMA Billed ==
    ASSUME LedgerTypes, NEW u \in Units, Bill(u)
    PROVE  \E r \in Rows : /\ r # NoRow /\ held' = [held EXCEPT ![u] = r]
                           /\ tracker' = tracker + r.usage /\ spent' = spent + r.usage
                           /\ Cost(r) = r.usage /\ r.usage \in Nat
  <1>1. PICK k \in Kinds, c \in Costs :
           /\ held' = [held EXCEPT ![u] = [kind |-> k, usage |-> c]]
           /\ tracker' = tracker + c /\ spent' = spent + c
    BY DEF Bill
  <1> DEFINE r == [kind |-> k, usage |-> c]
  <1>2. r \in [kind : Kinds, usage : Nat] /\ r \in Rows /\ r.usage = c /\ r.usage \in Nat
    BY LedgerAssumption DEF Rows
  <1>3. r # NoRow BY <1>2, LedgerAssumption
  <1> HIDE DEF r
  <1> QED BY <1>1, <1>2, <1>3 DEF Cost, r

LEMMA AnalyzeTypes == ASSUME LedgerTypes, Staged, Analyze PROVE LedgerTypes'
  <1>0. UNCHANGED verification BY DEF Analyze
  <1>1. ASSUME NEW S \in Populations, NEW reset \in BOOLEAN, StartRun(S, reset)
        PROVE  LedgerTypes'
    BY <1>0, <1>1, BlankTables, LedgerAssumption
    DEF LedgerTypes, Amounts, StartRun, verification
  <1>2. CASE Seed
    <2>1. Usage(ckpt, scope) \in Nat BY UsageType DEF LedgerTypes
    <2>2. stage' \in [Units -> {"out", "adopted", "queued", "called", "saved", "counted",
                                "retried", "done"}]
      BY <1>2 DEF Seed, Enqueue
    <2> QED BY <1>0, <1>2, <2>1, <2>2 DEF LedgerTypes, Amounts, Seed, Enqueue, verification
  <1>3. ASSUME NEW u \in Units, Call(u) \/ Retry(u) PROVE LedgerTypes'
    <2>1. PICK r \in Rows : /\ r # NoRow /\ held' = [held EXCEPT ![u] = r]
                            /\ tracker' = tracker + r.usage /\ spent' = spent + r.usage
                            /\ r.usage \in Nat
      BY <1>3, Billed DEF Call, Retry
    <2>2. held' \in Table /\ held'[u] = r BY <2>1 DEF LedgerTypes, Table
    <2>3. /\ UNCHANGED <<ckpt, pc, scope>>
          /\ summaryCost' = summaryCost \/ summaryCost' = summaryCost + r.usage
          /\ stage' \in [Units -> {"out", "adopted", "queued", "called", "saved", "counted",
                                   "retried", "done"}]
      BY <1>3, <2>2 DEF Call, Retry, LedgerTypes
    <2> QED BY <1>0, <2>1, <2>2, <2>3 DEF LedgerTypes, Amounts, verification
  <1>4. ASSUME NEW u \in Units, Save(u) \/ SaveRetry(u) PROVE LedgerTypes'
    <2>1. ckpt' \in Table BY <1>4 DEF LedgerTypes, Table, Save, SaveRetry
    <2> QED BY <1>0, <1>4, <2>1 DEF LedgerTypes, Amounts, Save, SaveRetry, verification
  <1>5. ASSUME NEW u \in Units, Count(u) PROVE LedgerTypes'
    <2>1. held[u].usage \in Nat
      <3>1. held[u] # NoRow BY <1>5 DEF Count, Staged
      <3> QED BY <3>1 DEF LedgerTypes, Table, Rows
    <2> QED BY <1>0, <1>5, <2>1 DEF LedgerTypes, Amounts, Count, verification
  <1>6. CASE DetectDone \/ Finish
    BY <1>0, <1>6 DEF LedgerTypes, Amounts, DetectDone, Finish, verification
  <1>7. CASE Consistency
    <2>1. PICK c \in Costs \cup {0} : tracker' = tracker + c /\ spent' = spent + c
      BY <1>7 DEF Consistency
    <2>2. c \in Nat BY LedgerAssumption
    <2> QED BY <1>0, <1>7, <2>1, <2>2 DEF LedgerTypes, Amounts, Consistency, verification
  <1> QED
    BY <1>1, <1>2, <1>3, <1>4, <1>5, <1>6, <1>7 DEF Analyze

LEMMA CountedFinite ==
    ASSUME LedgerTypes, NEW kind, NEW S \in SUBSET Units
    PROVE  IsFiniteSet(Of(kind, S)) /\ Cardinality(Of(kind, S)) \in Nat
  <1>1. Of(kind, S) \in SUBSET Units BY DEF Of
  <1>2. IsFiniteSet(Of(kind, S)) BY <1>1, LedgerAssumption, FS_Subset
  <1> QED BY <1>2, FS_CardinalityType

LEMMA VerifyTypes == ASSUME LedgerTypes, Batched, Verify PROVE LedgerTypes'
  <1>1. CASE StartAlone
    BY <1>1 DEF LedgerTypes, Amounts, StartAlone, verification
  <1>2. CASE Archive
    BY <1>2, BlankTables DEF LedgerTypes, Amounts, Archive, analysis
  <1>3. ASSUME NEW S \in SUBSET Units, BeginVerify(S) PROVE LedgerTypes'
    <2>1. Usage(verified, Units) \in Nat BY UsageType DEF LedgerTypes
    <2>2. /\ Cardinality(Of("verdict", S)) \in Nat /\ Cardinality(Of("incomplete", S)) \in Nat
      BY CountedFinite
    <2>3. vsummary' = [Blank EXCEPT !.completed = Cardinality(Of("verdict", S)),
                                    !.incomplete = Cardinality(Of("incomplete", S)),
                                    !.usage = Usage(verified, Units)]
      BY <1>3 DEF BeginVerify, Load
    <2>4. vsummary' \in [completed : Nat, incomplete : Nat, errors : Nat, usage : Nat]
      BY <2>1, <2>2, <2>3 DEF Blank
    <2>5. vstage' \in [Units -> {"out", "restored", "queued", "asked", "answered", "saved",
                                 "counted"}]
      BY <1>3 DEF BeginVerify, Load
    <2>6. tracker' \in Nat /\ baseline' \in Nat
      BY <1>3, <2>1 DEF BeginVerify, Load, LedgerTypes, Amounts
    <2> QED BY <1>3, <2>4, <2>5, <2>6 DEF LedgerTypes, Amounts, BeginVerify, analysis
  <1>4. ASSUME NEW u \in Units, VerifyOne(u) PROVE LedgerTypes'
    BY <1>4 DEF LedgerTypes, Amounts, VerifyOne, analysis
  <1>5. ASSUME NEW u \in Units, SaveRow(u) PROVE LedgerTypes'
    <2>1. verified' \in Table BY <1>5 DEF LedgerTypes, Table, SaveRow
    <2> QED BY <1>5, <2>1 DEF LedgerTypes, Amounts, SaveRow, analysis
  <1>6. ASSUME NEW u \in Units, CountRow(u) PROVE LedgerTypes'
    <2>1. answer[u] \in Rows BY <1>6 DEF CountRow, Batched, LedgerTypes, Table
    <2>2. answer[u].usage \in Nat BY <2>1 DEF Rows
    <2>3. vsummary' \in [completed : Nat, incomplete : Nat, errors : Nat, usage : Nat]
      BY <1>6, <2>2 DEF CountRow, LedgerTypes
    <2>4. vstage' \in [Units -> {"out", "restored", "queued", "asked", "answered", "saved",
                                 "counted"}]
      BY <1>6 DEF CountRow, LedgerTypes
    <2> QED BY <1>6, <2>3, <2>4 DEF LedgerTypes, Amounts, CountRow, analysis
  <1>7. ASSUME NEW u \in Units, SaveFails(u) PROVE LedgerTypes'
    BY <1>7 DEF LedgerTypes, Amounts, SaveFails, analysis
  <1>8. ASSUME NEW u \in Units, NEW kind \in VerifyKinds, NEW c \in Costs, Verified(u, kind, c)
        PROVE  LedgerTypes'
    <2>1. c \in Nat BY LedgerAssumption
    <2>2. [kind |-> kind, usage |-> c] \in Rows BY <2>1 DEF Rows
    <2>3. answer' \in Table BY <1>8, <2>2 DEF Verified, LedgerTypes, Table
    <2>4. vstage' \in [Units -> {"out", "restored", "queued", "asked", "answered", "saved",
                                 "counted"}]
      BY <1>8 DEF Verified, LedgerTypes
    <2> QED BY <1>8, <2>1, <2>3, <2>4 DEF LedgerTypes, Amounts, Verified, analysis
  <1>9. CASE Interrupt \/ PoolDone
    BY <1>9 DEF LedgerTypes, Amounts, Interrupt, PoolDone, analysis
  <1>10. ASSUME NEW c \in Costs \cup {0}, CheckConsistency(c) PROVE LedgerTypes'
    <2>1. c \in Nat BY LedgerAssumption
    <2> QED BY <1>10, <2>1 DEF LedgerTypes, Amounts, CheckConsistency, analysis
  <1> QED
    BY <1>1, <1>2, <1>3, <1>4, <1>5, <1>6, <1>7, <1>8, <1>9, <1>10 DEF Verify

LEMMA EndTypes == ASSUME LedgerTypes, EndProcess PROVE LedgerTypes'
  BY BlankTables DEF LedgerTypes, Amounts, EndProcess, Exit

-----------------------------------------------------------------------------
(* How far the units of the analyze step are.                              *)

LEMMA SameStaged ==
    ASSUME Staged, UNCHANGED <<stage, scope, held, summaryCost, pc>>, vpc' # "none" => pc = "done",
           pc \in {"idle", "seed"} => UNCHANGED tracker
    PROVE  Staged'
  BY DEF Staged

LEMMA AnalyzeStaged == ASSUME LedgerTypes, Staged, Analyze PROVE Staged'
  <1>0. UNCHANGED verification BY DEF Analyze
  <1>a. UNCHANGED vpc BY <1>0 DEF verification
  <1>1. ASSUME NEW S \in Populations, NEW reset \in BOOLEAN, StartRun(S, reset)
        PROVE  Staged'
    BY <1>a, <1>1 DEF Staged, StartRun, AllOut
  <1>2. CASE Seed
    <2>1. PICK stale \in SUBSET {u \in scope : HasVerdict(u)} :
             stage' = [u \in Units |->
                 IF u \notin scope THEN "out"
                 ELSE IF HasVerdict(u) /\ u \notin stale THEN "adopted" ELSE "queued"]
      BY <1>2 DEF Seed, Enqueue
    <2>2. \A u \in Units : /\ stage'[u] \in {"out", "adopted", "queued"}
                           /\ stage'[u] # "out" => u \in scope
      BY <2>1
    <2>3. pc = "seed" /\ pc' = "detect" /\ UNCHANGED <<scope, held>>
      BY <1>2 DEF Seed, Enqueue
    <2> QED BY <1>a, <2>2, <2>3 DEF Staged
  <1>3. ASSUME NEW u \in Units, Call(u) \/ Retry(u) PROVE Staged'
    <2>1. PICK r \in Rows : r # NoRow /\ held' = [held EXCEPT ![u] = r]
      BY <1>3, Billed DEF Call, Retry
    <2>2. PICK s \in {"called", "retried"} :
             /\ stage' = [stage EXCEPT ![u] = s] /\ UNCHANGED <<pc, scope>>
             /\ pc = IF s = "called" THEN "detect" ELSE "retry"
             /\ stage[u] # "out"
      BY <1>3 DEF Call, Retry, ToRetry
    <2>3. /\ stage'[u] = s /\ \A v \in Units : v # u => stage'[v] = stage[v]
          /\ held'[u] = r /\ \A v \in Units : v # u => held'[v] = held[v]
      BY <2>1, <2>2 DEF LedgerTypes, Table
    <2>4. \A v \in Units : v = u \/ v # u OBVIOUS
    <2> QED BY <1>a, <2>1, <2>2, <2>3, <2>4 DEF Staged
  <1>4. ASSUME NEW u \in Units, Save(u) \/ Count(u) \/ SaveRetry(u) PROVE Staged'
    <2>1. PICK s \in {"saved", "counted", "done"} :
             /\ stage' = [stage EXCEPT ![u] = s] /\ UNCHANGED <<pc, scope, held>>
             /\ pc = IF s = "done" THEN "retry" ELSE "detect"
             /\ stage[u] \in {"called", "saved", "retried"}
      BY <1>4 DEF Save, Count, SaveRetry
    <2>2. stage'[u] = s /\ \A v \in Units : v # u => stage'[v] = stage[v]
      BY <2>1 DEF LedgerTypes
    <2>3. \A v \in Units : v = u \/ v # u OBVIOUS
    <2> QED BY <1>a, <2>1, <2>2, <2>3 DEF Staged
  <1>5. CASE DetectDone
    <2>1. /\ pc = "detect" /\ pc' = "retry" /\ UNCHANGED <<stage, scope, held>>
          /\ \A u \in scope : stage[u] \in {"adopted", "counted"}
      BY <1>5 DEF DetectDone
    <2>2. \A u \in Units : stage[u] \in {"out", "adopted", "counted"} BY <2>1 DEF Staged
    <2> QED BY <1>a, <2>1, <2>2 DEF Staged
  <1>6. CASE Finish
    <2>1. /\ pc = "retry" /\ pc' = "summed" /\ UNCHANGED <<stage, scope, held>>
          /\ \A u \in Units : stage[u] # "retried"
      BY <1>6 DEF Finish, Retried, Staged
    <2> QED BY <1>a, <2>1 DEF Staged
  <1>7. CASE Consistency
    BY <1>a, <1>7 DEF Staged, Consistency
  <1> QED BY <1>1, <1>2, <1>3, <1>4, <1>5, <1>6, <1>7 DEF Analyze

LEMMA VerifyStaged == ASSUME LedgerTypes, Staged, Batched, Verify PROVE Staged'
  <1>1. CASE StartAlone
    BY <1>1 DEF StartAlone, Staged, AllOut, verification
  <1>2. ASSUME ~StartAlone PROVE Staged'
    <2> DEFINE Still == UNCHANGED analysis /\ (pc = "done" \/ UNCHANGED <<vpc, tracker>>)
    <2>1. ASSUME Archive PROVE Still BY <2>1 DEF Archive
    <2>2. ASSUME NEW S \in SUBSET Units, BeginVerify(S) PROVE Still
      BY <2>2 DEF BeginVerify
    <2>3. ASSUME NEW u \in Units, VerifyOne(u) \/ SaveRow(u) \/ CountRow(u) \/ SaveFails(u)
          PROVE  Still
      BY <2>3 DEF VerifyOne, SaveRow, CountRow, SaveFails, Staged
    <2>4. ASSUME NEW u \in Units, NEW kind \in VerifyKinds, NEW c \in Costs,
                 Verified(u, kind, c)
          PROVE  Still
      <3>1. vpc # "none" BY <2>4 DEF Verified, Batched, AllOut
      <3> QED BY <2>4, <3>1 DEF Verified, Staged
    <2>5. ASSUME Interrupt \/ PoolDone PROVE Still BY <2>5 DEF Interrupt, PoolDone, Staged
    <2>6. ASSUME NEW c \in Costs \cup {0}, CheckConsistency(c) PROVE Still
      BY <2>6 DEF CheckConsistency, Staged
    <2>7. Still
      <3> HIDE DEF Still
      <3> QED BY <1>2, <2>1, <2>2, <2>3, <2>4, <2>5, <2>6 DEF Verify
    <2> QED BY <2>7, SameStaged DEF analysis, Staged
  <1> QED BY <1>1, <1>2

LEMMA EndStaged == ASSUME EndProcess PROVE Staged'
  BY DEF EndProcess, Exit, Staged, AllOut

-----------------------------------------------------------------------------
(* What is on disk is paid for, and what the tracker says.                 *)

LEMMA SumTypes ==
    ASSUME LedgerTypes
    PROVE  /\ Usage(ckpt, Units) \in Nat /\ Usage(held, Unsaved) \in Nat
           /\ Usage(verified, Units) \in Nat /\ Usage(answer, Unstored) \in Nat
           /\ Usage(held, Uncounted) \in Nat /\ Usage(ckpt, scope) \in Nat
           /\ Usage(answer, Unconsumed) \in Nat
           /\ tracker \in Nat /\ summaryCost \in Nat /\ spent \in Nat /\ baseline \in Nat
           /\ vsummary.usage \in Nat
  BY UsageType DEF LedgerTypes, Amounts, Unsaved, Unstored, Uncounted, Unconsumed

LEMMA AnalyzePaid ==
    ASSUME LedgerTypes, LedgerTypes', Staged, Paid, Analyze
    PROVE  Paid'
  <1>0. /\ UNCHANGED <<verified, vpc, answer, vstage>>
        /\ Unstored' = Unstored
    BY DEF Analyze, verification, Unstored
  <1>s. /\ Usage(ckpt, Units) \in Nat /\ Usage(held, Unsaved) \in Nat
        /\ Usage(verified, Units) \in Nat /\ Usage(answer, Unstored) \in Nat
        /\ Usage(held, Uncounted) \in Nat /\ Usage(ckpt, scope) \in Nat
        /\ tracker \in Nat /\ summaryCost \in Nat /\ spent \in Nat
    BY SumTypes
  <1>1. ASSUME NEW S \in Populations, NEW reset \in BOOLEAN, StartRun(S, reset)
        PROVE  Paid'
    <2>1. /\ UNCHANGED <<stage, held, spent>> /\ ckpt' \in {ckpt, NoRows}
          /\ tracker' = 0 /\ summaryCost' = 0 /\ pc' = "seed"
      BY <1>1 DEF StartRun
    <2>2. Unsaved' = Unsaved /\ Uncounted' = Uncounted BY <2>1 DEF Unsaved, Uncounted
    <2>3. Usage(ckpt', Units) <= Usage(ckpt, Units) BY <1>s, <2>1, BlankTables
    <2>4. Usage(ckpt', Units) \in Nat BY UsageType DEF LedgerTypes
    <2> QED BY <1>0, <1>s, <2>1, <2>2, <2>3, <2>4 DEF Paid
  <1>2. CASE Seed
    <2>1. /\ UNCHANGED <<ckpt, scope, held, spent>> /\ pc' = "detect"
          /\ tracker' = tracker + Usage(ckpt, scope) /\ summaryCost' = Usage(ckpt, scope)
          /\ tracker = 0 /\ vpc = "none"
      BY <1>2 DEF Seed, Enqueue, Staged
    <2>2. \A u \in Units : stage'[u] \in {"out", "adopted", "queued"}
      BY <1>2 DEF Seed, Enqueue
    <2>3. Unsaved' = {} /\ Uncounted' = {} BY <2>2 DEF Unsaved, Uncounted
    <2>4. Usage(held, {}) = 0 BY UsageNone DEF LedgerTypes
    <2>5. Usage(ckpt, scope) <= Usage(ckpt, Units) BY UsageMonotone DEF LedgerTypes
    <2> QED BY <1>0, <1>s, <2>1, <2>3, <2>4, <2>5 DEF Paid
  <1>3. ASSUME NEW u \in Units, Call(u) PROVE Paid'
    <2>1. PICK r \in Rows : /\ held' = [held EXCEPT ![u] = r]
                            /\ tracker' = tracker + r.usage /\ spent' = spent + r.usage
                            /\ Cost(r) = r.usage /\ r.usage \in Nat
      BY <1>3, Billed DEF Call
    <2>2. /\ UNCHANGED <<ckpt, pc, scope, summaryCost>> /\ pc = "detect" /\ stage[u] = "queued"
          /\ stage' = [stage EXCEPT ![u] = "called"]
      BY <1>3 DEF Call
    <2>3. /\ u \notin Unsaved /\ Unsaved' = Unsaved \cup {u}
          /\ u \notin Uncounted /\ Uncounted' = Uncounted \cup {u}
      BY <2>2 DEF Unsaved, Uncounted, LedgerTypes
    <2>4. /\ Usage(held', Unsaved') = Usage(held, Unsaved) + r.usage
          /\ Usage(held', Uncounted') = Usage(held, Uncounted) + r.usage
      <3>1. /\ held \in Table /\ held' \in Table
            /\ Unsaved' \in SUBSET Units /\ Uncounted' \in SUBSET Units
        BY <2>3 DEF LedgerTypes, Unsaved, Uncounted
      <3>2. held'[u] = r /\ \A v \in Units \ {u} : held'[v] = held[v]
        BY <2>1 DEF LedgerTypes, Table
      <3>3. /\ Unsaved' \ {u} = Unsaved /\ u \in Unsaved'
            /\ Uncounted' \ {u} = Uncounted /\ u \in Uncounted'
        BY <2>3
      <3>4. Usage(held', Unsaved') = Usage(held, Unsaved' \ {u}) + Cost(held'[u])
        BY <3>1, <3>2, <3>3, UsageJoin
      <3>5. Usage(held', Uncounted') = Usage(held, Uncounted' \ {u}) + Cost(held'[u])
        BY <3>1, <3>2, <3>3, UsageJoin
      <3> QED BY <2>1, <3>2, <3>3, <3>4, <3>5
    <2> QED BY <1>0, <1>s, <2>1, <2>2, <2>4 DEF Paid
  <1>4. ASSUME NEW u \in Units, Retry(u) PROVE Paid'
    <2>1. PICK r \in Rows : /\ held' = [held EXCEPT ![u] = r]
                            /\ tracker' = tracker + r.usage /\ spent' = spent + r.usage
                            /\ Cost(r) = r.usage /\ r.usage \in Nat
      BY <1>4, Billed DEF Retry
    <2>2. /\ UNCHANGED <<ckpt, pc, scope>> /\ pc = "retry" /\ stage[u] = "counted"
          /\ stage' = [stage EXCEPT ![u] = "retried"]
          /\ summaryCost' = summaryCost + held'[u].usage
      BY <1>4 DEF Retry, ToRetry
    <2>3. /\ u \notin Unsaved /\ Unsaved' = Unsaved \cup {u}
          /\ u \notin Uncounted /\ Uncounted' = Uncounted
      BY <2>2 DEF Unsaved, Uncounted, LedgerTypes
    <2>4. held'[u] = r /\ \A v \in Uncounted : held'[v] = held[v]
      BY <2>1, <2>3 DEF LedgerTypes, Table, Uncounted
    <2>5. /\ Usage(held', Unsaved') = Usage(held, Unsaved) + r.usage
          /\ Usage(held', Uncounted') = Usage(held, Uncounted)
      <3>1. /\ held \in Table /\ held' \in Table
            /\ Unsaved' \in SUBSET Units /\ Uncounted \in SUBSET Units
        BY <2>3 DEF LedgerTypes, Unsaved, Uncounted
      <3>2. held'[u] = r /\ \A v \in Units \ {u} : held'[v] = held[v]
        BY <2>1 DEF LedgerTypes, Table
      <3>3. Unsaved' \ {u} = Unsaved /\ u \in Unsaved' BY <2>3
      <3>4. Usage(held', Unsaved') = Usage(held, Unsaved' \ {u}) + Cost(held'[u])
        BY <3>1, <3>2, <3>3, UsageJoin
      <3>5. Usage(held', Uncounted) = Usage(held, Uncounted) BY <2>4, <3>1, UsageSame
      <3> QED BY <2>1, <2>3, <3>2, <3>3, <3>4, <3>5
    <2> QED BY <1>0, <1>s, <2>1, <2>2, <2>4, <2>5 DEF Paid
  <1>5. ASSUME NEW u \in Units, Save(u) \/ SaveRetry(u) PROVE Paid'
    <2>1. PICK s \in {"saved", "done"} :
             /\ ckpt' = [ckpt EXCEPT ![u] = held[u]] /\ stage' = [stage EXCEPT ![u] = s]
             /\ UNCHANGED <<pc, scope, held, tracker, summaryCost, spent>>
             /\ stage[u] = IF s = "saved" THEN "called" ELSE "retried"
             /\ pc \in {"detect", "retry"}
      BY <1>5 DEF Save, SaveRetry
    <2>2. u \in Unsaved /\ Unsaved' = Unsaved \ {u} /\ Uncounted' = Uncounted /\ u \in scope
      BY <2>1 DEF Unsaved, Uncounted, LedgerTypes, Staged
    <2>3. /\ held \in Table /\ ckpt \in Table /\ held[u] \in Rows \cup {NoRow}
          /\ Unsaved \in SUBSET Units /\ scope \in SUBSET Units
      BY DEF LedgerTypes, Unsaved, Table
    <2>4. Usage(held, Unsaved) = Cost(held[u]) + Usage(held, Unsaved')
      BY <2>2, <2>3, UsageSplit
    <2>5. /\ Usage(ckpt', Units) <= Usage(ckpt, Units) + Cost(held[u])
          /\ Usage(ckpt', scope) <= Usage(ckpt, scope) + Cost(held[u])
      BY <2>1, <2>2, <2>3, UsagePut
    <2>6. /\ Cost(held[u]) \in Nat /\ Usage(held, Unsaved') \in Nat
          /\ Usage(ckpt', Units) \in Nat /\ Usage(ckpt', scope) \in Nat
      <3>1. Unsaved' \in SUBSET Units /\ ckpt' \in Table BY <2>2, <2>3 DEF LedgerTypes
      <3> QED BY <2>3, <3>1, CostType, UsageType
    <2> QED BY <1>0, <1>s, <2>1, <2>2, <2>4, <2>5, <2>6 DEF Paid
  <1>6. ASSUME NEW u \in Units, Count(u) PROVE Paid'
    <2>1. /\ UNCHANGED <<ckpt, pc, scope, held, tracker, spent>>
          /\ pc = "detect" /\ stage[u] = "saved" /\ stage' = [stage EXCEPT ![u] = "counted"]
          /\ summaryCost' = summaryCost + held[u].usage
      BY <1>6 DEF Count
    <2>2. u \in Uncounted /\ Uncounted' = Uncounted \ {u} /\ Unsaved' = Unsaved
      BY <2>1 DEF Unsaved, Uncounted, LedgerTypes
    <2>3. held \in Table /\ Uncounted \in SUBSET Units BY DEF LedgerTypes, Uncounted
    <2>4. Usage(held, Uncounted) = Cost(held[u]) + Usage(held, Uncounted')
      BY <2>2, <2>3, UsageSplit
    <2>5. Cost(held[u]) = held[u].usage /\ Cost(held[u]) \in Nat
      <3>1. held[u] # NoRow BY <2>1 DEF Staged
      <3> QED BY <2>3, <3>1, CostType DEF Cost, Table
    <2>6. Usage(held, Uncounted') \in Nat BY <2>2, <2>3, UsageType
    <2> QED BY <1>0, <1>s, <2>1, <2>2, <2>4, <2>5, <2>6 DEF Paid
  <1>7. CASE DetectDone \/ Finish
    <2>1. UNCHANGED <<ckpt, scope, stage, held, tracker, summaryCost, spent>>
          /\ pc \in {"detect", "retry"}
      BY <1>7 DEF DetectDone, Finish
    <2>2. Unsaved' = Unsaved /\ Uncounted' = Uncounted BY <2>1 DEF Unsaved, Uncounted
    <2> QED BY <1>0, <1>s, <2>1, <2>2 DEF Paid
  <1>8. CASE Consistency
    <2>1. PICK c \in Costs \cup {0} : tracker' = tracker + c /\ spent' = spent + c
      BY <1>8 DEF Consistency
    <2>2. c \in Nat BY LedgerAssumption
    <2>3. UNCHANGED <<ckpt, scope, stage, held, summaryCost>> /\ pc = "summed" /\ pc' = "done"
      BY <1>8 DEF Consistency
    <2>4. Unsaved' = Unsaved BY <2>3 DEF Unsaved
    <2> QED BY <1>0, <1>s, <2>1, <2>2, <2>3, <2>4 DEF Paid
  <1> QED BY <1>1, <1>2, <1>3, <1>4, <1>5, <1>6, <1>7, <1>8 DEF Analyze

\* Nothing is answered before the pool starts.
LEMMA NothingAnswered ==
    ASSUME LedgerTypes, Batched, vpc = "none"
    PROVE  Unstored = {} /\ Unconsumed = {} /\ answer = NoRows
  BY DEF Batched, AllOut, Unstored, Unconsumed

\* A finding is answered: its answer is paid for, not stored and not counted.
LEMMA AnswerPaid ==
    ASSUME LedgerTypes, LedgerTypes', NEW u \in Units, NEW kind \in VerifyKinds, NEW c \in Costs,
           Verified(u, kind, c)
    PROVE  /\ c \in Nat /\ answer'[u] = [kind |-> kind, usage |-> c] /\ answer'[u] # NoRow
           /\ \A v \in Units \ {u} : answer'[v] = answer[v]
           /\ Usage(answer', Unstored') = Usage(answer, Unstored) + c
           /\ Usage(answer', Unconsumed') = Usage(answer, Unconsumed) + c
  <1> DEFINE r == [kind |-> kind, usage |-> c]
  <1>1. c \in Nat BY LedgerAssumption
  <1>2. r \in [kind : VerifyKinds, usage : Nat] /\ r.usage = c BY <1>1
  <1>3. r # NoRow BY <1>2, VerifyAssumption
  <1> HIDE DEF r
  <1>4. Cost(r) = c BY <1>2, <1>3 DEF Cost
  <1>5. /\ answer' = [answer EXCEPT ![u] = r] /\ vstage[u] = "asked"
        /\ vstage' = [vstage EXCEPT ![u] = "answered"]
    BY DEF Verified, r
  <1>6. answer'[u] = r /\ \A v \in Units \ {u} : answer'[v] = answer[v]
    BY <1>5 DEF LedgerTypes, Table
  <1>7. /\ Unstored' \ {u} = Unstored /\ u \in Unstored'
        /\ Unconsumed' \ {u} = Unconsumed /\ u \in Unconsumed'
        /\ Unstored' \in SUBSET Units /\ Unconsumed' \in SUBSET Units
    BY <1>5 DEF Unstored, Unconsumed, LedgerTypes
  <1>8. answer \in Table /\ answer' \in Table BY DEF LedgerTypes
  <1>9. Usage(answer', Unstored') = Usage(answer, Unstored' \ {u}) + Cost(answer'[u])
    BY <1>6, <1>7, <1>8, UsageJoin
  <1>10. Usage(answer', Unconsumed') = Usage(answer, Unconsumed' \ {u}) + Cost(answer'[u])
    BY <1>6, <1>7, <1>8, UsageJoin
  <1> QED BY <1>1, <1>3, <1>4, <1>6, <1>7, <1>9, <1>10 DEF r

LEMMA VerifyPaid ==
    ASSUME LedgerTypes, LedgerTypes', Staged, Paid, Batched, Verify
    PROVE  Paid'
  <1>s. /\ Usage(ckpt, Units) \in Nat /\ Usage(held, Unsaved) \in Nat
        /\ Usage(verified, Units) \in Nat /\ Usage(answer, Unstored) \in Nat
        /\ Usage(held, Uncounted) \in Nat /\ Usage(ckpt, scope) \in Nat
        /\ tracker \in Nat /\ summaryCost \in Nat /\ spent \in Nat
    BY SumTypes
  <1>1. CASE StartAlone
    <2>1. /\ UNCHANGED <<ckpt, scope, stage, held, tracker, summaryCost, spent, verified, vpc,
                         answer, vstage>>
          /\ pc = "idle" /\ pc' = "done"
      BY <1>1 DEF StartAlone, verification
    <2>2. Unsaved' = {} /\ Unstored' = Unstored /\ Uncounted' = Uncounted
      BY <2>1 DEF Unsaved, Unstored, Uncounted, Staged, AllOut
    <2>3. Unsaved = {} /\ scope = {} BY <2>1 DEF Unsaved, Staged, AllOut
    <2>4. Usage(held, {}) = 0 /\ Usage(ckpt, {}) = 0 BY UsageNone DEF LedgerTypes
    <2> QED BY <1>s, <2>1, <2>2, <2>3, <2>4 DEF Paid
  <1> SUFFICES ASSUME ~StartAlone PROVE Paid' BY <1>1
  <1>2. CASE Archive
    <2>1. /\ UNCHANGED <<analysis, tracker, spent, vpc, vstage, answer>> /\ verified' = NoRows
      BY <1>2 DEF Archive
    <2>2. Unsaved' = Unsaved /\ Unstored' = Unstored /\ Uncounted' = Uncounted
      BY <2>1 DEF Unsaved, Unstored, Uncounted, analysis
    <2>3. Usage(verified', Units) = 0 BY <2>1, BlankTables
    <2> QED BY <1>s, <2>1, <2>2, <2>3 DEF Paid, analysis
  <1>3. ASSUME NEW S \in SUBSET Units, BeginVerify(S) PROVE Paid'
    <2>1. /\ UNCHANGED <<analysis, spent, verified, answer>> /\ pc = "done" /\ vpc = "none"
          /\ vpc' = "pool" /\ tracker' = tracker + Usage(verified, Units)
          /\ \A u \in Units : vstage'[u] \in {"out", "restored", "queued"}
      BY <1>3 DEF BeginVerify, Load
    <2>2. Unsaved' = Unsaved /\ Uncounted' = Uncounted /\ Unstored' = {} /\ Unstored = {}
      BY <2>1, NothingAnswered DEF Unsaved, Unstored, Uncounted, analysis
    <2> QED BY <1>s, <2>1, <2>2 DEF Paid, analysis
  <1>4. ASSUME NEW u \in Units, NEW kind \in VerifyKinds, NEW c \in Costs, Verified(u, kind, c)
        PROVE  Paid'
    <2>1. /\ UNCHANGED <<analysis, verified, vpc>>
          /\ tracker' = tracker + c /\ spent' = spent + c
      BY <1>4 DEF Verified
    <2>2. Usage(answer', Unstored') = Usage(answer, Unstored) + c /\ c \in Nat
      BY <1>4, AnswerPaid
    <2>3. Unsaved' = Unsaved /\ Uncounted' = Uncounted
      BY <2>1 DEF Unsaved, Uncounted, analysis
    <2>4. vpc # "none" BY <1>4 DEF Verified, Batched, AllOut
    <2>5. pc = "done" /\ vpc' = vpc BY <2>1, <2>4 DEF Staged
    <2>6. UNCHANGED <<ckpt, pc, scope, held, summaryCost>> BY <2>1 DEF analysis
    <2> HIDE DEF Unsaved, Unstored, Uncounted
    <2>7. Usage(ckpt, Units)' = Usage(ckpt, Units) /\ Usage(held, Unsaved)' = Usage(held, Unsaved)
          /\ Usage(verified, Units)' = Usage(verified, Units)
          /\ Usage(ckpt, scope)' = Usage(ckpt, scope)
      BY <2>1, <2>3, <2>6
    <2>8. Usage(answer, Unstored)' = Usage(answer, Unstored) + c BY <2>2
    <2> QED BY <1>s, <2>1, <2>2, <2>4, <2>5, <2>6, <2>7, <2>8 DEF Paid
  <1>5. ASSUME NEW u \in Units, SaveRow(u) PROVE Paid'
    <2>1. /\ UNCHANGED <<analysis, tracker, spent, vpc, answer>> /\ vpc = "pool"
          /\ verified' = [verified EXCEPT ![u] = answer[u]]
          /\ vstage[u] = "answered" /\ vstage' = [vstage EXCEPT ![u] = "saved"]
      BY <1>5 DEF SaveRow
    <2>2. u \in Unstored /\ Unstored' = Unstored \ {u}
      BY <2>1 DEF Unstored, LedgerTypes
    <2>3. /\ answer \in Table /\ verified \in Table /\ answer[u] \in Rows \cup {NoRow}
          /\ Unstored \in SUBSET Units
      BY DEF LedgerTypes, Unstored, Table
    <2>4. Usage(answer, Unstored) = Cost(answer[u]) + Usage(answer, Unstored')
      BY <2>2, <2>3, UsageSplit
    <2>5. Usage(verified', Units) <= Usage(verified, Units) + Cost(answer[u])
      BY <2>1, <2>3, UsagePut
    <2>6. /\ Cost(answer[u]) \in Nat /\ Usage(answer, Unstored') \in Nat
          /\ Usage(verified', Units) \in Nat
      <3>1. Unstored' \in SUBSET Units /\ verified' \in Table BY <2>2, <2>3 DEF LedgerTypes
      <3> QED BY <2>3, <3>1, CostType, UsageType
    <2>7. Unsaved' = Unsaved /\ Uncounted' = Uncounted
      BY <2>1 DEF Unsaved, Uncounted, analysis
    <2> QED BY <1>s, <2>1, <2>4, <2>5, <2>6, <2>7 DEF Paid, analysis
  <1>6. ASSUME UNCHANGED <<analysis, tracker, spent, verified, answer>>,
               Unstored' = Unstored, vpc' = "none" => vpc = "none"
        PROVE  Paid'
    <2>1. Unsaved' = Unsaved /\ Uncounted' = Uncounted
      BY <1>6 DEF Unsaved, Uncounted, analysis
    <2> QED BY <1>s, <1>6, <2>1 DEF Paid, analysis
  <1>7. ASSUME NEW u \in Units, VerifyOne(u) \/ CountRow(u) \/ SaveFails(u) PROVE Paid'
    <2>1. UNCHANGED <<analysis, tracker, spent, verified, answer>> /\ (vpc' = "none" => vpc = "none")
      BY <1>7 DEF VerifyOne, CountRow, SaveFails
    <2>2. \A v \in Units : vstage'[v] = "answered" <=> vstage[v] = "answered"
      <3>1. CASE VerifyOne(u) BY <3>1 DEF VerifyOne, Submitted, LedgerTypes
      <3>2. CASE CountRow(u) BY <3>2 DEF CountRow, LedgerTypes
      <3>3. CASE SaveFails(u) BY <3>3 DEF SaveFails
      <3> QED BY <1>7, <3>1, <3>2, <3>3
    <2>3. Unstored' = Unstored BY <2>2 DEF Unstored
    <2> QED BY <1>6, <2>1, <2>3
  <1>8. CASE Interrupt \/ PoolDone
    <2>1. UNCHANGED <<analysis, tracker, spent, verified, answer, vstage>> /\ vpc' # "none"
      BY <1>8 DEF Interrupt, PoolDone
    <2>2. Unstored' = Unstored BY <2>1 DEF Unstored
    <2> QED BY <1>6, <2>1, <2>2
  <1>9. ASSUME NEW c \in Costs \cup {0}, CheckConsistency(c) PROVE Paid'
    <2>1. /\ UNCHANGED <<analysis, verified, answer, vstage>> /\ vpc' = "checked"
          /\ tracker' = tracker + c /\ spent' = spent + c /\ vpc = "done"
      BY <1>9 DEF CheckConsistency
    <2>2. c \in Nat BY LedgerAssumption
    <2>3. Unsaved' = Unsaved /\ Uncounted' = Uncounted /\ Unstored' = Unstored
      BY <2>1 DEF Unsaved, Uncounted, Unstored, analysis
    <2>4. pc = "done" BY <2>1 DEF Staged
    <2> QED BY <1>s, <2>1, <2>2, <2>3, <2>4 DEF Paid, analysis
  <1> QED BY <1>2, <1>3, <1>4, <1>5, <1>7, <1>8, <1>9 DEF Verify

LEMMA EndPaid ==
    ASSUME LedgerTypes, Paid, EndProcess
    PROVE  Paid'
  <1>1. /\ UNCHANGED <<ckpt, spent, verified>> /\ pc' = "idle" /\ tracker' = 0
        /\ summaryCost' = 0 /\ held' = NoRows /\ stage' = AllOut
        /\ answer' = NoRows /\ vstage' = AllOut
    BY DEF EndProcess, Exit
  <1>2. Unsaved' = {} /\ Unstored' = {} BY <1>1 DEF Unsaved, Unstored, AllOut
  <1>3. Usage(NoRows, {}) = 0 BY BlankTables
  <1>4. /\ Usage(ckpt, Units) \in Nat /\ Usage(held, Unsaved) \in Nat
        /\ Usage(verified, Units) \in Nat /\ Usage(answer, Unstored) \in Nat /\ spent \in Nat
    BY SumTypes
  <1> QED BY <1>1, <1>2, <1>3, <1>4 DEF Paid


-----------------------------------------------------------------------------
(* The batch, row by row.                                                  *)

LEMMA BatchedStep == ASSUME LedgerTypes, LedgerTypes', Batched, Verify PROVE Batched'
  <1>1. CASE StartAlone
    BY <1>1 DEF StartAlone, verification, Batched
  <1>2. CASE Archive
    <2>1. /\ UNCHANGED <<vpc, batch, vstage, answer, vsummary, baseline>> /\ vpc = "none"
      BY <1>2 DEF Archive
    <2> QED BY <2>1 DEF Batched, AllOut
  <1>3. ASSUME NEW S \in SUBSET Units, BeginVerify(S) PROVE Batched'
    <2>1. /\ vpc = "none" /\ vpc' = "pool" /\ batch' = S /\ UNCHANGED <<verified, answer>>
          /\ vstage' = [u \in Units |-> IF u \notin S THEN "out"
                        ELSE IF u \in Of("verdict", S) \cup Of("incomplete", S)
                             THEN "restored" ELSE "queued"]
      BY <1>3 DEF BeginVerify, Load, Restored
    <2>2. \A u \in Units : answer[u] = NoRow BY <2>1, NothingAnswered DEF NoRows
    <2>3. \A u \in Units : /\ vstage'[u] \in {"out", "restored", "queued"}
                           /\ vstage'[u] = "out" <=> u \notin S
                           /\ vstage'[u] = "restored" =>
                                 verified[u] # NoRow /\ verified[u].kind \in {"verdict", "incomplete"}
      BY <2>1 DEF Of
    <2> QED BY <2>1, <2>2, <2>3 DEF Batched
  <1>4. ASSUME NEW u \in Units, NEW s \in {"asked", "answered", "saved", "counted"},
               vpc # "none" \/ vstage[u] # "out", UNCHANGED <<vpc, batch>>,
               vpc \notin {"done", "checked"} \/ vstage[u] \notin {"restored", "counted"},
               vstage[u] # "out", vstage' = [vstage EXCEPT ![u] = s],
               \A v \in Units \ {u} : answer'[v] = answer[v] /\ verified'[v] = verified[v],
               s = "asked" <=> answer'[u] = NoRow,
               answer'[u] # NoRow => answer'[u].kind \in VerifyKinds,
               s \in {"saved", "counted"} => verified'[u] = answer'[u]
        PROVE  Batched'
    <2>1. vpc # "none" BY <1>4 DEF Batched, AllOut
    <2>2. vpc \notin {"done", "checked"}
      <3>1. u \in batch BY <1>4 DEF Batched
      <3> QED BY <1>4, <3>1 DEF Batched
    <2>3. vstage'[u] = s /\ \A v \in Units \ {u} : vstage'[v] = vstage[v]
      BY <1>4 DEF LedgerTypes
    <2>4. u \in batch BY <1>4 DEF Batched
    <2>5. ASSUME NEW v \in Units
          PROVE  /\ vstage'[v] = "out" <=> v \notin batch'
                 /\ vstage'[v] \in {"answered", "saved", "counted"} <=> answer'[v] # NoRow
                 /\ answer'[v] # NoRow => answer'[v].kind \in VerifyKinds
                 /\ vstage'[v] \in {"saved", "counted"} => verified'[v] = answer'[v]
                 /\ vstage'[v] = "restored" =>
                       verified'[v] # NoRow /\ verified'[v].kind \in {"verdict", "incomplete"}
      <3>1. CASE v = u BY <1>4, <2>3, <2>4, <3>1
      <3>2. CASE v # u
        <4>1. vstage'[v] = vstage[v] /\ answer'[v] = answer[v] /\ verified'[v] = verified[v]
          BY <1>4, <2>3, <3>2
        <4> QED BY <1>4, <4>1 DEF Batched
      <3> QED BY <3>1, <3>2
    <2> QED BY <1>4, <2>1, <2>2, <2>5 DEF Batched
  <1>5. ASSUME NEW u \in Units, VerifyOne(u) PROVE Batched'
    <2>1. /\ UNCHANGED <<vpc, batch, answer, verified>> /\ vstage[u] = "queued"
          /\ vstage' = [vstage EXCEPT ![u] = "asked"] /\ vpc \in {"pool", "failed"}
      BY <1>5 DEF VerifyOne, Submitted
    <2>2. answer'[u] = NoRow BY <2>1 DEF Batched
    <2> QED BY <1>4, <2>1, <2>2
  <1>6. ASSUME NEW u \in Units, NEW kind \in VerifyKinds, NEW c \in Costs, Verified(u, kind, c)
        PROVE  Batched'
    <2>1. /\ UNCHANGED <<vpc, batch, verified>> /\ vstage[u] = "asked"
          /\ vstage' = [vstage EXCEPT ![u] = "answered"]
      BY <1>6 DEF Verified
    <2>2. /\ answer'[u] # NoRow /\ answer'[u].kind \in VerifyKinds
          /\ \A v \in Units \ {u} : answer'[v] = answer[v]
      <3>1. /\ answer'[u] = [kind |-> kind, usage |-> c] /\ answer'[u] # NoRow
            /\ \A v \in Units \ {u} : answer'[v] = answer[v]
        BY <1>6, AnswerPaid
      <3> QED BY <3>1
    <2> QED BY <1>4, <2>1, <2>2
  <1>7. ASSUME NEW u \in Units, SaveRow(u) PROVE Batched'
    <2>1. /\ UNCHANGED <<vpc, batch, answer>> /\ vstage[u] = "answered" /\ vpc = "pool"
          /\ vstage' = [vstage EXCEPT ![u] = "saved"]
          /\ verified' = [verified EXCEPT ![u] = answer[u]]
      BY <1>7 DEF SaveRow
    <2>2. answer[u] # NoRow /\ answer[u].kind \in VerifyKinds BY <2>1 DEF Batched
    <2>3. verified'[u] = answer[u] /\ \A v \in Units \ {u} : verified'[v] = verified[v]
      BY <2>1 DEF LedgerTypes, Table
    <2> QED BY <1>4, <2>1, <2>2, <2>3
  <1>8. ASSUME NEW u \in Units, CountRow(u) PROVE Batched'
    <2>1. /\ UNCHANGED <<vpc, batch, answer, verified>> /\ vstage[u] = "saved" /\ vpc = "pool"
          /\ vstage' = [vstage EXCEPT ![u] = "counted"]
      BY <1>8 DEF CountRow
    <2>2. /\ answer[u] # NoRow /\ answer[u].kind \in VerifyKinds /\ verified[u] = answer[u]
      BY <2>1 DEF Batched
    <2> QED BY <1>4, <2>1, <2>2
  <1>9. CASE \/ Interrupt \/ PoolDone \/ \E u \in Units : SaveFails(u)
             \/ \E c \in Costs \cup {0} : CheckConsistency(c)
    <2>1. /\ UNCHANGED <<verified, batch, vstage, answer>>
          /\ vpc # "none" /\ vpc' # "none"
          /\ vpc' \in {"done", "checked"} => \A u \in batch : vstage[u] \in {"restored", "counted"}
      BY <1>9 DEF Interrupt, PoolDone, SaveFails, CheckConsistency, Batched
    <2> QED BY <2>1 DEF Batched
  <1> QED BY <1>1, <1>2, <1>3, <1>5, <1>6, <1>7, <1>8, <1>9 DEF Verify

LEMMA EndBatched == ASSUME EndProcess PROVE Batched'
  BY DEF EndProcess, Batched, AllOut, NoRows

-----------------------------------------------------------------------------
(* What the verify step's summary counts.                                  *)

LEMMA ConsumedIs ==
    ASSUME LedgerTypes, NEW kind
    PROVE  /\ Consumed(kind) \subseteq batch /\ IsFiniteSet(Consumed(kind))
           /\ IsFiniteSet(batch) /\ Cardinality(Consumed(kind)) \in Nat
  <1>1. Consumed(kind) \subseteq batch BY DEF Consumed
  <1>2. IsFiniteSet(batch) BY LedgerAssumption, FS_Subset DEF LedgerTypes
  <1> QED BY <1>1, <1>2, FS_Subset, FS_CardinalityType

LEMMA SameSummed ==
    ASSUME LedgerTypes, Summed, UNCHANGED batch,
           vsummary'.completed = vsummary.completed,
           vsummary'.incomplete = vsummary.incomplete, vsummary'.errors = vsummary.errors,
           \A v \in Units : vstage'[v] \in {"restored", "counted"}
                               <=> vstage[v] \in {"restored", "counted"},
           \A v \in Units : vstage[v] \in {"restored", "counted"} => verified'[v] = verified[v]
    PROVE  Summed'
  <1>1. \A v \in batch : v \in Units BY DEF LedgerTypes
  <1>2. ASSUME NEW kind PROVE Consumed(kind)' = Consumed(kind) BY <1>1 DEF Consumed
  <1> QED BY <1>2 DEF Summed

LEMMA SummedStep ==
    ASSUME LedgerTypes, LedgerTypes', Batched, Summed, Verify
    PROVE  Summed'
  <1>1. CASE StartAlone
    BY <1>1, SameSummed DEF StartAlone, verification
  <1>2. CASE Archive
    <2>1. /\ UNCHANGED <<batch, vsummary, vstage>> /\ vpc = "none" BY <1>2 DEF Archive
    <2>2. \A v \in Units : vstage[v] = "out" BY <2>1 DEF Batched, AllOut
    <2> QED BY <2>1, <2>2, SameSummed
  <1>3. ASSUME NEW S \in SUBSET Units, BeginVerify(S) PROVE Summed'
    <2>1. /\ batch' = S /\ UNCHANGED <<verified>>
          /\ vstage' = [u \in Units |-> IF u \notin S THEN "out"
                        ELSE IF u \in Of("verdict", S) \cup Of("incomplete", S)
                             THEN "restored" ELSE "queued"]
          /\ vsummary' = [Blank EXCEPT !.completed = Cardinality(Of("verdict", S)),
                                       !.incomplete = Cardinality(Of("incomplete", S)),
                                       !.usage = Usage(verified, Units)]
      BY <1>3 DEF BeginVerify, Load, Restored
    <2>2. \A u \in S : vstage'[u] \in {"restored", "counted"}
                         <=> u \in Of("verdict", S) \cup Of("incomplete", S)
      BY <2>1
    <2>3. /\ Consumed("verdict")' = Of("verdict", S)
          /\ Consumed("incomplete")' = Of("incomplete", S)
          /\ Consumed("error")' = {}
      BY <2>1, <2>2 DEF Consumed, Of
    <2>4. /\ vsummary'.completed = Cardinality(Of("verdict", S))
          /\ vsummary'.incomplete = Cardinality(Of("incomplete", S)) /\ vsummary'.errors = 0
      BY <2>1 DEF Blank
    <2> QED BY <2>3, <2>4, FS_EmptySet DEF Summed
  <1>4. ASSUME NEW u \in Units, VerifyOne(u) PROVE Summed'
    <2>1. /\ UNCHANGED <<batch, vsummary, verified>>
          /\ \A v \in Units : vstage'[v] \in {"restored", "counted"}
                                <=> vstage[v] \in {"restored", "counted"}
      BY <1>4 DEF VerifyOne, Submitted, LedgerTypes
    <2> QED BY <2>1, SameSummed
  <1>5. ASSUME NEW u \in Units, NEW kind \in VerifyKinds, NEW c \in Costs, Verified(u, kind, c)
        PROVE  Summed'
    <2>1. /\ UNCHANGED <<batch, vsummary, verified>>
          /\ \A v \in Units : vstage'[v] \in {"restored", "counted"}
                                <=> vstage[v] \in {"restored", "counted"}
      BY <1>5 DEF Verified, LedgerTypes
    <2> QED BY <2>1, SameSummed
  <1>6. ASSUME NEW u \in Units, SaveRow(u) PROVE Summed'
    <2>1. /\ UNCHANGED <<batch, vsummary>> /\ vstage[u] = "answered"
          /\ \A v \in Units : vstage'[v] \in {"restored", "counted"}
                                <=> vstage[v] \in {"restored", "counted"}
      BY <1>6 DEF SaveRow, LedgerTypes
    <2>2. \A v \in Units : v # u => verified'[v] = verified[v]
      BY <1>6 DEF SaveRow, LedgerTypes, Table
    <2>3. \A v \in Units : vstage[v] \in {"restored", "counted"} => verified'[v] = verified[v]
      BY <2>1, <2>2
    <2> QED BY <2>1, <2>3, SameSummed
  <1>7. ASSUME NEW u \in Units, CountRow(u) PROVE Summed'
    <2>1. /\ UNCHANGED <<batch, verified>> /\ vstage[u] = "saved"
          /\ vstage' = [vstage EXCEPT ![u] = "counted"]
      BY <1>7 DEF CountRow
    <2>2. /\ u \in batch /\ verified[u] = answer[u] /\ answer[u].kind \in VerifyKinds
      BY <2>1 DEF Batched
    <2> DEFINE k == answer[u].kind
               one(kind) == IF k = kind THEN 1 ELSE 0
    <2>3. /\ vsummary'.completed = vsummary.completed + one("verdict")
          /\ vsummary'.incomplete = vsummary.incomplete + one("incomplete")
          /\ vsummary'.errors = vsummary.errors + one("error")
      BY <1>7 DEF CountRow
    <2>4. vstage'[u] = "counted" /\ \A v \in Units : v # u => vstage'[v] = vstage[v]
      BY <2>1 DEF LedgerTypes
    <2>5. ASSUME NEW kind
          PROVE  Cardinality(Consumed(kind)') = Cardinality(Consumed(kind)) + one(kind)
      <3>1. u \notin Consumed(kind) BY <2>1 DEF Consumed
      <3>2. \A v \in batch : v \in Units BY DEF LedgerTypes
      <3>3. CASE k = kind
        <4>1. Consumed(kind)' = Consumed(kind) \cup {u}
          BY <2>1, <2>2, <2>4, <3>2, <3>3 DEF Consumed
        <4> QED BY <3>1, <3>3, <4>1, ConsumedIs, FS_AddElement
      <3>4. CASE k # kind
        <4>1. Consumed(kind)' = Consumed(kind)
          BY <2>1, <2>2, <2>4, <3>2, <3>4 DEF Consumed
        <4> QED BY <3>4, <4>1, ConsumedIs
      <3> QED BY <3>3, <3>4
    <2> HIDE DEF k, one
    <2> QED BY <2>3, <2>5 DEF Summed
  <1>8. CASE \/ Interrupt \/ PoolDone \/ \E u \in Units : SaveFails(u)
             \/ \E c \in Costs \cup {0} : CheckConsistency(c)
    <2>1. UNCHANGED <<verified, batch, vstage, vsummary>>
      BY <1>8 DEF Interrupt, PoolDone, SaveFails, CheckConsistency
    <2> QED BY <2>1, SameSummed
  <1> QED BY <1>1, <1>2, <1>3, <1>4, <1>5, <1>6, <1>7, <1>8 DEF Verify

LEMMA EndSummed == ASSUME EndProcess PROVE Summed'
  <1>1. batch' = {} /\ vsummary' = Blank BY DEF EndProcess
  <1>2. \A kind : Consumed(kind)' = {} BY <1>1 DEF Consumed
  <1> QED BY <1>1, <1>2, FS_EmptySet DEF Summed, Blank


-----------------------------------------------------------------------------
(* What it says was spent.                                                 *)

LEMMA AnalyzeAccounts ==
    ASSUME Staged, AccountInv, Analyze
    PROVE  AccountInv'
  <1>1. UNCHANGED verification BY DEF Analyze
  <1>2. vpc = "none"
    <2>1. pc # "done"
      BY DEF Analyze, StartRun, Seed, Call, Save, Count, Retry, SaveRetry, DetectDone,
             Finish, Consistency
    <2> QED BY <2>1 DEF Staged
  <1>3. Batched' BY <1>1 DEF AccountInv, Batched, verification
  <1>4. Summed' BY <1>1 DEF AccountInv, Summed, Consumed, verification
  <1>5. Charged' BY <1>1, <1>2 DEF Charged, verification
  <1> QED BY <1>3, <1>4, <1>5 DEF AccountInv

LEMMA ChargedStep ==
    ASSUME LedgerTypes, LedgerTypes', Staged, Batched, Charged, Verify
    PROVE  Charged'
  <1>s. /\ tracker \in Nat /\ baseline \in Nat /\ vsummary.usage \in Nat
        /\ Usage(answer, Unconsumed) \in Nat /\ Usage(verified, Units) \in Nat
    BY SumTypes
  <1>1. CASE StartAlone \/ Archive
    <2>1. vpc' = "none"
      BY <1>1 DEF StartAlone, Archive, verification, Staged
    <2> QED BY <2>1 DEF Charged
  <1>2. ASSUME NEW S \in SUBSET Units, BeginVerify(S) PROVE Charged'
    <2>1. /\ vpc = "none" /\ UNCHANGED answer /\ baseline' = tracker
          /\ tracker' = tracker + Usage(verified, Units)
          /\ vsummary'.usage = Usage(verified, Units)
          /\ \A u \in Units : vstage'[u] \in {"out", "restored", "queued"}
      BY <1>2 DEF BeginVerify, Load, Blank
    <2>2. Unconsumed' = {} BY <2>1 DEF Unconsumed
    <2>3. Usage(answer, {}) = 0 BY UsageNone DEF LedgerTypes
    <2> QED BY <1>s, <2>1, <2>2, <2>3 DEF Charged
  <1>3. ASSUME UNCHANGED <<tracker, baseline, answer>>, vsummary'.usage = vsummary.usage,
               Unconsumed' = Unconsumed, vpc # "none", vpc = "checked" => vpc' = "checked"
        PROVE  Charged'
    <2>1. vpc \in {"pool", "interrupted", "failed", "done", "checked"}
      BY <1>3 DEF LedgerTypes
    <2>2. Usage(answer, Unconsumed)' = Usage(answer, Unconsumed) BY <1>3
    <2> QED BY <1>s, <1>3, <2>1, <2>2 DEF Charged
  <1>4. ASSUME NEW u \in Units, VerifyOne(u) \/ SaveRow(u) \/ SaveFails(u) PROVE Charged'
    <2>1. /\ UNCHANGED <<tracker, baseline, answer, vsummary>>
          /\ vpc \in {"pool", "failed"} /\ vpc' \in {"pool", "failed"}
      BY <1>4 DEF VerifyOne, Submitted, SaveRow, SaveFails
    <2>2. \A v \in Units : vstage'[v] \in {"answered", "saved"}
                             <=> vstage[v] \in {"answered", "saved"}
      <3>1. CASE VerifyOne(u) BY <3>1 DEF VerifyOne, Submitted, LedgerTypes
      <3>2. CASE SaveRow(u) BY <3>2 DEF SaveRow, LedgerTypes
      <3>3. CASE SaveFails(u) BY <3>3 DEF SaveFails
      <3> QED BY <1>4, <3>1, <3>2, <3>3
    <2>3. Unconsumed' = Unconsumed BY <2>2 DEF Unconsumed
    <2> QED BY <1>3, <2>1, <2>3
  <1>5. ASSUME NEW u \in Units, NEW kind \in VerifyKinds, NEW c \in Costs, Verified(u, kind, c)
        PROVE  Charged'
    <2>1. UNCHANGED <<vpc, baseline, vsummary>> /\ tracker' = tracker + c
      BY <1>5 DEF Verified
    <2>2. Usage(answer', Unconsumed') = Usage(answer, Unconsumed) + c /\ c \in Nat
      BY <1>5, AnswerPaid
    <2>3. Usage(answer, Unconsumed)' = Usage(answer, Unconsumed) + c BY <2>2
    <2> QED BY <1>s, <2>1, <2>2, <2>3 DEF Charged
  <1>6. ASSUME NEW u \in Units, CountRow(u) PROVE Charged'
    <2>1. /\ UNCHANGED <<tracker, vpc, baseline, answer>> /\ vpc = "pool"
          /\ vstage[u] = "saved" /\ vstage' = [vstage EXCEPT ![u] = "counted"]
          /\ vsummary'.usage = vsummary.usage + answer[u].usage
      BY <1>6 DEF CountRow
    <2>2. u \in Unconsumed /\ Unconsumed' = Unconsumed \ {u}
      BY <2>1 DEF Unconsumed, LedgerTypes
    <2>3. answer \in Table /\ Unconsumed \in SUBSET Units BY DEF LedgerTypes, Unconsumed
    <2>4. Usage(answer, Unconsumed) = Cost(answer[u]) + Usage(answer, Unconsumed')
      BY <2>2, <2>3, UsageSplit
    <2>5. Cost(answer[u]) = answer[u].usage /\ Cost(answer[u]) \in Nat
      <3>1. answer[u] # NoRow BY <2>1 DEF Batched
      <3> QED BY <2>3, <3>1, CostType DEF Cost, Table
    <2>6. Usage(answer, Unconsumed') \in Nat BY <2>2, <2>3, UsageType
    <2>7. Usage(answer, Unconsumed)' = Usage(answer, Unconsumed') BY <2>1
    <2> QED BY <1>s, <2>1, <2>4, <2>5, <2>6, <2>7 DEF Charged
  <1>7. CASE Interrupt \/ PoolDone
    <2>1. /\ UNCHANGED <<tracker, baseline, answer, vsummary, vstage>> /\ vpc = "pool"
      BY <1>7 DEF Interrupt, PoolDone
    <2>2. Unconsumed' = Unconsumed BY <2>1 DEF Unconsumed
    <2> QED BY <1>3, <2>1, <2>2
  <1>8. ASSUME NEW c \in Costs \cup {0}, CheckConsistency(c) PROVE Charged'
    <2>1. /\ UNCHANGED <<baseline, answer, vsummary, vstage>> /\ vpc = "done"
          /\ vpc' = "checked" /\ tracker' = tracker + c
      BY <1>8 DEF CheckConsistency
    <2>2. Unconsumed' = Unconsumed BY <2>1 DEF Unconsumed
    <2>3. c \in Nat BY LedgerAssumption
    <2>4. Usage(answer, Unconsumed)' = Usage(answer, Unconsumed) BY <2>1, <2>2
    <2> QED BY <1>s, <2>1, <2>3, <2>4 DEF Charged
  <1> QED BY <1>1, <1>2, <1>4, <1>5, <1>6, <1>7, <1>8 DEF Verify

LEMMA EndCharged == ASSUME EndProcess PROVE Charged'
  BY DEF EndProcess, Charged

-----------------------------------------------------------------------------
(* The theorems.                                                           *)

LEMMA AccountsStart == VerifyInit => LedgerInv /\ AccountInv
  <1> SUFFICES ASSUME VerifyInit PROVE LedgerInv /\ AccountInv OBVIOUS
  <1>1. /\ ckpt = NoRows /\ pc = "idle" /\ scope = {} /\ stage = AllOut /\ held = NoRows
        /\ tracker = 0 /\ summaryCost = 0 /\ spent = 0
        /\ verified = NoRows /\ vpc = "none" /\ batch = {}
        /\ vstage = AllOut /\ answer = NoRows /\ vsummary = Blank /\ baseline = 0
    BY DEF VerifyInit, Init
  <1>2. LedgerTypes BY <1>1, BlankTables DEF LedgerTypes, Amounts
  <1>3. Staged BY <1>1 DEF Staged, AllOut
  <1>4. Paid
    <2>1. /\ Usage(ckpt, Units) = 0 /\ Usage(held, Unsaved) = 0 /\ Usage(verified, Units) = 0
          /\ Usage(answer, Unstored) = 0
      BY <1>1, BlankTables DEF Unsaved, Unstored
    <2> QED BY <1>1, <2>1 DEF Paid
  <1>5. Batched BY <1>1 DEF Batched, AllOut, NoRows
  <1>6. Summed
    <2>1. \A kind : Consumed(kind) = {} BY <1>1 DEF Consumed
    <2> QED BY <1>1, <2>1, FS_EmptySet DEF Summed, Blank
  <1>7. Charged BY <1>1 DEF Charged
  <1> QED BY <1>2, <1>3, <1>4, <1>5, <1>6, <1>7 DEF LedgerInv, AccountInv

LEMMA AccountsStep ==
    LedgerInv /\ AccountInv /\ [Analyze \/ Verify \/ EndProcess]_<<vars, verification>>
      => (LedgerInv /\ AccountInv)'
  <1> SUFFICES ASSUME LedgerInv, AccountInv,
                      [Analyze \/ Verify \/ EndProcess]_<<vars, verification>>
               PROVE  (LedgerInv /\ AccountInv)'
    OBVIOUS
  <1>1. LedgerTypes /\ Staged /\ Paid /\ Batched /\ Summed /\ Charged
    BY DEF LedgerInv, AccountInv
  <1>2. CASE Analyze
    <2>1. LedgerTypes' BY <1>1, <1>2, AnalyzeTypes
    <2>2. Staged' BY <1>1, <1>2, AnalyzeStaged
    <2>3. Paid' BY <1>1, <1>2, <2>1, AnalyzePaid
    <2>4. AccountInv' BY <1>1, <1>2, AnalyzeAccounts
    <2> QED BY <2>1, <2>2, <2>3, <2>4 DEF LedgerInv
  <1>3. CASE Verify
    <2>1. LedgerTypes' BY <1>1, <1>3, VerifyTypes
    <2>2. Staged' BY <1>1, <1>3, VerifyStaged
    <2>3. Paid' BY <1>1, <1>3, <2>1, VerifyPaid
    <2>4. Batched' BY <1>1, <1>3, <2>1, BatchedStep
    <2>5. Summed' BY <1>1, <1>3, <2>1, SummedStep
    <2>6. Charged' BY <1>1, <1>3, <2>1, ChargedStep
    <2> QED BY <2>1, <2>2, <2>3, <2>4, <2>5, <2>6 DEF LedgerInv, AccountInv
  <1>4. CASE EndProcess
    BY <1>1, <1>4, EndTypes, EndStaged, EndPaid, EndBatched, EndSummed, EndCharged
    DEF LedgerInv, AccountInv
  <1>5. CASE UNCHANGED <<vars, verification>>
    BY <1>5 DEF LedgerInv, LedgerTypes, Amounts, Staged, Paid, AccountInv, Batched, Summed,
                Charged, Consumed, Unsaved, Uncounted, Unstored, Unconsumed, vars, verification
  <1> QED BY <1>2, <1>3, <1>4, <1>5

LEMMA AccountsAlways == VerifySpec => [](LedgerInv /\ AccountInv)
  <1> QED BY AccountsStart, AccountsStep, PTL DEF VerifySpec

LEMMA LedgersFollow == LedgerInv => LedgersAgree
  <1> SUFFICES ASSUME LedgerInv PROVE LedgersAgree OBVIOUS
  <1>1. LedgerTypes /\ Staged /\ Paid BY DEF LedgerInv
  <1>2. tracker \in Nat /\ summaryCost \in Nat /\ Usage(ckpt, scope) \in Nat
        /\ Usage(held, Unsaved) \in Nat
    BY <1>1, SumTypes
  <1>3. ASSUME pc = "summed" PROVE summaryCost = tracker
    <2>1. Uncounted = {} BY <1>1, <1>3 DEF Staged, Uncounted
    <2>2. Usage(held, {}) = 0 BY <1>1, UsageNone DEF LedgerTypes
    <2> QED BY <1>1, <1>2, <1>3, <2>1, <2>2 DEF Paid
  <1>4. ASSUME pc = "done" PROVE tracker >= Usage(ckpt, scope)
    BY <1>1, <1>2, <1>4 DEF Paid
  <1> QED BY <1>1, <1>3, <1>4 DEF LedgersAgree, Paid

LEMMA CountsFollow == LedgerTypes /\ Batched /\ Summed => VerifyCounts
  <1> SUFFICES ASSUME LedgerTypes, Batched, Summed PROVE VerifyCounts OBVIOUS
  <1>0. batch \in SUBSET Units /\ IsFiniteSet(batch) /\ Cardinality(batch) \in Nat
    BY ConsumedIs, FS_CardinalityType DEF LedgerTypes
  <1>1. ASSUME NEW u \in batch, vstage[u] \in {"restored", "counted"} PROVE verified[u] # NoRow
    BY <1>0, <1>1 DEF Batched
  <1>2. ASSUME NEW kind
        PROVE  /\ Consumed(kind) \subseteq Of(kind, batch)
               /\ vpc = "done" => Consumed(kind) = Of(kind, batch)
    BY <1>1 DEF Consumed, Of, Batched
  <1>3. ASSUME NEW kind
        PROVE  /\ Cardinality(Consumed(kind)) <= Cardinality(Of(kind, batch))
               /\ vpc = "done" => Cardinality(Consumed(kind)) = Cardinality(Of(kind, batch))
    <2>1. IsFiniteSet(Of(kind, batch)) BY <1>0, CountedFinite
    <2> QED BY <1>2, <2>1, FS_Subset
  <1>4. vsummary.completed + vsummary.incomplete + vsummary.errors <= Cardinality(batch)
    <2> DEFINE A == Consumed("verdict")
               B == Consumed("incomplete")
               C == Consumed("error")
    <2>1. /\ IsFiniteSet(A) /\ IsFiniteSet(B) /\ IsFiniteSet(C)
          /\ Cardinality(A) \in Nat /\ Cardinality(B) \in Nat /\ Cardinality(C) \in Nat
      BY ConsumedIs
    <2>2. A \cap B = {} /\ (A \cup B) \cap C = {} /\ (A \cup B) \cup C \subseteq batch
      BY DEF Consumed
    <2> HIDE DEF A, B, C
    <2>3. IsFiniteSet(A \cup B) /\ Cardinality(A \cup B) = Cardinality(A) + Cardinality(B)
      <3>1. Cardinality(A \cap B) = 0 BY <2>2, FS_EmptySet
      <3>2. /\ IsFiniteSet(A \cup B)
            /\ Cardinality(A \cup B)
                 = Cardinality(A) + Cardinality(B) - Cardinality(A \cap B)
        BY <2>1, FS_Union
      <3> QED BY <2>1, <3>1, <3>2
    <2>4. Cardinality((A \cup B) \cup C) = Cardinality(A \cup B) + Cardinality(C)
      <3>1. Cardinality((A \cup B) \cap C) = 0 BY <2>2, FS_EmptySet
      <3> QED BY <2>1, <2>3, <3>1, FS_Union
    <2>5. Cardinality((A \cup B) \cup C) <= Cardinality(batch) BY <1>0, <2>2, FS_Subset
    <2> QED BY <2>1, <2>3, <2>4, <2>5 DEF Summed, A, B, C
  <1> QED BY <1>3, <1>4 DEF VerifyCounts, Summed

LEMMA LedgerFollows == LedgerTypes /\ Batched /\ Charged /\ vpc # "none" => VerifyLedger
  <1> SUFFICES ASSUME LedgerTypes, Batched, Charged, vpc # "none" PROVE VerifyLedger OBVIOUS
  <1>1. /\ tracker \in Nat /\ baseline \in Nat /\ vsummary.usage \in Nat
        /\ Usage(answer, Unconsumed) \in Nat
    BY SumTypes
  <1>2. vsummary.usage <= tracker - baseline BY <1>1 DEF Charged
  <1>3. ASSUME vpc = "done"
        PROVE  /\ vsummary.usage = tracker - baseline
               /\ \A u \in batch : answer[u] # NoRow => verified[u] = answer[u]
    <2>1. \A u \in Units : vstage[u] \in {"out", "restored", "counted"}
      BY <1>3 DEF Batched, LedgerTypes
    <2>2. Unconsumed = {} BY <2>1 DEF Unconsumed
    <2>3. Usage(answer, {}) = 0 BY UsageNone DEF LedgerTypes
    <2>4. \A u \in batch : answer[u] # NoRow => verified[u] = answer[u]
      BY <2>1 DEF Batched, LedgerTypes
    <2>5. baseline + vsummary.usage + Usage(answer, Unconsumed) = tracker
      BY <1>3 DEF Charged
    <2> QED BY <1>1, <2>2, <2>3, <2>4, <2>5
  <1> QED BY <1>2, <1>3 DEF VerifyLedger

\* Whatever runs are started, retried, killed or followed by a verify step in
\* the same process, the cost the analyze step reports covers every answer it
\* presents, its _summary.json and the tracker agree when it says "done", and no
\* call is charged twice.
THEOREM LedgersTrue == VerifySpec => []LedgersAgree
  <1>1. LedgerInv /\ AccountInv => LedgersAgree BY LedgersFollow
  <1> QED BY <1>1, AccountsAlways, PTL

\* At any moment of the verify pool, and after an interrupt or a failed save,
\* _summary.json of the step claims no finding and no spend that is not there;
\* when the pool has ended by itself it claims them all.
THEOREM AccountsTrue == VerifySpec => []VerifyAccounts
  <1>1. LedgerInv /\ AccountInv => VerifyAccounts
    BY CountsFollow, LedgerFollows DEF LedgerInv, AccountInv, VerifyAccounts
  <1> QED BY <1>1, AccountsAlways, PTL

=============================================================================
