------------------------ MODULE EnhanceAgents_proofs ------------------------
(***************************************************************************)
(* What the enhance step says it has spent and counted is true, for any    *)
(* units, threads, prices, rounds and runs, and a window that a provider   *)
(* has asked for is honoured by every thread.                              *)
(*                                                                         *)
(* The library defines a sum over a set by recursion.  It is shown here to *)
(* be the size of a set, that of the coins paid for each element; what is  *)
(* said of sums then follows from what is known of sizes.                  *)
(***************************************************************************)
EXTENDS EnhanceAgents, FiniteSetTheorems, WellFoundedInduction, TLAPS

-----------------------------------------------------------------------------
(* Sums.                                                                   *)

LEMMA Least == ASSUME NEW S, S \subseteq Nat, S # {}
               PROVE  \E n \in S : \A m \in S : n <= m
  <1> DEFINE R == OpToRel(<, Nat)
  <1>1. IsWellFoundedOn(R, Nat) BY NatLessThanWellFounded
  <1>2. \E n \in S : \A m \in S : <<m, n>> \notin R
    <2> HIDE DEF R
    <2> QED BY <1>1, WFMin
  <1>3. PICK n \in S : \A m \in S : <<m, n>> \notin R BY <1>2
  <1>4. \A m \in S : ~(m < n) BY <1>3 DEF OpToRel
  <1> HIDE DEF R
  <1>5. \A m \in S : n <= m BY <1>4
  <1> QED BY <1>5

Price(amount, u) == {u} \X (1..amount[u])
Coins(amount, S) == UNION {Price(amount, u) : u \in S}
Worth(amount, S) == Cardinality(Coins(amount, S))

LEMMA PriceIs ==
    ASSUME NEW amount, NEW u, amount[u] \in Nat
    PROVE  IsFiniteSet(Price(amount, u)) /\ Cardinality(Price(amount, u)) = amount[u]
  <1> DEFINE n == amount[u]
  <1>0. n \in Nat /\ Price(amount, u) = {u} \X (1..n) BY DEF Price
  <1> HIDE DEF n
  <1>1. IsFiniteSet(1..n) /\ Cardinality(1..n) = n
    <2>1. 1 \in Int /\ n \in Int BY <1>0
    <2>2. IsFiniteSet(1..n) /\ Cardinality(1..n) = IF 1 > n THEN 0 ELSE n - 1 + 1
      BY <2>1, FS_Interval
    <2> QED BY <1>0, <2>2
  <1>2. IsFiniteSet({u}) /\ Cardinality({u}) = 1 BY FS_Singleton
  <1>3. /\ IsFiniteSet({u} \X (1..n))
        /\ Cardinality({u} \X (1..n)) = Cardinality({u}) * Cardinality(1..n)
    BY <1>1, <1>2, FS_Product
  <1> QED BY <1>0, <1>1, <1>2, <1>3 DEF n

LEMMA CoinsFinite ==
    ASSUME NEW amount, NEW S, IsFiniteSet(S), \A u \in S : amount[u] \in Nat
    PROVE  IsFiniteSet(Coins(amount, S)) /\ Worth(amount, S) \in Nat
  <1> DEFINE T == {Price(amount, u) : u \in S}
             f == [u \in S |-> Price(amount, u)]
  <1>1. f \in Surjection(S, T) BY DEF Surjection
  <1>2. IsFiniteSet(T) BY <1>1, FS_Surjection
  <1>3. \A p \in T : IsFiniteSet(p) BY PriceIs
  <1> QED BY <1>2, <1>3, FS_UNION, FS_CardinalityType DEF Coins, Worth

LEMMA CoinsSplit ==
    ASSUME NEW amount, NEW S, IsFiniteSet(S), \A u \in S : amount[u] \in Nat, NEW x \in S
    PROVE  Worth(amount, S) = amount[x] + Worth(amount, S \ {x})
  <1>1. IsFiniteSet(S \ {x}) BY FS_RemoveElement
  <1>2. /\ IsFiniteSet(Coins(amount, S \ {x})) /\ Cardinality(Coins(amount, S \ {x})) \in Nat
        /\ IsFiniteSet(Price(amount, x)) /\ Cardinality(Price(amount, x)) = amount[x]
    BY <1>1, CoinsFinite, PriceIs DEF Worth
  <1>3. Coins(amount, S) = Price(amount, x) \cup Coins(amount, S \ {x}) BY DEF Coins
  <1>4. Price(amount, x) \cap Coins(amount, S \ {x}) = {}
    <2>1. ASSUME NEW u, NEW c \in Price(amount, u) PROVE c[1] = u
      <3> DEFINE T == 1..amount[u]
      <3> HIDE DEF T
      <3>1. c \in {u} \X T BY DEF Price, T
      <3> QED BY <3>1
    <2>2. \A c \in Coins(amount, S \ {x}) : c[1] # x BY <2>1 DEF Coins
    <2> QED BY <2>1, <2>2
  <1>5. Cardinality(Price(amount, x) \cap Coins(amount, S \ {x})) = 0 BY <1>4, FS_EmptySet
  <1>6. Cardinality(Price(amount, x) \cup Coins(amount, S \ {x}))
          = Cardinality(Price(amount, x)) + Cardinality(Coins(amount, S \ {x}))
              - Cardinality(Price(amount, x) \cap Coins(amount, S \ {x}))
    BY <1>2, FS_Union
  <1> QED BY <1>2, <1>3, <1>5, <1>6 DEF Worth

\* The recursion of the library,
Adds(f, amount, S) ==
    f = [s \in SUBSET S |-> IF s = {} THEN 0
                            ELSE LET x == CHOOSE x \in s : TRUE
                                 IN  amount[x] + f[s \ {x}]]

\* has the sizes for its solution,
LEMMA WorthsAdd ==
    ASSUME NEW amount, NEW S, IsFiniteSet(S), \A u \in S : amount[u] \in Nat
    PROVE  Adds([s \in SUBSET S |-> Worth(amount, s)], amount, S)
  <1> DEFINE f == [s \in SUBSET S |-> Worth(amount, s)]
  <1>1. ASSUME NEW s \in SUBSET S
        PROVE  f[s] = IF s = {} THEN 0
                      ELSE LET x == CHOOSE x \in s : TRUE IN amount[x] + f[s \ {x}]
    <2>1. CASE s = {}
      <3>1. Coins(amount, {}) = {} BY DEF Coins
      <3> QED BY <2>1, <3>1, FS_EmptySet DEF Worth
    <2>2. CASE s # {}
      <3> DEFINE x == CHOOSE x \in s : TRUE
      <3>1. x \in s /\ s \ {x} \in SUBSET S BY <2>2
      <3>2. IsFiniteSet(s) BY FS_Subset
      <3> HIDE DEF x
      <3>3. f[s] = amount[x] + f[s \ {x}] BY <3>1, <3>2, CoinsSplit
      <3> HIDE DEF f
      <3> QED BY <2>2, <3>3 DEF x
    <2> QED BY <2>1, <2>2
  <1> HIDE DEF f
  <1>2. f = [s \in SUBSET S |-> f[s]] BY DEF f
  <1> QED BY <1>1, <1>2 DEF Adds, f

\* and no other.
LEMMA AddsOnce ==
    ASSUME NEW amount, NEW S, IsFiniteSet(S), NEW f, Adds(f, amount, S), NEW g, Adds(g, amount, S)
    PROVE  f[S] = g[S]
  <1> DEFINE Wrong == {s \in SUBSET S : f[s] # g[s]}
             sizes == {n \in Nat : \E s \in Wrong : Cardinality(s) = n}
  <1>1. \A s \in SUBSET S : IsFiniteSet(s) /\ Cardinality(s) \in Nat
    BY FS_Subset, FS_CardinalityType
  <1> SUFFICES ASSUME S \in Wrong PROVE FALSE OBVIOUS
  <1>2. sizes # {} BY <1>1
  <1>3. PICK n \in sizes : \A m \in sizes : n <= m
    <2> HIDE DEF Wrong
    <2> QED BY <1>2, Least
  <1>4. PICK s \in Wrong : Cardinality(s) = n BY <1>3
  <1>5. /\ f[s] = IF s = {} THEN 0
                  ELSE LET x == CHOOSE x \in s : TRUE IN amount[x] + f[s \ {x}]
        /\ g[s] = IF s = {} THEN 0
                  ELSE LET x == CHOOSE x \in s : TRUE IN amount[x] + g[s \ {x}]
    BY DEF Adds
  <1>6. s # {} BY <1>5
  <1> DEFINE x == CHOOSE x \in s : TRUE
  <1>7. x \in s BY <1>6
  <1>8. f[s] = amount[x] + f[s \ {x}] /\ g[s] = amount[x] + g[s \ {x}]
    BY <1>5, <1>6
  <1> HIDE DEF x
  <1>9. s \ {x} \in Wrong BY <1>8
  <1>10. Cardinality(s \ {x}) = n - 1 BY <1>1, <1>4, <1>7, FS_RemoveElement
  <1>11. n - 1 \in sizes BY <1>1, <1>9, <1>10
  <1> QED BY <1>3, <1>11

LEMMA SumIsWorth ==
    ASSUME NEW amount, NEW S, IsFiniteSet(S), \A u \in S : amount[u] \in Nat
    PROVE  MapThenSumSet(LAMBDA u : amount[u], S) = Worth(amount, S)
  <1> DEFINE g == CHOOSE f : Adds(f, amount, S)
             h == [s \in SUBSET S |-> Worth(amount, s)]
  <1>1. Adds(h, amount, S) BY WorthsAdd
  <1>2. Adds(g, amount, S) BY <1>1
  <1>3. h[S] = Worth(amount, S) OBVIOUS
  <1>4. MapThenSumSet(LAMBDA u : amount[u], S) = g[S]
    BY DEF MapThenSumSet, MapThenFoldSet, Adds
  <1> HIDE DEF g, h
  <1>5. g[S] = h[S] BY <1>1, <1>2, AddsOnce
  <1> QED BY <1>3, <1>4, <1>5

\* The same of a sum of the usage of rows.
AddsUsage(f, rows, S) ==
    f = [s \in SUBSET S |-> IF s = {} THEN 0
                            ELSE LET x == CHOOSE x \in s : TRUE
                                 IN  rows[x].usage + f[s \ {x}]]

LEMMA UsageIsAmount ==
    ASSUME NEW rows, NEW amount, NEW S, \A u \in S : amount[u] = rows[u].usage, NEW f
    PROVE  AddsUsage(f, rows, S) <=> Adds(f, amount, S)
  <1> DEFINE A == [s \in SUBSET S |-> IF s = {} THEN 0
                     ELSE LET x == CHOOSE x \in s : TRUE IN amount[x] + f[s \ {x}]]
             B == [s \in SUBSET S |-> IF s = {} THEN 0
                     ELSE LET x == CHOOSE x \in s : TRUE IN rows[x].usage + f[s \ {x}]]
  <1>1. ASSUME NEW s \in SUBSET S
        PROVE  (IF s = {} THEN 0
                ELSE LET x == CHOOSE x \in s : TRUE IN amount[x] + f[s \ {x}])
             = (IF s = {} THEN 0
                ELSE LET x == CHOOSE x \in s : TRUE IN rows[x].usage + f[s \ {x}])
    <2>1. CASE s = {} BY <2>1
    <2>2. CASE s # {}
      <3> DEFINE x == CHOOSE x \in s : TRUE
      <3>1. x \in S BY <2>2
      <3> HIDE DEF x
      <3>2. amount[x] + f[s \ {x}] = rows[x].usage + f[s \ {x}] BY <3>1
      <3> QED BY <2>2, <3>2 DEF x
    <2> QED BY <2>1, <2>2
  <1>2. A = B BY <1>1
  <1> QED BY <1>2 DEF Adds, AddsUsage

LEMMA UsageIsWorth ==
    ASSUME NEW rows, NEW amount, NEW S, IsFiniteSet(S),
           \A u \in S : amount[u] \in Nat /\ amount[u] = rows[u].usage
    PROVE  MapThenSumSet(LAMBDA u : rows[u].usage, S) = Worth(amount, S)
  <1> DEFINE g == CHOOSE f : AddsUsage(f, rows, S)
             h == [s \in SUBSET S |-> Worth(amount, s)]
  <1>1. Adds(h, amount, S) BY WorthsAdd
  <1>2. AddsUsage(h, rows, S)
    <2> HIDE DEF h
    <2> QED BY <1>1, UsageIsAmount
  <1>3. AddsUsage(g, rows, S) BY <1>2
  <1>4. h[S] = Worth(amount, S) OBVIOUS
  <1>5. MapThenSumSet(LAMBDA u : rows[u].usage, S) = g[S]
    BY DEF MapThenSumSet, MapThenFoldSet, AddsUsage
  <1> HIDE DEF g, h
  <1>6. Adds(g, amount, S) BY <1>3, UsageIsAmount
  <1>7. g[S] = h[S] BY <1>1, <1>6, AddsOnce
  <1> QED BY <1>4, <1>5, <1>7

Amounts == [Units -> Nat]

LEMMA WorthType ==
    ASSUME NEW amount \in Amounts, NEW S \in SUBSET Units
    PROVE  IsFiniteSet(S) /\ Worth(amount, S) \in Nat
  <1>1. IsFiniteSet(S) BY EnhanceAssumption, FS_Subset
  <1> QED BY <1>1, CoinsFinite DEF Amounts

\* What is worth nothing adds nothing.
LEMMA WorthOf ==
    ASSUME NEW amount, NEW other, NEW S, NEW T \in SUBSET S,
           \A u \in T : other[u] = amount[u], \A u \in S \ T : amount[u] = 0
    PROVE  Worth(amount, S) = Worth(other, T)
  <1>1. \A u \in T : Price(amount, u) = Price(other, u) BY DEF Price
  <1>2. ASSUME NEW u \in S \ T PROVE Price(amount, u) = {}
    <2>1. 1..amount[u] = {} BY <1>2
    <2> QED BY <2>1 DEF Price
  <1>3. Coins(amount, S) = Coins(other, T)
    <2>1. ASSUME NEW c \in Coins(amount, S) PROVE c \in Coins(other, T)
      <3>1. PICK u \in S : c \in Price(amount, u) BY DEF Coins
      <3>2. u \in T BY <1>2, <3>1
      <3> QED BY <1>1, <3>1, <3>2 DEF Coins
    <2>2. ASSUME NEW c \in Coins(other, T) PROVE c \in Coins(amount, S)
      <3>1. PICK u \in T : c \in Price(other, u) BY DEF Coins
      <3> QED BY <1>1, <3>1 DEF Coins
    <2> QED BY <2>1, <2>2
  <1> QED BY <1>3 DEF Worth

LEMMA WorthNothing ==
    ASSUME NEW amount, NEW S, \A u \in S : amount[u] = 0
    PROVE  Worth(amount, S) = 0
  <1>1. Worth(amount, S) = Worth(amount, {}) BY WorthOf
  <1>2. Coins(amount, {}) = {} BY DEF Coins
  <1> QED BY <1>1, <1>2, FS_EmptySet DEF Worth

\* The worth of one element changes.
LEMMA WorthPoint ==
    ASSUME NEW f \in Amounts, NEW g \in Amounts, NEW S \in SUBSET Units, NEW x \in S,
           \A u \in S \ {x} : g[u] = f[u]
    PROVE  Worth(g, S) + f[x] = Worth(f, S) + g[x]
  <1>1. S \ {x} \in SUBSET Units /\ f[x] \in Nat /\ g[x] \in Nat BY DEF Amounts
  <1>2. Worth(g, S \ {x}) = Worth(f, S \ {x}) BY WorthOf
  <1>3. Worth(f, S) = f[x] + Worth(f, S \ {x}) /\ Worth(g, S) = g[x] + Worth(g, S \ {x})
    <2>1. IsFiniteSet(S) BY WorthType
    <2>2. \A u \in S : f[u] \in Nat /\ g[u] \in Nat BY DEF Amounts
    <2> QED BY <2>1, <2>2, CoinsSplit
  <1>4. Worth(f, S \ {x}) \in Nat BY <1>1, WorthType
  <1> QED BY <1>1, <1>2, <1>3, <1>4

LEMMA WorthSame ==
    ASSUME NEW f, NEW g, NEW S, \A u \in S : g[u] = f[u]
    PROVE  Worth(g, S) = Worth(f, S)
  BY WorthOf


-----------------------------------------------------------------------------
(* The invariant.                                                          *)

Summaries == [phase : {"in_progress", "done"}, total : Nat, completed : Nat,
              incomplete : Nat, errors : Nat, usage : Nat]

RowsOf == [Units -> [outcome : Outcomes, usage : Nat] \cup {NoRow}]

\* The types of all but the summary, which is one of Summaries because its
\* counts are sizes.
StepTypes ==
    /\ row \in RowsOf /\ context \in RowsOf
    /\ pc \in {"idle", "load", "pool", "retry", "retrySave", "retryFold",
               "done", "gone"}
    /\ stage \in [Units -> {"out", "restored", "queued", "asked", "answered",
                            "saved", "raised", "folded"}]
    /\ scope \subseteq Units /\ seeded \subseteq Units /\ todo \subseteq Units
    /\ prior \in Amounts /\ durable \in Amounts
    /\ round \in 0..MaxRounds /\ recovered \in Nat /\ tracker \in Nat
    /\ runs \in 0..MaxRuns

Retrying == {"retry", "retrySave", "retryFold", "done"}
Live     == {"pool"} \cup Retrying

\* How far a unit may be, and what its row and its context then are.
UnitPlaced(u) ==
    /\ stage[u] = "out" => u \notin scope \/ pc \notin Live
    /\ stage[u] # "out" => u \in scope
    /\ stage[u] \in {"answered", "saved", "raised", "folded", "restored"} => context[u] # NoRow
    /\ stage[u] = "restored" => Settled(row[u]) /\ context[u].outcome = row[u].outcome
    /\ stage[u] \in {"saved", "folded"} => row[u] # NoRow /\ row[u].outcome = context[u].outcome
    /\ stage[u] \in {"queued", "asked", "answered"} => ~Settled(row[u])
    /\ pc = "pool" /\ u \in seeded =>
          u \in scope /\ stage[u] \in {"queued", "asked", "answered", "saved", "raised"}
    /\ pc \in Retrying => stage[u] \notin {"queued", "raised"}
    /\ pc \in {"retry", "done"} /\ u \in scope => stage[u] \in {"restored", "folded"}
    /\ pc \in Retrying /\ u \in todo => stage[u] = "folded" /\ context[u].outcome = "transient"

Placed ==
    /\ pc \in {"idle", "load"} => stage = AllOut /\ tracker = 0
    /\ pc \in {"idle", "load", "pool"} => todo = {}
    /\ pc \in Retrying => seeded = {}
    /\ pc \in {"retrySave", "retryFold"} =>
          \A u, v \in At({"asked", "answered", "saved"}) : u = v
    /\ \A u \in Units : UnitPlaced(u)

\* What the attempts on a unit have cost is in its row; until it is saved
\* again, in its prior spend.
Costed(u) ==
    /\ durable[u] = IF row[u] = NoRow THEN 0 ELSE row[u].usage
    /\ stage[u] \in {"queued", "asked", "answered"} => prior[u] = durable[u]
    /\ stage[u] \in {"saved", "folded"} => durable[u] = prior[u] + context[u].usage

\* What is charged and not in the summary yet, or not on disk.
Unfolded == [u \in Units |-> IF stage[u] \in {"answered", "saved", "raised"}
                             THEN context[u].usage ELSE 0]
Unsaved  == [u \in Units |-> IF stage[u] \in {"answered", "raised"}
                             THEN context[u].usage ELSE 0]

Charged ==
    pc \in Live =>
        /\ summary.usage + Worth(Unfolded, Units) = tracker
        /\ Worth(durable, scope) + Worth(Unsaved, Units) = tracker

\* The units that the summary counts as completed or incomplete, and as errors.
Told(o) == {u \in scope : stage[u] \in {"restored", "folded"} /\ context[u].outcome = o}
Erred   == seeded \cup {u \in scope : \/ stage[u] = "folded" /\ context[u].outcome \in Failures
                                      \/ pc \in {"retrySave", "retryFold"}
                                           /\ stage[u] \in {"asked", "answered", "saved"}}

Counted ==
    /\ summary \in Summaries
    /\ summary.total = Cardinality(scope)
    /\ summary.completed = Cardinality(Told("verdict"))
    /\ summary.incomplete = Cardinality(Told("incomplete"))
    /\ summary.errors = Cardinality(Erred)

\* What a summary claims, it may claim in every later state.
Kept ==
    \/ summary = NoSummary
    \/ /\ summary \in Summaries
       /\ summary.completed + summary.incomplete + summary.errors <= summary.total
       /\ summary.completed <= Cardinality(With(Units, "verdict"))

StepInv ==
    /\ StepTypes /\ Placed /\ (\A u \in Units : Costed(u)) /\ Charged
    /\ (pc \in Live => Counted) /\ Kept

\* A conversation is under way just while its unit is asked, and has recorded
\* what it was billed.
AgentInv ==
    /\ turns \in Amounts /\ total \in Amounts /\ billed \in Amounts
    /\ at \in [Units -> {"away", "ready", "asleep", "cleared", "calling"}]
    /\ \A u \in Units :
          /\ at[u] # "away" <=> stage[u] = "asked"
          /\ stage[u] = "asked" => total[u] = billed[u]
          /\ stage[u] = "answered" => context[u].usage = billed[u]

\* The end of the backoff is that of the longest window asked for.
LimiterInv == remaining = promised


-----------------------------------------------------------------------------
(* The steps, without what the conversations and the limiter do in them.   *)

AnswerAny(u) == \E o \in Outcomes, c \in Nat : Answer(u, o, c)

StepNext == StepWork \/ Environment \/ \E u \in Units : UnitWork(u) \/ AnswerAny(u)

LEMMA StepsAre ==
    ASSUME AgentInv, Working \/ Disturbance
    PROVE  StepNext \/ UNCHANGED vars
  <1>1. CASE Rest BY <1>1 DEF Rest, StepNext, StepWork, UnitWork
  <1>2. CASE Time BY <1>2 DEF Time
  <1>3. CASE Exit BY <1>3 DEF StepNext, StepWork
  <1>4. ASSUME NEW u \in Units, Start(u) PROVE StepNext
    BY <1>4 DEF Start, StepNext, UnitWork
  <1>5. ASSUME NEW u \in Units, Wait(u) \/ Turn(u) \/ Tools(u) PROVE UNCHANGED vars
    BY <1>5 DEF Wait, Turn, Tools
  <1>6. ASSUME NEW u \in Units, End(u) \/ Fail(u) \/ Throttled(u) PROVE StepNext
    <2>1. total[u] \in Nat BY DEF AgentInv, Amounts
    <2>2. \A c \in TurnCosts \cup {0} : total[u] + c \in Nat BY <2>1, AgentsAssumption
    <2>3. AnswerAny(u)
      <3>1. CASE End(u)
        BY <2>2, <3>1 DEF End, AnswerAny, Agent!Endings, Agent!Recorded, Outcomes
      <3>2. CASE Fail(u)
        BY <2>2, <3>2 DEF Fail, AnswerAny, Failures, Agent!RecordedRaise, Outcomes
      <3>3. CASE Throttled(u)
        BY <2>2, <3>3 DEF Throttled, AnswerAny, Agent!RecordedRaise, Outcomes
      <3> QED BY <1>6, <3>1, <3>2, <3>3
    <2> QED BY <2>3 DEF StepNext
  <1>7. CASE Disturbance BY <1>7 DEF Disturbance, StepNext, Environment
  <1> QED BY <1>1, <1>2, <1>3, <1>4, <1>5, <1>6, <1>7 DEF Working

-----------------------------------------------------------------------------
(* Types.                                                                  *)

LEMMA RowTypes ==
    ASSUME StepTypes, NEW u \in Units
    PROVE  /\ row[u] # NoRow => row[u] \in [outcome : Outcomes, usage : Nat]
           /\ context[u] # NoRow => context[u] \in [outcome : Outcomes, usage : Nat]
           /\ row[u] # NoRow => row[u].usage \in Nat /\ row[u].outcome \in Outcomes
           /\ context[u] # NoRow => context[u].usage \in Nat /\ context[u].outcome \in Outcomes
  BY DEF StepTypes, RowsOf

LEMMA UsageIs ==
    ASSUME StepTypes, \A u \in Units : Costed(u), NEW S \in SUBSET Units
    PROVE  Usage(S) = Worth(durable, S) /\ Usage(S) \in Nat
  <1> DEFINE paid == {u \in S : row[u] # NoRow}
  <1>1. IsFiniteSet(paid) BY EnhanceAssumption, FS_Subset
  <1>2. \A u \in paid : durable[u] \in Nat /\ durable[u] = row[u].usage
    BY DEF Costed, StepTypes, Amounts
  <1>3. MapThenSumSet(LAMBDA u : row[u].usage, paid) = Worth(durable, paid)
    <2> HIDE DEF paid
    <2> QED BY <1>1, <1>2, UsageIsWorth
  <1>4. Worth(durable, S) = Worth(durable, paid)
    <2>1. \A u \in S \ paid : durable[u] = 0 BY DEF Costed
    <2>2. paid \in SUBSET S OBVIOUS
    <2> HIDE DEF paid
    <2> QED BY <2>1, <2>2, WorthOf
  <1>5. Worth(durable, S) \in Nat BY WorthType DEF StepTypes
  <1> QED BY <1>3, <1>4, <1>5 DEF Usage

\* One stage changes.
LEMMA StageMoves ==
    ASSUME StepTypes, NEW u \in Units,
           NEW s \in {"out", "restored", "queued", "asked", "answered", "saved", "raised", "folded"},
           stage' = [stage EXCEPT ![u] = s]
    PROVE  /\ stage'[u] = s /\ \A v \in Units \ {u} : stage'[v] = stage[v]
           /\ stage' \in [Units -> {"out", "restored", "queued", "asked", "answered",
                                    "saved", "raised", "folded"}]
  BY DEF StepTypes

\* A row is saved: it says what the attempt was and what all have cost.
LEMMA RowSaved ==
    ASSUME StepTypes, NEW u \in Units, context[u] # NoRow, SaveRow(u)
    PROVE  /\ row' \in RowsOf /\ durable' \in Amounts
           /\ row'[u] # NoRow /\ row'[u].outcome = context[u].outcome
           /\ row'[u].usage = context[u].usage + prior[u]
           /\ durable'[u] = durable[u] + context[u].usage
           /\ \A v \in Units \ {u} : row'[v] = row[v] /\ durable'[v] = durable[v]
  <1> DEFINE r == [outcome |-> context[u].outcome, usage |-> context[u].usage + prior[u]]
  <1>1. context[u].usage \in Nat /\ context[u].outcome \in Outcomes BY RowTypes
  <1>2. prior[u] \in Nat /\ durable[u] \in Nat BY DEF StepTypes, Amounts
  <1>3. /\ r \in [outcome : Outcomes, usage : Nat] /\ r.outcome = context[u].outcome
        /\ r.usage = context[u].usage + prior[u]
    BY <1>1, <1>2
  <1>4. r # NoRow BY <1>3, EnhanceAssumption
  <1>5. row' = [row EXCEPT ![u] = r] BY DEF SaveRow
  <1> HIDE DEF r
  <1>6. row' \in RowsOf /\ row'[u] = r /\ \A v \in Units \ {u} : row'[v] = row[v]
    BY <1>3, <1>5 DEF StepTypes, RowsOf
  <1>7. /\ durable' \in Amounts /\ durable'[u] = durable[u] + context[u].usage
        /\ \A v \in Units \ {u} : durable'[v] = durable[v]
    BY <1>1, <1>2 DEF SaveRow, StepTypes, Amounts
  <1> QED BY <1>3, <1>4, <1>6, <1>7

\* An attempt is answered.
LEMMA AnswerIs ==
    ASSUME StepTypes, NEW u \in Units, NEW o \in Outcomes, NEW c \in Nat, Answer(u, o, c)
    PROVE  /\ context' \in RowsOf /\ context'[u] # NoRow
           /\ context'[u].outcome = o /\ context'[u].usage = c
           /\ \A v \in Units \ {u} : context'[v] = context[v]
  <1> DEFINE r == [outcome |-> o, usage |-> c]
  <1>1. r \in [outcome : Outcomes, usage : Nat] /\ r.outcome = o /\ r.usage = c OBVIOUS
  <1>2. r # NoRow BY <1>1, EnhanceAssumption
  <1>3. context' = [context EXCEPT ![u] = r] BY DEF Answer
  <1> HIDE DEF r
  <1> QED BY <1>1, <1>2, <1>3 DEF StepTypes, RowsOf

LEMMA TypesStep ==
    ASSUME StepTypes, Placed, \A u \in Units : Costed(u), StepNext
    PROVE  StepTypes'
  <1>a. \A u \in Units : UnitPlaced(u) BY DEF Placed
  <1>1. CASE Load
    <2>1. Usage(scope) \in Nat BY UsageIs DEF StepTypes
    <2>2. context' \in RowsOf
      <3>1. ASSUME NEW u \in Units, u \in scope /\ Settled(row[u])
            PROVE  [row[u] EXCEPT !.usage = 0] \in [outcome : Outcomes, usage : Nat]
        BY <3>1, RowTypes DEF Settled
      <3> QED BY <1>1, <3>1 DEF Load, RowsOf
    <2>3. prior' \in Amounts
      <3>1. \A u \in Units : PriorOf(u) \in Nat BY RowTypes DEF PriorOf, Failed
      <3> QED BY <1>1, <3>1 DEF Load, Amounts
    <2>4. stage' \in [Units -> {"out", "restored", "queued", "asked", "answered",
                                "saved", "raised", "folded"}]
      BY <1>1 DEF Load
    <2> QED BY <1>1, <2>1, <2>2, <2>3, <2>4 DEF Load, StepTypes
  <1>2. CASE PoolDone \/ BeginRound \/ Finish
    BY <1>2, EnhanceAssumption
    DEF StepTypes, PoolDone, BeginRound, Finish, Retryable, memory
  <1>3. CASE Exit \/ Kill
    <2>1. Forget BY <1>3 DEF Exit, Kill
    <2>2. context' \in RowsOf BY <2>1 DEF Forget, None, RowsOf
    <2> QED BY <2>1, <2>2, EnhanceAssumption DEF Forget, StepTypes, AllOut, Zero, Amounts
  <1>4. ASSUME NEW S \in Populations, StartRun(S) PROVE StepTypes'
    BY <1>4, EnhanceAssumption DEF StartRun, StepTypes
  <1>5. CASE Interrupt
    BY <1>5 DEF Interrupt, StepTypes, memory
  <1>6. ASSUME NEW u \in Units,
               Ask(u) \/ Raise(u) \/ SaveFails(u) \/ RetryFails(u) \/ Fold(u) \/ RetryFold(u)
        PROVE  StepTypes'
    <2>1. stage' \in [Units -> {"out", "restored", "queued", "asked", "answered",
                                "saved", "raised", "folded"}]
      BY <1>6, StageMoves DEF Ask, Raise, SaveFails, RetryFails, Fold, RetryFold, StepTypes
    <2> QED BY <1>6, <2>1 DEF StepTypes, Ask, Raise, SaveFails, RetryFails, Fold, RetryFold, memory
  <1>7. ASSUME NEW u \in Units, Save(u) \/ RetrySave(u) PROVE StepTypes'
    <2>1. stage' \in [Units -> {"out", "restored", "queued", "asked", "answered",
                                "saved", "raised", "folded"}]
      BY <1>7, StageMoves DEF Save, RetrySave
    <2>2. context[u] # NoRow BY <1>a, <1>7 DEF Save, RetrySave, UnitPlaced
    <2>3. row' \in RowsOf /\ durable' \in Amounts
      BY <1>7, <2>2, RowSaved DEF Save, RetrySave
    <2> QED BY <1>7, <2>1, <2>3 DEF StepTypes, Save, RetrySave, memory
  <1>8. ASSUME NEW u \in Units, RetryAsk(u) PROVE StepTypes'
    <2>1. stage' \in [Units -> {"out", "restored", "queued", "asked", "answered",
                                "saved", "raised", "folded"}]
      BY <1>8, StageMoves DEF RetryAsk
    <2>2. context' \in RowsOf BY <1>8 DEF RetryAsk, StepTypes, RowsOf
    <2>3. context[u].usage \in Nat
      <3>1. context[u] # NoRow BY <1>a, <1>8 DEF RetryAsk, UnitPlaced, Retrying
      <3> QED BY <3>1, RowTypes
    <2>4. prior' \in Amounts BY <1>8, <2>3 DEF RetryAsk, Discard, StepTypes, Amounts
    <2> QED BY <1>8, <2>1, <2>2, <2>4 DEF StepTypes, RetryAsk
  <1>9. ASSUME NEW u \in Units, AnswerAny(u) PROVE StepTypes'
    <2>1. PICK o \in Outcomes, c \in Nat : Answer(u, o, c) BY <1>9 DEF AnswerAny
    <2>2. context' \in RowsOf BY <2>1, AnswerIs
    <2>3. stage' \in [Units -> {"out", "restored", "queued", "asked", "answered",
                                "saved", "raised", "folded"}]
      BY <2>1, StageMoves DEF Answer
    <2> QED BY <2>1, <2>2, <2>3 DEF StepTypes, Answer
  <1> QED
    BY <1>1, <1>2, <1>3, <1>4, <1>5, <1>6, <1>7, <1>8, <1>9
    DEF StepNext, StepWork, Environment, UnitWork


-----------------------------------------------------------------------------
(* Where the units are.                                                    *)

\* One unit moves, in the pool or after it has been left.
LEMMA OneMoves ==
    ASSUME StepTypes, Placed, NEW u \in Units, UNCHANGED <<scope, todo>>,
           pc \notin {"idle", "load"}, pc' = pc \/ pc' = "gone",
           \A v \in Units \ {u} : /\ stage'[v] = stage[v] /\ context'[v] = context[v]
                                  /\ row'[v] = row[v],
           seeded' \subseteq seeded,
           stage'[u] \in {"asked", "answered", "saved"} =>
              pc' \notin {"retrySave", "retryFold"} \/ stage[u] \in {"asked", "answered", "saved"},
           UnitPlaced(u)'
    PROVE  Placed'
  <1>a. \A v \in Units : UnitPlaced(v) BY DEF Placed
  <1>1. \A v \in Units \ {u} : UnitPlaced(v)'
    BY <1>a DEF UnitPlaced, Live, Retrying, Settled
  <1>2. pc' \in Retrying => seeded' = {} BY DEF Placed, Retrying
  <1>3. pc' \in {"retrySave", "retryFold"} =>
           \A v, w \in At({"asked", "answered", "saved"})' : v = w
    <2> SUFFICES ASSUME pc' \in {"retrySave", "retryFold"} PROVE
           \A v, w \in At({"asked", "answered", "saved"})' : v = w
      OBVIOUS
    <2>1. \A v \in Units : stage'[v] \in {"asked", "answered", "saved"}
                              => stage[v] \in {"asked", "answered", "saved"}
      OBVIOUS
    <2>2. pc \in {"retrySave", "retryFold"} OBVIOUS
    <2> QED BY <2>1, <2>2 DEF Placed, At
  <1>4. pc' \notin {"idle", "load"} OBVIOUS
  <1>5. pc' = "pool" => todo' = {} BY DEF Placed
  <1> QED BY <1>1, <1>2, <1>3, <1>4, <1>5 DEF Placed

LEMMA PlacedStep ==
    ASSUME StepTypes, Placed, StepNext
    PROVE  Placed'
  <1>a. \A u \in Units : UnitPlaced(u) BY DEF Placed
  <1>1. CASE Load
    <2>1. /\ pc' = "pool" /\ UNCHANGED <<row, scope, todo>> /\ todo = {}
          /\ seeded' = {u \in scope : Failed(row[u])}
      BY <1>1 DEF Load, Placed
    <2>2. ASSUME NEW u \in Units PROVE UnitPlaced(u)'
      <3>1. /\ stage'[u] = IF u \notin scope THEN "out"
                           ELSE IF Settled(row[u]) THEN "restored" ELSE "queued"
            /\ context'[u] = IF u \in scope /\ Settled(row[u])
                             THEN [row[u] EXCEPT !.usage = 0] ELSE NoRow
        BY <1>1 DEF Load
      <3>2. ASSUME u \in scope /\ Settled(row[u])
            PROVE  context'[u] # NoRow /\ context'[u].outcome = row[u].outcome
        <4>1. row[u] \in [outcome : Outcomes, usage : Nat] BY <3>2, RowTypes DEF Settled
        <4>2. /\ [row[u] EXCEPT !.usage = 0] \in [outcome : Outcomes, usage : Nat]
              /\ [row[u] EXCEPT !.usage = 0].outcome = row[u].outcome
          BY <4>1
        <4> QED BY <3>1, <3>2, <4>2, EnhanceAssumption
      <3>3. u \in seeded' => u \in scope /\ ~Settled(row[u]) BY <2>1 DEF Failed, Settled
      <3> QED BY <2>1, <3>1, <3>2, <3>3 DEF UnitPlaced, Live, Retrying, Settled
    <2> QED BY <2>1, <2>2 DEF Placed, Retrying
  <1>2. CASE PoolDone
    <2>1. /\ pc = "pool" /\ pc' = "retry" /\ \A u \in scope : stage[u] \in {"restored", "folded"}
          /\ UNCHANGED <<row, stage, scope, context, seeded, todo>>
      BY <1>2 DEF PoolDone, memory
    <2>2. seeded = {} /\ todo = {}
      <3>1. \A u \in seeded : FALSE BY <1>a, <2>1 DEF UnitPlaced, StepTypes
      <3> QED BY <2>1, <3>1 DEF Placed
    <2>3. ASSUME NEW u \in Units PROVE UnitPlaced(u)'
      <3>1. UnitPlaced(u) BY <1>a
      <3> QED BY <2>1, <2>2, <3>1 DEF UnitPlaced, Live, Retrying, Settled
    <2> QED BY <2>1, <2>2, <2>3 DEF Placed, Retrying
  <1>3. CASE BeginRound
    <2>1. /\ pc = "retry" /\ pc' = "retry" /\ todo' = Retryable
          /\ UNCHANGED <<row, stage, scope, context, seeded>>
      BY <1>3 DEF BeginRound
    <2>2. ASSUME NEW u \in Units PROVE UnitPlaced(u)'
      <3>1. UnitPlaced(u) BY <1>a
      <3>2. u \in todo' => stage[u] = "folded" /\ context[u].outcome = "transient"
        BY <2>1, <3>1 DEF Retryable, UnitPlaced, Settled, Failures
      <3> QED BY <2>1, <3>1, <3>2 DEF UnitPlaced, Live, Retrying, Settled
    <2> QED BY <2>1, <2>2 DEF Placed, Retrying
  <1>4. CASE Finish
    <2>1. /\ pc = "retry" /\ pc' = "done"
          /\ UNCHANGED <<row, stage, scope, context, seeded, todo>>
      BY <1>4 DEF Finish, memory
    <2>2. ASSUME NEW u \in Units PROVE UnitPlaced(u)'
      <3>1. UnitPlaced(u) BY <1>a
      <3> QED BY <2>1, <3>1 DEF UnitPlaced, Live, Retrying, Settled
    <2> QED BY <2>1, <2>2 DEF Placed, Retrying
  <1>5. CASE Exit \/ Kill
    <2>1. Forget BY <1>5 DEF Exit, Kill
    <2> QED BY <2>1 DEF Forget, Placed, UnitPlaced, AllOut, Live, Retrying
  <1>6. ASSUME NEW S \in Populations, StartRun(S) PROVE Placed'
    <2>1. /\ pc = "idle" /\ pc' = "load" /\ scope' = S
          /\ UNCHANGED <<row, stage, context, seeded, todo, tracker>> /\ stage = AllOut
      BY <1>6 DEF StartRun, Placed
    <2> QED BY <2>1 DEF Placed, UnitPlaced, AllOut, Live, Retrying
  <1>7. CASE Interrupt
    <2>1. /\ pc' = "gone" /\ UNCHANGED <<row, scope, context, seeded, todo>>
          /\ \A u \in Units : stage'[u] = IF stage[u] = "queued" THEN "out" ELSE stage[u]
      BY <1>7 DEF Interrupt, memory
    <2>2. ASSUME NEW u \in Units PROVE UnitPlaced(u)'
      <3>1. UnitPlaced(u) BY <1>a
      <3> QED BY <2>1, <3>1 DEF UnitPlaced, Live, Retrying, Settled
    <2> QED BY <2>1, <2>2 DEF Placed, Retrying
  <1>8. ASSUME NEW u \in Units, Ask(u) \/ SaveFails(u) PROVE Placed'
    <2>1. PICK s \in {"asked", "raised"} :
             /\ pc \in {"pool", "gone"} /\ UNCHANGED <<row, pc, scope, context, seeded, todo>>
             /\ stage' = [stage EXCEPT ![u] = s]
             /\ stage[u] = IF s = "asked" THEN "queued" ELSE "answered"
      BY <1>8 DEF Ask, SaveFails, memory
    <2>2. stage'[u] = s /\ \A v \in Units \ {u} : stage'[v] = stage[v]
      BY <2>1, StageMoves
    <2>3. UnitPlaced(u)'
      BY <1>a, <2>1, <2>2 DEF UnitPlaced, Live, Retrying, Settled
    <2> QED BY <2>1, <2>2, <2>3, OneMoves
  <1>9. ASSUME NEW u \in Units, Save(u) PROVE Placed'
    <2>1. /\ pc \in {"pool", "gone"} /\ UNCHANGED <<pc, scope, context, seeded, todo>>
          /\ stage' = [stage EXCEPT ![u] = "saved"] /\ stage[u] = "answered" /\ SaveRow(u)
      BY <1>9 DEF Save, memory
    <2>2. stage'[u] = "saved" /\ \A v \in Units \ {u} : stage'[v] = stage[v]
      BY <2>1, StageMoves
    <2>3. context[u] # NoRow BY <1>a, <2>1 DEF UnitPlaced
    <2>4. /\ row'[u] # NoRow /\ row'[u].outcome = context[u].outcome
          /\ \A v \in Units \ {u} : row'[v] = row[v]
      BY <2>1, <2>3, RowSaved
    <2>5. UnitPlaced(u)'
      BY <1>a, <2>1, <2>2, <2>3, <2>4 DEF UnitPlaced, Live, Retrying, Settled
    <2> QED BY <2>1, <2>2, <2>4, <2>5, OneMoves
  <1>10. ASSUME NEW u \in Units, Fold(u) PROVE Placed'
    <2>1. /\ pc = "pool" /\ UNCHANGED <<row, pc, scope, context, todo>>
          /\ seeded' = seeded \ {u}
          /\ stage' = [stage EXCEPT ![u] = "folded"] /\ stage[u] = "saved"
      BY <1>10 DEF Fold
    <2>2. stage'[u] = "folded" /\ \A v \in Units \ {u} : stage'[v] = stage[v]
      BY <2>1, StageMoves
    <2>3. UnitPlaced(u)'
      BY <1>a, <2>1, <2>2 DEF UnitPlaced, Live, Retrying, Settled
    <2> QED BY <2>1, <2>2, <2>3, OneMoves
  <1>11. ASSUME NEW u \in Units, Raise(u) PROVE Placed'
    <2>1. /\ pc = "pool" /\ pc' = "gone"
          /\ UNCHANGED <<row, stage, scope, context, seeded, todo>>
      BY <1>11 DEF Raise, memory
    <2>2. UnitPlaced(u)'
      BY <1>a, <2>1 DEF UnitPlaced, Live, Retrying, Settled
    <2> QED BY <2>1, <2>2, OneMoves
  <1>12. ASSUME NEW u \in Units, RetryAsk(u) PROVE Placed'
    <2>1. /\ pc = "retry" /\ pc' = "retrySave" /\ u \in todo /\ todo' = todo \ {u}
          /\ UNCHANGED <<row, scope, seeded>>
          /\ context' = [context EXCEPT ![u] = NoRow]
          /\ stage' = [stage EXCEPT ![u] = "asked"]
      BY <1>12 DEF RetryAsk
    <2>2. stage'[u] = "asked" /\ \A v \in Units \ {u} : stage'[v] = stage[v]
      BY <2>1, StageMoves
    <2>3. \A v \in Units \ {u} : context'[v] = context[v] BY <2>1 DEF StepTypes, RowsOf
    <2>4. stage[u] = "folded" /\ row[u].outcome = "transient" /\ u \in scope
      BY <1>a, <2>1 DEF UnitPlaced, Retrying
    <2>5. UnitPlaced(u)'
      BY <2>1, <2>2, <2>4 DEF UnitPlaced, Live, Retrying, Settled, Failures
    <2>6. ASSUME NEW v \in Units \ {u} PROVE UnitPlaced(v)'
      <3>1. UnitPlaced(v) BY <1>a
      <3>2. stage'[v] = stage[v] /\ context'[v] = context[v] BY <2>2, <2>3
      <3> QED BY <2>1, <3>1, <3>2 DEF UnitPlaced, Live, Retrying, Settled
    <2>7. \A v \in Units \ {u} : stage'[v] \notin {"asked", "answered", "saved"}
      BY <1>a, <2>1, <2>2 DEF UnitPlaced
    <2>8. \A v, w \in At({"asked", "answered", "saved"})' : v = w
      BY <2>7 DEF At
    <2> QED BY <2>1, <2>5, <2>6, <2>8 DEF Placed, Retrying
  <1>13. ASSUME NEW u \in Units, RetrySave(u) PROVE Placed'
    <2>1. /\ pc = "retrySave" /\ pc' = "retryFold" /\ UNCHANGED <<scope, context, seeded, todo>>
          /\ stage' = [stage EXCEPT ![u] = "saved"] /\ stage[u] = "answered" /\ SaveRow(u)
      BY <1>13 DEF RetrySave, memory
    <2>2. stage'[u] = "saved" /\ \A v \in Units \ {u} : stage'[v] = stage[v]
      BY <2>1, StageMoves
    <2>3. context[u] # NoRow BY <1>a, <2>1 DEF UnitPlaced
    <2>4. /\ row'[u] # NoRow /\ row'[u].outcome = context[u].outcome
          /\ \A v \in Units \ {u} : row'[v] = row[v]
      BY <2>1, <2>3, RowSaved
    <2>5. UnitPlaced(u)'
      BY <1>a, <2>1, <2>2, <2>3, <2>4 DEF UnitPlaced, Live, Retrying, Settled
    <2>6. ASSUME NEW v \in Units \ {u} PROVE UnitPlaced(v)'
      <3>1. UnitPlaced(v) BY <1>a
      <3>2. stage'[v] = stage[v] /\ row'[v] = row[v] BY <2>2, <2>4
      <3> QED BY <2>1, <3>1, <3>2 DEF UnitPlaced, Live, Retrying, Settled
    <2>7. \A v, w \in At({"asked", "answered", "saved"}) : v = w BY <2>1 DEF Placed
    <2>8. At({"asked", "answered", "saved"})' \subseteq At({"asked", "answered", "saved"})
      BY <2>1, <2>2 DEF At
    <2> QED BY <2>1, <2>5, <2>6, <2>7, <2>8 DEF Placed, Retrying
  <1>14. ASSUME NEW u \in Units, RetryFails(u) PROVE Placed'
    <2>1. /\ pc = "retrySave" /\ pc' = "gone" /\ UNCHANGED <<row, scope, context, seeded, todo>>
          /\ stage' = [stage EXCEPT ![u] = "raised"] /\ stage[u] = "answered"
      BY <1>14 DEF RetryFails, memory
    <2>2. stage'[u] = "raised" /\ \A v \in Units \ {u} : stage'[v] = stage[v]
      BY <2>1, StageMoves
    <2>3. UnitPlaced(u)'
      BY <1>a, <2>1, <2>2 DEF UnitPlaced, Live, Retrying, Settled
    <2> QED BY <2>1, <2>2, <2>3, OneMoves
  <1>15. ASSUME NEW u \in Units, RetryFold(u) PROVE Placed'
    <2>1. /\ pc = "retryFold" /\ pc' \in {"retry", "gone"}
          /\ UNCHANGED <<row, scope, context, seeded, todo>>
          /\ stage' = [stage EXCEPT ![u] = "folded"] /\ stage[u] = "saved"
      BY <1>15 DEF RetryFold
    <2>2. stage'[u] = "folded" /\ \A v \in Units \ {u} : stage'[v] = stage[v]
      BY <2>1, StageMoves
    <2>3. \A v \in Units \ {u} : stage[v] \notin {"asked", "answered", "saved"}
      BY <2>1 DEF Placed, At
    <2>4. UnitPlaced(u)'
      BY <1>a, <2>1, <2>2 DEF UnitPlaced, Live, Retrying, Settled
    <2>5. ASSUME NEW v \in Units \ {u} PROVE UnitPlaced(v)'
      <3>1. UnitPlaced(v) BY <1>a
      <3>2. v \in scope => stage[v] \in {"restored", "folded"}
        BY <2>1, <2>3, <3>1 DEF UnitPlaced, Live, Retrying, StepTypes
      <3> QED BY <2>1, <2>2, <3>1, <3>2 DEF UnitPlaced, Live, Retrying, Settled
    <2> QED BY <2>1, <2>4, <2>5 DEF Placed, Retrying
  <1>16. ASSUME NEW u \in Units, AnswerAny(u) PROVE Placed'
    <2>1. PICK o \in Outcomes, c \in Nat : Answer(u, o, c) BY <1>16 DEF AnswerAny
    <2>2. /\ UNCHANGED <<row, pc, scope, seeded, todo>> /\ stage[u] = "asked"
          /\ stage' = [stage EXCEPT ![u] = "answered"]
      BY <2>1 DEF Answer
    <2>3. stage'[u] = "answered" /\ \A v \in Units \ {u} : stage'[v] = stage[v]
      BY <2>2, StageMoves
    <2>4. context'[u] # NoRow /\ \A v \in Units \ {u} : context'[v] = context[v]
      BY <2>1, AnswerIs
    <2>5. UnitPlaced(u)'
      BY <1>a, <2>2, <2>3, <2>4 DEF UnitPlaced, Live, Retrying, Settled
    <2>6. pc \notin {"idle", "load"} BY <2>2 DEF Placed, AllOut
    <2> QED BY <2>2, <2>3, <2>4, <2>5, <2>6, OneMoves
  <1> QED
    BY <1>1, <1>2, <1>3, <1>4, <1>5, <1>6, <1>7, <1>8, <1>9, <1>10, <1>11, <1>12, <1>13,
       <1>14, <1>15, <1>16
    DEF StepNext, StepWork, Environment, UnitWork


-----------------------------------------------------------------------------
(* What the attempts have cost.                                            *)

LEMMA CostedStep ==
    ASSUME StepTypes, Placed, \A u \in Units : Costed(u), StepNext
    PROVE  \A u \in Units : Costed(u)'
  <1>a. \A u \in Units : UnitPlaced(u) BY DEF Placed
  <1>1. CASE Load
    <2> TAKE u \in Units
    <2>1. /\ UNCHANGED <<row, durable>> /\ prior'[u] = PriorOf(u)
          /\ stage'[u] = IF u \notin scope THEN "out"
                         ELSE IF Settled(row[u]) THEN "restored" ELSE "queued"
      BY <1>1 DEF Load
    <2> QED BY <2>1 DEF Costed, PriorOf, Failed, Settled
  <1>2. CASE \/ PoolDone \/ BeginRound \/ Finish \/ \E u \in Units : Raise(u)
             \/ \E S \in Populations : StartRun(S)
    <2>1. UNCHANGED <<row, durable, prior, stage, context>>
      BY <1>2 DEF PoolDone, BeginRound, Finish, StartRun, Raise, memory
    <2> QED BY <2>1 DEF Costed
  <1>3. CASE Exit \/ Kill
    <2>1. Forget BY <1>3 DEF Exit, Kill
    <2> QED BY <2>1 DEF Forget, Costed, AllOut
  <1>4. CASE Interrupt
    <2>1. /\ UNCHANGED <<row, durable, prior, context>>
          /\ \A u \in Units : stage'[u] = IF stage[u] = "queued" THEN "out" ELSE stage[u]
      BY <1>4 DEF Interrupt, memory
    <2> QED BY <2>1 DEF Costed
  <1>5. ASSUME NEW u \in Units,
               \A v \in Units \ {u} : /\ stage'[v] = stage[v] /\ context'[v] = context[v]
                                      /\ row'[v] = row[v] /\ prior'[v] = prior[v]
                                      /\ durable'[v] = durable[v],
               Costed(u)'
        PROVE  \A v \in Units : Costed(v)'
    <2>1. ASSUME NEW v \in Units \ {u} PROVE Costed(v)'
      <3>1. Costed(v) OBVIOUS
      <3> QED BY <1>5, <3>1 DEF Costed
    <2> QED BY <1>5, <2>1
  <1>6. ASSUME NEW u \in Units, Ask(u) \/ SaveFails(u) \/ RetryFails(u) \/ Fold(u) \/ RetryFold(u)
        PROVE  \A v \in Units : Costed(v)'
    <2>1. PICK s \in {"asked", "raised", "folded"} :
             /\ UNCHANGED <<row, durable, prior, context>>
             /\ stage' = [stage EXCEPT ![u] = s]
             /\ s = "asked" => stage[u] = "queued"
             /\ s = "folded" => stage[u] = "saved"
      BY <1>6 DEF Ask, SaveFails, RetryFails, Fold, RetryFold, memory
    <2>2. stage'[u] = s /\ \A v \in Units \ {u} : stage'[v] = stage[v]
      BY <2>1, StageMoves
    <2>3. Costed(u)' BY <2>1, <2>2 DEF Costed
    <2> QED BY <1>5, <2>1, <2>2, <2>3
  <1>7. ASSUME NEW u \in Units, Save(u) \/ RetrySave(u) PROVE \A v \in Units : Costed(v)'
    <2>1. /\ UNCHANGED <<prior, context>> /\ SaveRow(u) /\ stage[u] = "answered"
          /\ stage' = [stage EXCEPT ![u] = "saved"]
      BY <1>7 DEF Save, RetrySave, memory
    <2>2. stage'[u] = "saved" /\ \A v \in Units \ {u} : stage'[v] = stage[v]
      BY <2>1, StageMoves
    <2>3. context[u] # NoRow BY <1>a, <2>1 DEF UnitPlaced
    <2>4. /\ row'[u] # NoRow /\ row'[u].usage = context[u].usage + prior[u]
          /\ durable'[u] = durable[u] + context[u].usage
          /\ \A v \in Units \ {u} : row'[v] = row[v] /\ durable'[v] = durable[v]
      BY <2>1, <2>3, RowSaved
    <2>5. prior[u] = durable[u] /\ prior[u] \in Nat /\ context[u].usage \in Nat
      BY <2>1, <2>3, RowTypes DEF Costed, StepTypes, Amounts
    <2>6. Costed(u)' BY <2>1, <2>2, <2>4, <2>5 DEF Costed
    <2> QED BY <1>5, <2>1, <2>2, <2>4, <2>6
  <1>8. ASSUME NEW u \in Units, RetryAsk(u) PROVE \A v \in Units : Costed(v)'
    <2>1. /\ UNCHANGED <<row, durable>> /\ Discard(u) /\ pc = "retry" /\ u \in todo
          /\ context' = [context EXCEPT ![u] = NoRow]
          /\ stage' = [stage EXCEPT ![u] = "asked"]
      BY <1>8 DEF RetryAsk
    <2>2. stage'[u] = "asked" /\ \A v \in Units \ {u} : stage'[v] = stage[v]
      BY <2>1, StageMoves
    <2>3. stage[u] = "folded" BY <1>a, <2>1 DEF UnitPlaced, Retrying
    <2>4. /\ prior'[u] = prior[u] + context[u].usage
          /\ \A v \in Units \ {u} : prior'[v] = prior[v] /\ context'[v] = context[v]
      BY <2>1 DEF Discard, StepTypes, Amounts, RowsOf
    <2>5. Costed(u)' BY <2>1, <2>2, <2>3, <2>4 DEF Costed
    <2> QED BY <1>5, <2>1, <2>2, <2>4, <2>5
  <1>9. ASSUME NEW u \in Units, AnswerAny(u) PROVE \A v \in Units : Costed(v)'
    <2>1. PICK o \in Outcomes, c \in Nat : Answer(u, o, c) BY <1>9 DEF AnswerAny
    <2>2. /\ UNCHANGED <<row, durable, prior>> /\ stage[u] = "asked"
          /\ stage' = [stage EXCEPT ![u] = "answered"]
      BY <2>1 DEF Answer
    <2>3. stage'[u] = "answered" /\ \A v \in Units \ {u} : stage'[v] = stage[v]
      BY <2>2, StageMoves
    <2>4. \A v \in Units \ {u} : context'[v] = context[v] BY <2>1, AnswerIs
    <2>5. Costed(u)' BY <2>2, <2>3 DEF Costed
    <2> QED BY <1>5, <2>2, <2>3, <2>4, <2>5
  <1> QED
    BY <1>1, <1>2, <1>3, <1>4, <1>6, <1>7, <1>8, <1>9
    DEF StepNext, StepWork, Environment, UnitWork

-----------------------------------------------------------------------------
(* What the process was charged, against the summary and the rows.         *)

LEMMA DueTypes == StepTypes /\ Placed => Unfolded \in Amounts /\ Unsaved \in Amounts
  <1> SUFFICES ASSUME StepTypes, Placed PROVE Unfolded \in Amounts /\ Unsaved \in Amounts
    OBVIOUS
  <1>1. ASSUME NEW u \in Units, stage[u] \in {"answered", "saved", "raised"}
        PROVE  context[u].usage \in Nat
    BY <1>1, RowTypes DEF Placed, UnitPlaced
  <1> QED BY <1>1 DEF Unfolded, Unsaved, Amounts

\* The books balance: what a step adds on one side, it adds on the other.
LEMMA BooksBalance ==
    ASSUME StepTypes, StepTypes', Placed, Placed', Charged, Counted, pc \in Live, NEW u \in Units,
           UNCHANGED scope,
           \A v \in Units \ {u} : stage'[v] = stage[v] /\ context'[v] = context[v],
           \A v \in Units \ {u} : durable'[v] = durable[v],
           summary'.usage + Unfolded'[u] + tracker = summary.usage + Unfolded[u] + tracker',
           durable'[u] + Unsaved'[u] + tracker = durable[u] + Unsaved[u] + tracker',
           durable'[u] = durable[u] \/ u \in scope, summary'.usage \in Nat
    PROVE  Charged'
  <1>1. /\ Unfolded \in Amounts /\ Unsaved \in Amounts
        /\ Unfolded' \in Amounts /\ Unsaved' \in Amounts
    <2>1. (StepTypes /\ Placed => Unfolded \in Amounts /\ Unsaved \in Amounts)'
      BY DueTypes, PTL
    <2> QED BY <2>1, DueTypes
  <1>2. \A v \in Units \ {u} : Unfolded'[v] = Unfolded[v] /\ Unsaved'[v] = Unsaved[v]
    BY DEF Unfolded, Unsaved
  <1>3. /\ Worth(Unfolded', Units) + Unfolded[u] = Worth(Unfolded, Units) + Unfolded'[u]
        /\ Worth(Unsaved', Units) + Unsaved[u] = Worth(Unsaved, Units) + Unsaved'[u]
    BY <1>1, <1>2, WorthPoint
  <1>4. Worth(durable', scope) + durable[u] = Worth(durable, scope) + durable'[u]
    <2>1. durable \in Amounts /\ durable' \in Amounts /\ scope \in SUBSET Units
      BY DEF StepTypes
    <2>2. CASE u \in scope BY <2>1, <2>2, WorthPoint
    <2>3. CASE u \notin scope
      <3>1. Worth(durable', scope) = Worth(durable, scope) BY <2>1, <2>3, WorthSame
      <3> QED BY <2>3, <3>1
    <2> QED BY <2>2, <2>3
  <1>5. /\ Unfolded[u] \in Nat /\ Unfolded'[u] \in Nat /\ Unsaved[u] \in Nat
        /\ Unsaved'[u] \in Nat /\ durable[u] \in Nat /\ durable'[u] \in Nat
    BY <1>1 DEF StepTypes, Amounts
  <1>6. /\ Worth(Unfolded, Units) \in Nat /\ Worth(Unsaved, Units) \in Nat
        /\ Worth(Unfolded', Units) \in Nat /\ Worth(Unsaved', Units) \in Nat
        /\ Worth(durable, scope) \in Nat /\ Worth(durable', scope) \in Nat
    BY <1>1, WorthType DEF StepTypes
  <1>7. tracker \in Nat /\ tracker' \in Nat /\ summary.usage \in Nat
    BY DEF StepTypes, Counted, Summaries
  <1>8. summary'.usage + Worth(Unfolded', Units) = tracker'
    BY <1>3, <1>5, <1>6, <1>7 DEF Charged
  <1>9. Worth(durable', scope) + Worth(Unsaved', Units) = tracker'
    <2> DEFINE a == Worth(durable, scope)
               b == Worth(Unsaved, Units)
               aa == Worth(durable', scope)
               bb == Worth(Unsaved', Units)
               x == durable[u]
               y == Unsaved[u]
               xx == durable'[u]
               yy == Unsaved'[u]
    <2>1. a \in Nat /\ b \in Nat /\ aa \in Nat /\ bb \in Nat BY <1>6
    <2>2. x \in Nat /\ y \in Nat /\ xx \in Nat /\ yy \in Nat BY <1>5
    <2>3. PICK t \in Nat, tt \in Nat : t = tracker /\ tt = tracker' BY <1>7
    <2>4. a + b = t BY <2>3 DEF Charged
    <2>5. aa + x = a + xx BY <1>4
    <2>6. bb + y = b + yy BY <1>3
    <2>7. xx + yy + t = x + y + tt BY <2>3
    <2> HIDE DEF a, b, aa, bb, x, y, xx, yy
    <2>8. aa + bb = tt BY ONLY <2>1, <2>2, <2>4, <2>5, <2>6, <2>7
    <2> QED BY <2>3, <2>8 DEF aa, bb
  <1> QED BY <1>8, <1>9 DEF Charged

LEMMA ChargedStep ==
    ASSUME StepTypes, StepTypes', Placed, Placed', \A u \in Units : Costed(u), Charged,
           pc \in Live => Counted, StepNext
    PROVE  Charged'
  <1>a. \A u \in Units : UnitPlaced(u) BY DEF Placed
  <1>1. CASE Load
    <2>1. Usage(scope) = Worth(durable, scope) /\ Usage(scope) \in Nat
      BY UsageIs DEF StepTypes
    <2>2. /\ tracker' = tracker + Usage(scope) /\ summary'.usage = Usage(scope)
          /\ UNCHANGED <<durable, scope>> /\ tracker = 0
      BY <1>1 DEF Load, Placed
    <2>3. \A u \in Units : stage'[u] \in {"out", "restored", "queued"} BY <1>1 DEF Load
    <2>4. Worth(Unfolded', Units) = 0 /\ Worth(Unsaved', Units) = 0
      BY <2>3, WorthNothing DEF Unfolded, Unsaved
    <2> QED BY <2>1, <2>2, <2>4 DEF Charged
  <1>2. CASE PoolDone \/ BeginRound \/ Finish
    <2>1. /\ UNCHANGED <<durable, scope, tracker, stage, context>> /\ pc \in Live
          /\ summary'.usage = summary.usage
      BY <1>2 DEF PoolDone, BeginRound, Finish, memory, Live, Retrying, Counted, Summaries
    <2>2. Unfolded' = Unfolded /\ Unsaved' = Unsaved BY <2>1 DEF Unfolded, Unsaved
    <2> QED BY <2>1, <2>2 DEF Charged
  <1>3. CASE \/ Exit \/ Kill \/ Interrupt \/ \E S \in Populations : StartRun(S)
             \/ \E u \in Units : Raise(u) \/ RetryFails(u)
    <2>1. pc' \in {"idle", "gone", "load"}
      BY <1>3 DEF Exit, Kill, Forget, Interrupt, StartRun, Raise, RetryFails
    <2> QED BY <2>1 DEF Charged, Live, Retrying
  <1>4. SUFFICES ASSUME pc' \in Live PROVE Charged' BY DEF Charged
  <1>5. ASSUME NEW u \in Units, Ask(u) \/ SaveFails(u) PROVE Charged'
    <2>1. PICK s \in {"asked", "raised"} :
             /\ UNCHANGED <<pc, scope, durable, tracker, summary, context>>
             /\ stage' = [stage EXCEPT ![u] = s]
             /\ stage[u] = IF s = "asked" THEN "queued" ELSE "answered"
      BY <1>5 DEF Ask, SaveFails, memory
    <2>2. stage'[u] = s /\ \A v \in Units \ {u} : stage'[v] = stage[v]
      BY <2>1, StageMoves
    <2>3. Unfolded'[u] = Unfolded[u] /\ Unsaved'[u] = Unsaved[u]
      BY <2>1, <2>2 DEF Unfolded, Unsaved
    <2>4. summary.usage \in Nat /\ Counted BY <1>4, <2>1 DEF Counted, Summaries
    <2> QED BY <1>4, <2>1, <2>2, <2>3, <2>4, BooksBalance
  <1>6. ASSUME NEW u \in Units, Save(u) \/ RetrySave(u) PROVE Charged'
    <2>1. /\ UNCHANGED <<scope, tracker, summary, context>> /\ pc \in Live
          /\ stage' = [stage EXCEPT ![u] = "saved"] /\ stage[u] = "answered" /\ SaveRow(u)
      BY <1>4, <1>6 DEF Save, RetrySave, memory, Live, Retrying
    <2>2. stage'[u] = "saved" /\ \A v \in Units \ {u} : stage'[v] = stage[v]
      BY <2>1, StageMoves
    <2>3. context[u] # NoRow /\ u \in scope BY <1>a, <2>1 DEF UnitPlaced
    <2>4. /\ durable'[u] = durable[u] + context[u].usage
          /\ \A v \in Units \ {u} : durable'[v] = durable[v]
      BY <2>1, <2>3, RowSaved
    <2>5. /\ Unfolded'[u] = Unfolded[u]
          /\ Unsaved'[u] = 0 /\ Unsaved[u] = context[u].usage
      BY <2>1, <2>2 DEF Unfolded, Unsaved
    <2>6. /\ context[u].usage \in Nat /\ durable[u] \in Nat /\ tracker \in Nat
          /\ summary.usage \in Nat /\ Counted
      BY <2>1, <2>3, RowTypes DEF StepTypes, Amounts, Counted, Summaries
    <2>7. durable'[u] + Unsaved'[u] + tracker = durable[u] + Unsaved[u] + tracker'
      BY <2>1, <2>4, <2>5, <2>6
    <2>8. summary'.usage + Unfolded'[u] + tracker = summary.usage + Unfolded[u] + tracker'
      BY <2>1, <2>5
    <2> QED BY <2>1, <2>2, <2>3, <2>4, <2>6, <2>7, <2>8, BooksBalance
  <1>7. ASSUME NEW u \in Units, Fold(u) \/ RetryFold(u) PROVE Charged'
    <2>1. /\ UNCHANGED <<scope, durable, tracker, context>> /\ pc \in Live
          /\ stage' = [stage EXCEPT ![u] = "folded"] /\ stage[u] = "saved"
      BY <1>7 DEF Fold, RetryFold, Live, Retrying
    <2>2. stage'[u] = "folded" /\ \A v \in Units \ {u} : stage'[v] = stage[v]
      BY <2>1, StageMoves
    <2>3. Counted /\ summary \in Summaries BY <2>1 DEF Counted
    <2>4. summary'.usage = summary.usage + context[u].usage
      BY <1>7, <2>3 DEF Fold, RetryFold, Summaries
    <2>5. context[u].usage \in Nat
      <3>1. context[u] # NoRow BY <1>a, <2>1 DEF UnitPlaced
      <3> QED BY <3>1, RowTypes
    <2>6. /\ Unfolded'[u] = 0 /\ Unfolded[u] = context[u].usage
          /\ Unsaved'[u] = 0 /\ Unsaved[u] = 0
      BY <2>1, <2>2 DEF Unfolded, Unsaved
    <2>7. summary.usage \in Nat /\ tracker \in Nat BY <2>3 DEF Summaries, StepTypes
    <2>8. summary'.usage + Unfolded'[u] + tracker = summary.usage + Unfolded[u] + tracker'
      BY <2>1, <2>4, <2>5, <2>6, <2>7
    <2>9. durable'[u] + Unsaved'[u] + tracker = durable[u] + Unsaved[u] + tracker'
      BY <2>1, <2>6
    <2>10. summary'.usage \in Nat BY <2>4, <2>5, <2>7
    <2> QED BY <2>1, <2>2, <2>3, <2>8, <2>9, <2>10, BooksBalance
  <1>8. ASSUME NEW u \in Units, RetryAsk(u) PROVE Charged'
    <2>1. /\ UNCHANGED <<scope, durable, tracker, summary>> /\ pc = "retry" /\ u \in todo
          /\ stage' = [stage EXCEPT ![u] = "asked"]
          /\ context' = [context EXCEPT ![u] = NoRow]
      BY <1>8 DEF RetryAsk
    <2>2. stage'[u] = "asked" /\ \A v \in Units \ {u} : stage'[v] = stage[v]
      BY <2>1, StageMoves
    <2>3. stage[u] = "folded" BY <1>a, <2>1 DEF UnitPlaced, Retrying
    <2>4. \A v \in Units \ {u} : context'[v] = context[v] BY <2>1 DEF StepTypes, RowsOf
    <2>5. Unfolded'[u] = Unfolded[u] /\ Unsaved'[u] = Unsaved[u]
      BY <2>2, <2>3 DEF Unfolded, Unsaved
    <2>6. pc \in Live /\ Counted /\ summary.usage \in Nat
      BY <2>1 DEF Live, Retrying, Counted, Summaries
    <2> QED BY <2>1, <2>2, <2>4, <2>5, <2>6, BooksBalance
  <1>9. ASSUME NEW u \in Units, AnswerAny(u) PROVE Charged'
    <2>1. PICK o \in Outcomes, c \in Nat : Answer(u, o, c) BY <1>9 DEF AnswerAny
    <2>2. /\ UNCHANGED <<pc, scope, durable, summary>> /\ stage[u] = "asked"
          /\ tracker' = tracker + c /\ stage' = [stage EXCEPT ![u] = "answered"]
      BY <2>1 DEF Answer
    <2>3. stage'[u] = "answered" /\ \A v \in Units \ {u} : stage'[v] = stage[v]
      BY <2>2, StageMoves
    <2>4. context'[u].usage = c /\ \A v \in Units \ {u} : context'[v] = context[v]
      BY <2>1, AnswerIs
    <2>5. /\ Unfolded'[u] = c /\ Unfolded[u] = 0
          /\ Unsaved'[u] = c /\ Unsaved[u] = 0
      BY <2>2, <2>3, <2>4 DEF Unfolded, Unsaved
    <2>6. pc \in Live /\ Counted /\ summary.usage \in Nat
      BY <1>4, <2>2 DEF Counted, Summaries
    <2>7. durable[u] \in Nat /\ tracker \in Nat BY DEF StepTypes, Amounts
    <2>8. /\ summary'.usage + Unfolded'[u] + tracker = summary.usage + Unfolded[u] + tracker'
          /\ durable'[u] + Unsaved'[u] + tracker = durable[u] + Unsaved[u] + tracker'
      BY <2>2, <2>5, <2>6, <2>7
    <2> QED BY <2>2, <2>3, <2>4, <2>6, <2>8, BooksBalance
  <1> QED
    BY <1>1, <1>2, <1>3, <1>5, <1>6, <1>7, <1>8, <1>9
    DEF StepNext, StepWork, Environment, UnitWork


-----------------------------------------------------------------------------
(* The counts of the summary.                                              *)

LEMMA SetsFinite ==
    ASSUME NEW S \in SUBSET Units
    PROVE  IsFiniteSet(S) /\ Cardinality(S) \in Nat
  BY EnhanceAssumption, FS_Subset, FS_CardinalityType

\* One element more, or one less.
LEMMA SizeMoves ==
    ASSUME NEW S \in SUBSET Units, NEW u \in Units
    PROVE  /\ Cardinality(S \cup {u}) = IF u \in S THEN Cardinality(S) ELSE Cardinality(S) + 1
           /\ Cardinality(S \ {u}) = IF u \in S THEN Cardinality(S) - 1 ELSE Cardinality(S)
           /\ u \in S => Cardinality(S) >= 1
  <1>1. IsFiniteSet(S) /\ Cardinality(S) \in Nat BY SetsFinite
  <1>2. Cardinality(S \ {u}) \in Nat BY SetsFinite
  <1>3. Cardinality(S \cup {u}) = IF u \in S THEN Cardinality(S) ELSE Cardinality(S) + 1
    BY <1>1, FS_AddElement
  <1>4. Cardinality(S \ {u}) = IF u \in S THEN Cardinality(S) - 1 ELSE Cardinality(S)
    BY <1>1, FS_RemoveElement
  <1>5. u \in S => Cardinality(S) >= 1
    <2> DEFINE n == Cardinality(S)
               m == Cardinality(S \ {u})
    <2>1. n \in Nat /\ m \in Nat /\ (u \in S => m = n - 1) BY <1>1, <1>2, <1>4
    <2> HIDE DEF n, m
    <2>2. u \in S => n >= 1 BY <2>1
    <2> QED BY <2>2 DEF n
  <1> QED BY <1>3, <1>4, <1>5

\* A step that moves no unit from one count to another.
LEMMA SameCounts ==
    ASSUME Counted, UNCHANGED scope, summary' \in Summaries,
           summary'.total = summary.total, summary'.completed = summary.completed,
           summary'.incomplete = summary.incomplete, summary'.errors = summary.errors,
           \A o \in {"verdict", "incomplete"} : Told(o)' = Told(o), Erred' = Erred
    PROVE  Counted'
  <1>1. Told("verdict")' = Told("verdict") /\ Told("incomplete")' = Told("incomplete") OBVIOUS
  <1> QED BY <1>1 DEF Counted

LEMMA CountedLoad ==
    ASSUME StepTypes, \A u \in Units : Costed(u), Load
    PROVE  Counted'
  <1>1. /\ UNCHANGED <<row, scope>> /\ pc' = "pool" /\ seeded' = {u \in scope : Failed(row[u])}
        /\ summary' = [phase |-> "in_progress", total |-> Cardinality(scope),
                       completed |-> Cardinality(With(scope, "verdict")),
                       incomplete |-> Cardinality(With(scope, "incomplete")),
                       errors |-> Cardinality(seeded'), usage |-> Usage(scope)]
    BY DEF Load
  <1>2. ASSUME NEW u \in Units
        PROVE  /\ stage'[u] = IF u \notin scope THEN "out"
                              ELSE IF Settled(row[u]) THEN "restored" ELSE "queued"
               /\ u \in scope /\ Settled(row[u]) => context'[u].outcome = row[u].outcome
    <2>1. /\ stage'[u] = IF u \notin scope THEN "out"
                         ELSE IF Settled(row[u]) THEN "restored" ELSE "queued"
          /\ context'[u] = IF u \in scope /\ Settled(row[u])
                           THEN [row[u] EXCEPT !.usage = 0] ELSE NoRow
      BY DEF Load
    <2>2. ASSUME u \in scope /\ Settled(row[u]) PROVE context'[u].outcome = row[u].outcome
      <3>1. row[u] \in [outcome : Outcomes, usage : Nat] BY <2>2, RowTypes DEF Settled
      <3>2. [row[u] EXCEPT !.usage = 0].outcome = row[u].outcome BY <3>1
      <3> QED BY <2>1, <2>2, <3>2
    <2> QED BY <2>1, <2>2
  <1>3. scope \in SUBSET Units BY DEF StepTypes
  <1>4. ASSUME NEW o \in {"verdict", "incomplete"} PROVE Told(o)' = With(scope, o)
    <2>1. ASSUME NEW u \in Units PROVE u \in Told(o)' <=> u \in With(scope, o)
      BY <1>1, <1>2, <1>4 DEF Told, With, Settled, Failures
    <2> QED BY <1>1, <1>3, <2>1 DEF Told, With
  <1>5. Told("verdict")' = With(scope, "verdict") /\ Told("incomplete")' = With(scope, "incomplete")
    BY <1>4
  <1>6. Erred' = seeded'
    <2>1. \A u \in Units : stage'[u] # "folded" BY <1>2
    <2> QED BY <1>1, <1>3, <2>1 DEF Erred
  <1>7. Usage(scope) \in Nat BY <1>3, UsageIs
  <1>8. /\ Cardinality(scope) \in Nat /\ Cardinality(seeded') \in Nat
        /\ Cardinality(With(scope, "verdict")) \in Nat
        /\ Cardinality(With(scope, "incomplete")) \in Nat
    BY <1>1, <1>3, SetsFinite DEF With
  <1>9. summary' \in Summaries BY <1>1, <1>7, <1>8 DEF Summaries
  <1> QED BY <1>1, <1>5, <1>6, <1>9 DEF Counted

LEMMA CountedTypes == ASSUME StepTypes, NEW o
                      PROVE  Told(o) \in SUBSET Units /\ Erred \in SUBSET Units
  BY DEF Told, Erred, StepTypes

\* A unit is folded: it leaves what it was counted as and joins what it is.
LEMMA CountedFold ==
    ASSUME StepTypes, Placed, Counted, NEW u \in Units, Fold(u)
    PROVE  Counted'
  <1> DEFINE o == context[u].outcome
  <1>1. /\ pc = "pool" /\ UNCHANGED <<row, pc, scope, context>> /\ stage[u] = "saved"
        /\ seeded' = seeded \ {u} /\ stage' = [stage EXCEPT ![u] = "folded"]
    BY DEF Fold
  <1>2. stage'[u] = "folded" /\ \A v \in Units \ {u} : stage'[v] = stage[v]
    BY <1>1, StageMoves
  <1>3. UnitPlaced(u) BY DEF Placed
  <1>4. u \in scope /\ o \in Outcomes
    <2>1. context[u] # NoRow BY <1>1, <1>3 DEF UnitPlaced
    <2> QED BY <1>1, <1>3, <2>1, RowTypes DEF UnitPlaced
  <1>5. context[u].usage \in Nat
    <2>1. context[u] # NoRow BY <1>1, <1>3 DEF UnitPlaced
    <2> QED BY <2>1, RowTypes
  <1>6. /\ Told("verdict") \in SUBSET Units /\ Told("incomplete") \in SUBSET Units
        /\ Erred \in SUBSET Units
    BY CountedTypes
  <1>7. ASSUME NEW p \in {"verdict", "incomplete"}
        PROVE  /\ u \notin Told(p)
               /\ Told(p)' = IF o = p THEN Told(p) \cup {u} ELSE Told(p)
    <2>1. u \notin Told(p) BY <1>1 DEF Told
    <2>2. ASSUME NEW v \in Units \ {u} PROVE v \in Told(p)' <=> v \in Told(p)
      BY <1>1, <1>2 DEF Told
    <2>3. u \in Told(p)' <=> o = p BY <1>1, <1>2, <1>4 DEF Told
    <2>4. Told(p)' \subseteq Units /\ Told(p) \subseteq Units BY <1>1 DEF Told, StepTypes
    <2> QED BY <2>1, <2>2, <2>3, <2>4
  <1>8. u \in Erred <=> u \in seeded BY <1>1 DEF Erred
  <1>9. Erred' = IF o \in Failures THEN Erred \cup {u} ELSE Erred \ {u}
    <2>1. ASSUME NEW v \in Units \ {u} PROVE v \in Erred' <=> v \in Erred
      BY <1>1, <1>2 DEF Erred
    <2>2. u \in Erred' <=> o \in Failures BY <1>1, <1>2, <1>4 DEF Erred
    <2>3. Erred' \subseteq Units /\ Erred \subseteq Units BY <1>1 DEF Erred, StepTypes
    <2> QED BY <2>1, <2>2, <2>3
  <1>10. /\ Cardinality(Told("verdict"))' = IF o = "verdict" THEN Cardinality(Told("verdict")) + 1
                                            ELSE Cardinality(Told("verdict"))
         /\ Cardinality(Told("incomplete"))' = IF o = "incomplete"
                                               THEN Cardinality(Told("incomplete")) + 1
                                               ELSE Cardinality(Told("incomplete"))
    BY <1>6, <1>7, SizeMoves
  <1>11. /\ Cardinality(Erred)' = IF o \in Failures
                                  THEN IF u \in seeded THEN Cardinality(Erred)
                                       ELSE Cardinality(Erred) + 1
                                  ELSE IF u \in seeded THEN Cardinality(Erred) - 1
                                       ELSE Cardinality(Erred)
         /\ u \in seeded => Cardinality(Erred) >= 1
    BY <1>6, <1>8, <1>9, SizeMoves
  <1>12. summary \in Summaries BY DEF Counted
  <1> DEFINE spent == summary.usage + context[u].usage
  <1>13. summary' = IF o \in Failures
            THEN [summary EXCEPT !.usage = spent,
                                 !.errors = IF u \in seeded THEN @ ELSE @ + 1]
            ELSE [summary EXCEPT !.usage = spent, !.errors = @ - Retired(u),
                                 !.completed = IF o = "verdict" THEN @ + 1 ELSE @,
                                 !.incomplete = IF o = "incomplete" THEN @ + 1 ELSE @]
    BY DEF Fold
  <1>14. spent \in Nat BY <1>5, <1>12 DEF Summaries
  <1>15. /\ summary.errors = Cardinality(Erred) /\ summary.total = Cardinality(scope)
         /\ summary.completed = Cardinality(Told("verdict"))
         /\ summary.incomplete = Cardinality(Told("incomplete"))
    BY DEF Counted
  <1> HIDE DEF spent, o
  <1>16. CASE o \in Failures
    <2> DEFINE e == IF u \in seeded THEN summary.errors ELSE summary.errors + 1
    <2>a. e \in Nat BY <1>12 DEF Summaries
    <2>b. summary' = [summary EXCEPT !.usage = spent, !.errors = e] BY <1>13, <1>16
    <2>c. /\ summary' \in Summaries /\ summary'.total = summary.total
          /\ summary'.completed = summary.completed
          /\ summary'.incomplete = summary.incomplete /\ summary'.errors = e
      <3> HIDE DEF e
      <3> QED BY <1>12, <1>14, <2>a, <2>b DEF Summaries
    <2>1. /\ summary' \in Summaries /\ summary'.total = summary.total
          /\ summary'.completed = summary.completed
          /\ summary'.incomplete = summary.incomplete
          /\ summary'.errors = IF u \in seeded THEN summary.errors ELSE summary.errors + 1
      BY <2>c
    <2>2. o # "verdict" /\ o # "incomplete" BY <1>16 DEF Failures
    <2> QED BY <1>1, <1>10, <1>11, <1>15, <1>16, <2>1, <2>2 DEF Counted
  <1>17. CASE o \notin Failures
    <2>1. summary.errors - Retired(u) \in Nat
      BY <1>11, <1>12, <1>15 DEF Retired, Summaries
    <2>2. /\ summary' \in Summaries /\ summary'.total = summary.total
          /\ summary'.completed = IF o = "verdict" THEN summary.completed + 1
                                  ELSE summary.completed
          /\ summary'.incomplete = IF o = "incomplete" THEN summary.incomplete + 1
                                   ELSE summary.incomplete
          /\ summary'.errors = summary.errors - Retired(u)
      <3> DEFINE e == summary.errors - Retired(u)
                 c == IF o = "verdict" THEN summary.completed + 1 ELSE summary.completed
                 i == IF o = "incomplete" THEN summary.incomplete + 1 ELSE summary.incomplete
      <3>1. c \in Nat /\ i \in Nat BY <1>12 DEF Summaries
      <3>2. summary' = [summary EXCEPT !.usage = spent, !.errors = e,
                                       !.completed = c, !.incomplete = i]
        BY <1>13, <1>17
      <3>3. e \in Nat BY <2>1
      <3> HIDE DEF e, c, i
      <3>4. /\ summary' \in Summaries /\ summary'.total = summary.total
            /\ summary'.completed = c /\ summary'.incomplete = i /\ summary'.errors = e
        BY <1>12, <1>14, <3>1, <3>2, <3>3 DEF Summaries
      <3> QED BY <3>4 DEF e, c, i
    <2>3. summary'.errors = IF u \in seeded THEN summary.errors - 1 ELSE summary.errors
      BY <1>12, <2>2 DEF Retired, Summaries
    <2> QED BY <1>1, <1>10, <1>11, <1>15, <1>17, <2>2, <2>3 DEF Counted
  <1> QED BY <1>16, <1>17

\* A retried unit was an error, and may be one still.
LEMMA CountedRetryFold ==
    ASSUME StepTypes, Placed, Counted, NEW u \in Units, RetryFold(u)
    PROVE  Counted'
  <1> DEFINE o == context[u].outcome
  <1>1. /\ pc = "retryFold" /\ pc' \in {"retry", "gone"}
        /\ UNCHANGED <<row, scope, context, seeded>> /\ stage[u] = "saved"
        /\ stage' = [stage EXCEPT ![u] = "folded"]
    BY DEF RetryFold
  <1>2. stage'[u] = "folded" /\ \A v \in Units \ {u} : stage'[v] = stage[v]
    BY <1>1, StageMoves
  <1>3. UnitPlaced(u) /\ seeded = {} BY <1>1 DEF Placed, Retrying
  <1>4. u \in scope /\ o \in Outcomes /\ context[u].usage \in Nat
    <2>1. context[u] # NoRow BY <1>1, <1>3 DEF UnitPlaced
    <2> QED BY <1>1, <1>3, <2>1, RowTypes DEF UnitPlaced
  <1>5. \A v \in Units \ {u} : stage[v] \notin {"asked", "answered", "saved"}
    BY <1>1 DEF Placed, At
  <1>6. /\ Told("verdict") \in SUBSET Units /\ Told("incomplete") \in SUBSET Units
        /\ Erred \in SUBSET Units
    BY CountedTypes
  <1>7. ASSUME NEW p \in {"verdict", "incomplete"}
        PROVE  /\ u \notin Told(p)
               /\ Told(p)' = IF o = p THEN Told(p) \cup {u} ELSE Told(p)
    <2>1. u \notin Told(p) BY <1>1 DEF Told
    <2>2. ASSUME NEW v \in Units \ {u} PROVE v \in Told(p)' <=> v \in Told(p)
      BY <1>1, <1>2 DEF Told
    <2>3. u \in Told(p)' <=> o = p BY <1>1, <1>2, <1>4 DEF Told
    <2>4. Told(p)' \subseteq Units /\ Told(p) \subseteq Units BY <1>1 DEF Told, StepTypes
    <2> QED BY <2>1, <2>2, <2>3, <2>4
  <1>8. u \in Erred BY <1>1, <1>4 DEF Erred
  <1>9. Erred' = IF o \in Failures THEN Erred ELSE Erred \ {u}
    <2>1. ASSUME NEW v \in Units \ {u} PROVE v \in Erred' <=> v \in Erred
      BY <1>1, <1>2, <1>5 DEF Erred
    <2>2. u \in Erred' <=> o \in Failures BY <1>1, <1>2, <1>3, <1>4 DEF Erred
    <2>3. Erred' \subseteq Units /\ Erred \subseteq Units BY <1>1 DEF Erred, StepTypes
    <2> QED BY <1>8, <2>1, <2>2, <2>3
  <1>10. /\ Cardinality(Told("verdict"))' = IF o = "verdict" THEN Cardinality(Told("verdict")) + 1
                                            ELSE Cardinality(Told("verdict"))
         /\ Cardinality(Told("incomplete"))' = IF o = "incomplete"
                                               THEN Cardinality(Told("incomplete")) + 1
                                               ELSE Cardinality(Told("incomplete"))
    BY <1>6, <1>7, SizeMoves
  <1>11. /\ Cardinality(Erred)' = IF o \in Failures THEN Cardinality(Erred)
                                  ELSE Cardinality(Erred) - 1
         /\ Cardinality(Erred) >= 1
    BY <1>6, <1>8, <1>9, SizeMoves
  <1>12. summary \in Summaries BY DEF Counted
  <1>13. summary' = [summary EXCEPT
                !.usage = @ + context[u].usage,
                !.errors = FoldErrors(@, o),
                !.completed = IF o = "verdict" THEN @ + 1 ELSE @,
                !.incomplete = IF o = "incomplete" THEN @ + 1 ELSE @]
    BY DEF RetryFold
  <1>14. summary.usage + context[u].usage \in Nat BY <1>4, <1>12 DEF Summaries
  <1>15. /\ summary.errors = Cardinality(Erred) /\ summary.total = Cardinality(scope)
         /\ summary.completed = Cardinality(Told("verdict"))
         /\ summary.incomplete = Cardinality(Told("incomplete"))
    BY DEF Counted
  <1> HIDE DEF o
  <1>16. FoldErrors(summary.errors, o) \in Nat BY <1>11, <1>12, <1>15 DEF FoldErrors, Summaries
  <1>17. /\ summary' \in Summaries /\ summary'.total = summary.total
         /\ summary'.completed = IF o = "verdict" THEN summary.completed + 1
                                 ELSE summary.completed
         /\ summary'.incomplete = IF o = "incomplete" THEN summary.incomplete + 1
                                  ELSE summary.incomplete
         /\ summary'.errors = FoldErrors(summary.errors, o)
    <2> DEFINE n == summary.usage + context[u].usage
               e == FoldErrors(summary.errors, o)
               c == IF o = "verdict" THEN summary.completed + 1 ELSE summary.completed
               i == IF o = "incomplete" THEN summary.incomplete + 1 ELSE summary.incomplete
    <2>1. c \in Nat /\ i \in Nat BY <1>12 DEF Summaries
    <2>2. summary' = [summary EXCEPT !.usage = n, !.errors = e,
                                     !.completed = c, !.incomplete = i]
      BY <1>13
    <2>3. n \in Nat /\ e \in Nat BY <1>14, <1>16
    <2> HIDE DEF n, e, c, i
    <2>4. /\ summary' \in Summaries /\ summary'.total = summary.total
          /\ summary'.completed = c /\ summary'.incomplete = i /\ summary'.errors = e
      BY <1>12, <2>1, <2>2, <2>3 DEF Summaries
    <2> QED BY <2>4 DEF e, c, i
  <1> QED BY <1>1, <1>10, <1>11, <1>15, <1>17 DEF Counted, FoldErrors


LEMMA CountedStep ==
    ASSUME StepTypes, Placed, \A u \in Units : Costed(u), pc \in Live => Counted, StepNext
    PROVE  (pc \in Live => Counted)'
  <1>a. \A u \in Units : UnitPlaced(u) BY DEF Placed
  <1> SUFFICES ASSUME pc' \in Live PROVE Counted' OBVIOUS
  <1>1. CASE Load BY <1>1, CountedLoad
  <1>2. CASE PoolDone \/ BeginRound \/ Finish
    <2>1. /\ UNCHANGED <<scope, stage, context, seeded>> /\ pc \in Live
          /\ pc \notin {"retrySave", "retryFold"} /\ pc' \notin {"retrySave", "retryFold"}
      BY <1>2 DEF PoolDone, BeginRound, Finish, memory, Live, Retrying
    <2>2. Erred' = Erred /\ \A o \in {"verdict", "incomplete"} : Told(o)' = Told(o)
      BY <2>1 DEF Erred, Told
    <2>3. Counted /\ summary \in Summaries BY <2>1 DEF Counted
    <2>4. /\ summary' \in Summaries /\ summary'.total = summary.total
          /\ summary'.completed = summary.completed
          /\ summary'.incomplete = summary.incomplete /\ summary'.errors = summary.errors
      <3>1. summary' = summary \/ summary' = [summary EXCEPT !.phase = "done"]
        BY <1>2 DEF PoolDone, BeginRound, Finish, memory
      <3> QED BY <2>3, <3>1 DEF Summaries
    <2> QED BY <2>1, <2>2, <2>3, <2>4, SameCounts
  <1>3. CASE \/ Exit \/ Kill \/ Interrupt \/ \E S \in Populations : StartRun(S)
             \/ \E u \in Units : Raise(u) \/ RetryFails(u)
    <2>1. pc' \in {"idle", "gone", "load"}
      BY <1>3 DEF Exit, Kill, Forget, Interrupt, StartRun, Raise, RetryFails
    <2> QED BY <2>1 DEF Live, Retrying
  <1>4. ASSUME NEW u \in Units,
               UNCHANGED <<scope, summary, seeded>>, pc \in Live,
               \A v \in Units \ {u} : stage'[v] = stage[v] /\ context'[v] = context[v],
               stage[u] \notin {"restored", "folded"}, stage'[u] \notin {"restored", "folded"},
               pc' = pc \/ (pc = "retrySave" /\ pc' = "retryFold"),
               pc \in {"retrySave", "retryFold"} =>
                  stage[u] \in {"asked", "answered"} /\ stage'[u] \in {"answered", "saved"}
        PROVE  Counted'
    <2>1. ASSUME NEW o \in {"verdict", "incomplete"} PROVE Told(o)' = Told(o)
      <3>1. \A v \in Units : v \in Told(o)' <=> v \in Told(o) BY <1>4 DEF Told
      <3> QED BY <1>4, <3>1 DEF Told, StepTypes
    <2>2. Erred' = Erred
      <3>1. \A v \in Units : v \in Erred' <=> v \in Erred BY <1>4 DEF Erred
      <3> QED BY <1>4, <3>1 DEF Erred, StepTypes
    <2>3. Counted /\ summary' \in Summaries BY <1>4 DEF Counted
    <2> QED BY <1>4, <2>1, <2>2, <2>3, SameCounts
  <1>5. ASSUME NEW u \in Units, Ask(u) \/ SaveFails(u) \/ Save(u) PROVE Counted'
    <2>1. PICK s \in {"asked", "raised", "saved"} :
             /\ UNCHANGED <<pc, scope, summary, seeded, context>>
             /\ stage' = [stage EXCEPT ![u] = s]
             /\ stage[u] \in {"queued", "answered"} /\ pc \in {"pool", "gone"}
      BY <1>5 DEF Ask, SaveFails, Save, memory
    <2>2. stage'[u] = s /\ \A v \in Units \ {u} : stage'[v] = stage[v]
      BY <2>1, StageMoves
    <2> QED BY <1>4, <2>1, <2>2
  <1>6. ASSUME NEW u \in Units, RetrySave(u) PROVE Counted'
    <2>1. /\ UNCHANGED <<scope, summary, seeded, context>> /\ stage[u] = "answered"
          /\ pc = "retrySave" /\ pc' = "retryFold" /\ stage' = [stage EXCEPT ![u] = "saved"]
      BY <1>6 DEF RetrySave, memory
    <2>2. stage'[u] = "saved" /\ \A v \in Units \ {u} : stage'[v] = stage[v]
      BY <2>1, StageMoves
    <2> QED BY <1>4, <2>1, <2>2 DEF Live, Retrying
  <1>7. ASSUME NEW u \in Units, AnswerAny(u) PROVE Counted'
    <2>1. PICK o \in Outcomes, c \in Nat : Answer(u, o, c) BY <1>7 DEF AnswerAny
    <2>2. /\ UNCHANGED <<pc, scope, summary, seeded>> /\ stage[u] = "asked"
          /\ stage' = [stage EXCEPT ![u] = "answered"]
      BY <2>1 DEF Answer
    <2>3. stage'[u] = "answered" /\ \A v \in Units \ {u} : stage'[v] = stage[v]
      BY <2>2, StageMoves
    <2>4. \A v \in Units \ {u} : context'[v] = context[v] BY <2>1, AnswerIs
    <2> QED BY <1>4, <2>2, <2>3, <2>4
  <1>8. ASSUME NEW u \in Units, Fold(u) PROVE Counted'
    <2>1. Counted BY <1>8 DEF Fold, Live
    <2> QED BY <1>8, <2>1, CountedFold
  <1>9. ASSUME NEW u \in Units, RetryFold(u) PROVE Counted'
    <2>1. Counted BY <1>9 DEF RetryFold, Live, Retrying
    <2> QED BY <1>9, <2>1, CountedRetryFold
  <1>10. ASSUME NEW u \in Units, RetryAsk(u) PROVE Counted'
    <2>1. /\ UNCHANGED <<scope, summary, seeded>> /\ pc = "retry" /\ pc' = "retrySave"
          /\ u \in todo /\ context' = [context EXCEPT ![u] = NoRow]
          /\ stage' = [stage EXCEPT ![u] = "asked"]
      BY <1>10 DEF RetryAsk
    <2>2. stage'[u] = "asked" /\ \A v \in Units \ {u} : stage'[v] = stage[v]
      BY <2>1, StageMoves
    <2>3. \A v \in Units \ {u} : context'[v] = context[v] BY <2>1 DEF StepTypes, RowsOf
    <2>4. stage[u] = "folded" /\ context[u].outcome = "transient" /\ u \in scope
      BY <1>a, <2>1 DEF UnitPlaced, Retrying
    <2>5. \A v \in Units : stage[v] \notin {"asked", "answered", "saved"}
      BY <1>a, <2>1 DEF UnitPlaced
    <2>6. ASSUME NEW o \in {"verdict", "incomplete"} PROVE Told(o)' = Told(o)
      <3>1. \A v \in Units : v \in Told(o)' <=> v \in Told(o)
        BY <2>1, <2>2, <2>3, <2>4 DEF Told
      <3> QED BY <2>1, <3>1 DEF Told, StepTypes
    <2>7. Erred' = Erred
      <3>1. u \in Erred /\ u \in Erred' BY <2>1, <2>2, <2>4 DEF Erred, Failures
      <3>2. \A v \in Units \ {u} : v \in Erred' <=> v \in Erred
        BY <2>1, <2>2, <2>3, <2>5 DEF Erred
      <3> QED BY <2>1, <3>1, <3>2 DEF Erred, StepTypes
    <2>8. Counted /\ summary' \in Summaries BY <2>1 DEF Counted, Live, Retrying
    <2> QED BY <2>1, <2>6, <2>7, <2>8, SameCounts
  <1> QED
    BY <1>1, <1>2, <1>3, <1>5, <1>6, <1>7, <1>8, <1>9, <1>10
    DEF StepNext, StepWork, Environment, UnitWork

-----------------------------------------------------------------------------
(* What a summary claims, whenever the process may have been killed.       *)

LEMMA ToldAreSaved ==
    ASSUME Placed, scope \subseteq Units, NEW o \in {"verdict", "incomplete"}
    PROVE  /\ Told(o) \subseteq With(scope, o)
           /\ pc = "done" => Told(o) = With(scope, o)
  <1>a. \A u \in Units : UnitPlaced(u) BY DEF Placed
  <1>1. ASSUME NEW u \in scope, u \in Units
        PROVE  /\ u \in Told(o) => u \in With(scope, o)
               /\ pc = "done" /\ u \in With(scope, o) => u \in Told(o)
    BY <1>a, <1>1 DEF UnitPlaced, Told, With, Settled, Retrying
  <1> QED BY <1>1 DEF Told, With

LEMMA CountedKept ==
    StepTypes /\ Placed /\ Counted /\ (pc = "pool" \/ seeded = {}) => Kept
  <1> SUFFICES ASSUME StepTypes, Placed, Counted, pc = "pool" \/ seeded = {} PROVE Kept
    OBVIOUS
  <1>a. \A u \in Units : UnitPlaced(u) BY DEF Placed
  <1> DEFINE A == Told("verdict")
             B == Told("incomplete")
             C == Erred
  <1>1. A \in SUBSET Units /\ B \in SUBSET Units /\ C \in SUBSET Units BY CountedTypes
  <1>2. A \cap B = {} BY DEF Told
  <1>3. (A \cup B) \cap C = {}
    <2>1. ASSUME NEW u \in A \cup B, u \in C PROVE FALSE
      <3>1. /\ u \in scope /\ u \in Units /\ stage[u] \in {"restored", "folded"}
            /\ context[u].outcome \in {"verdict", "incomplete"}
        BY <1>1, <2>1 DEF Told
      <3>2. u \in seeded BY <2>1, <3>1 DEF Erred, Failures
      <3> QED BY <1>a, <3>1, <3>2 DEF UnitPlaced
    <2> QED BY <2>1
  <1>4. A \cup B \cup C \subseteq scope /\ scope \in SUBSET Units
    <2>1. seeded \subseteq scope
      <3>1. ASSUME NEW u \in seeded PROVE u \in scope
        BY <1>a, <3>1 DEF UnitPlaced, StepTypes
      <3> QED BY <3>1
    <2> QED BY <2>1 DEF Told, Erred, StepTypes
  <1>5. A \subseteq With(Units, "verdict")
    <2>1. A \subseteq With(scope, "verdict") BY <1>4, ToldAreSaved
    <2> QED BY <1>4, <2>1 DEF With
  <1> HIDE DEF A, B, C
  <1>6. /\ IsFiniteSet(A) /\ IsFiniteSet(B) /\ IsFiniteSet(C) /\ IsFiniteSet(A \cup B)
        /\ IsFiniteSet(scope) /\ IsFiniteSet(With(Units, "verdict"))
        /\ Cardinality(A) \in Nat /\ Cardinality(B) \in Nat /\ Cardinality(C) \in Nat
        /\ Cardinality(scope) \in Nat
    BY <1>1, <1>4, SetsFinite DEF With
  <1>7. Cardinality(A \cup B) = Cardinality(A) + Cardinality(B)
    <2>1. Cardinality(A \cup B) = Cardinality(A) + Cardinality(B) - Cardinality(A \cap B)
      BY <1>6, FS_Union
    <2> QED BY <1>2, <1>6, <2>1, FS_EmptySet
  <1>8. Cardinality(A \cup B \cup C) = Cardinality(A) + Cardinality(B) + Cardinality(C)
    <2>1. Cardinality((A \cup B) \cup C) = Cardinality(A \cup B) + Cardinality(C)
                                             - Cardinality((A \cup B) \cap C)
      BY <1>6, FS_Union
    <2> QED BY <1>3, <1>6, <1>7, <2>1, FS_EmptySet
  <1>9. /\ Cardinality(A \cup B \cup C) <= Cardinality(scope)
        /\ Cardinality(A) <= Cardinality(With(Units, "verdict"))
    BY <1>4, <1>5, <1>6, FS_Subset
  <1>10. /\ summary \in Summaries /\ summary.total = Cardinality(scope)
         /\ summary.completed = Cardinality(A) /\ summary.incomplete = Cardinality(B)
         /\ summary.errors = Cardinality(C)
    BY DEF Counted, A, B, C
  <1> QED BY <1>6, <1>8, <1>9, <1>10 DEF Kept

\* A row that says "verdict" is not asked about again.
LEMMA VerdictsStay ==
    ASSUME StepTypes, Placed, StepNext
    PROVE  With(Units, "verdict") \subseteq With(Units, "verdict")'
  <1>a. \A u \in Units : UnitPlaced(u) BY DEF Placed
  <1>1. ASSUME NEW u \in Units, Save(u) \/ RetrySave(u)
        PROVE  With(Units, "verdict") \subseteq With(Units, "verdict")'
    <2>1. SaveRow(u) /\ stage[u] = "answered" BY <1>1 DEF Save, RetrySave
    <2>2. context[u] # NoRow /\ ~Settled(row[u]) BY <1>a, <2>1 DEF UnitPlaced
    <2>3. \A v \in Units \ {u} : row'[v] = row[v] BY <2>1, <2>2, RowSaved
    <2>4. u \notin With(Units, "verdict") BY <2>2 DEF With, Settled, Failures
    <2> QED BY <2>3, <2>4 DEF With
  <1>2. CASE UNCHANGED row BY <1>2 DEF With
  <1>3. UNCHANGED row \/ \E u \in Units : Save(u) \/ RetrySave(u)
    BY DEF StepNext, StepWork, Environment, UnitWork, Load, PoolDone, BeginRound, Finish,
           Exit, Kill, Forget, Interrupt, StartRun, SaveFails, RetryFails, Ask, Fold, Raise,
           RetryAsk, RetryFold, AnswerAny, Answer, memory
  <1> QED BY <1>1, <1>2, <1>3

LEMMA KeptStep ==
    ASSUME StepTypes, Placed, \A u \in Units : Costed(u), pc \in Live => Counted, Kept,
           StepTypes', Placed', StepNext
    PROVE  Kept'
  <1>1. (StepTypes /\ Placed /\ Counted /\ (pc = "pool" \/ seeded = {}) => Kept)'
    BY CountedKept, PTL
  <1>2. CASE pc' \in Live
    <2>1. Counted' BY <1>2, CountedStep
    <2>2. (pc = "pool" \/ seeded = {})' BY <1>2 DEF Placed, Live
    <2> QED BY <1>1, <2>1, <2>2
  <1>3. ASSUME NEW u \in Units, RetryFold(u) PROVE Kept'
    <2>1. Counted BY <1>3 DEF RetryFold, Live, Retrying
    <2>2. Counted' BY <1>3, <2>1, CountedRetryFold
    <2>3. seeded' = {} BY <1>3 DEF RetryFold, Placed, Retrying
    <2> QED BY <1>1, <2>2, <2>3
  <1>4. CASE summary' = summary
    <2>1. CASE summary = NoSummary BY <1>4, <2>1 DEF Kept
    <2>2. CASE /\ summary \in Summaries
               /\ summary.completed + summary.incomplete + summary.errors <= summary.total
               /\ summary.completed <= Cardinality(With(Units, "verdict"))
      <3> DEFINE W == With(Units, "verdict")
      <3>1. W \subseteq W' BY VerdictsStay
      <3>2. W \in SUBSET Units /\ W' \in SUBSET Units BY DEF With
      <3> HIDE DEF W
      <3>3. Cardinality(W) <= Cardinality(W') /\ Cardinality(W) \in Nat /\ Cardinality(W') \in Nat
        BY <3>1, <3>2, SetsFinite, FS_Subset
      <3>4. summary.completed <= Cardinality(W') BY <2>2, <3>3 DEF W, Summaries
      <3> QED BY <1>4, <2>2, <3>4 DEF Kept, W
    <2> QED BY <2>1, <2>2 DEF Kept
  <1>5. pc' \in Live \/ summary' = summary \/ \E u \in Units : RetryFold(u)
    BY DEF StepNext, StepWork, Environment, UnitWork, Load, PoolDone, BeginRound, Finish,
           Exit, Kill, Forget, Interrupt, StartRun, SaveFails, RetryFails, Ask, Fold, Raise,
           RetryAsk, Save, RetrySave, AnswerAny, Answer, memory, Live, Retrying
  <1> QED BY <1>2, <1>3, <1>4, <1>5


-----------------------------------------------------------------------------
(* The invariant holds.                                                    *)

LEMMA StepStart == ASSUME Init PROVE StepInv
  <1>1. StepTypes
    <2>1. row \in RowsOf /\ context \in RowsOf BY DEF Init, None, RowsOf
    <2> QED BY <2>1, EnhanceAssumption DEF Init, StepTypes, AllOut, Zero, Amounts
  <1>2. Placed
    BY DEF Init, Placed, UnitPlaced, AllOut, Live, Retrying
  <1>3. \A u \in Units : Costed(u) BY DEF Init, Costed, AllOut, None, Zero
  <1>4. pc \notin Live BY DEF Init, Live, Retrying
  <1>5. Kept BY DEF Init, Kept
  <1> QED BY <1>1, <1>2, <1>3, <1>4, <1>5 DEF StepInv, Charged

LEMMA StepKept == ASSUME StepInv, StepNext \/ UNCHANGED vars PROVE StepInv'
  <1>1. CASE StepNext
    <2>1. StepTypes' /\ Placed' BY <1>1, TypesStep, PlacedStep DEF StepInv
    <2>2. \A u \in Units : Costed(u)' BY <1>1, CostedStep DEF StepInv
    <2>3. Charged' BY <1>1, <2>1, ChargedStep DEF StepInv
    <2>4. (pc \in Live => Counted)' BY <1>1, CountedStep DEF StepInv
    <2>5. Kept' BY <1>1, <2>1, KeptStep DEF StepInv
    <2> QED BY <2>1, <2>2, <2>3, <2>4, <2>5 DEF StepInv
  <1>2. CASE UNCHANGED vars
    <2>1. StepTypes' BY <1>2 DEF StepInv, StepTypes, vars
    <2>2. Placed' BY <1>2 DEF StepInv, Placed, UnitPlaced, At, vars
    <2>3. \A u \in Units : Costed(u)' BY <1>2 DEF StepInv, Costed, vars
    <2>4. Charged' BY <1>2 DEF StepInv, Charged, Unfolded, Unsaved, vars
    <2>5. (pc \in Live => Counted)' BY <1>2 DEF StepInv, Counted, Told, Erred, vars
    <2>6. Kept' BY <1>2 DEF StepInv, Kept, With, vars
    <2> QED BY <2>1, <2>2, <2>3, <2>4, <2>5, <2>6 DEF StepInv
  <1> QED BY <1>1, <1>2

\* One thread moves.
LEMMA AtMoves ==
    ASSUME AgentInv, NEW u \in Units,
           NEW to \in {"away", "ready", "asleep", "cleared", "calling"}, Limiter!Move(u, to)
    PROVE  /\ at' \in [Units -> {"away", "ready", "asleep", "cleared", "calling"}]
           /\ at'[u] = to /\ \A v \in Units \ {u} : at'[v] = at[v]
  BY DEF AgentInv, Limiter!Move

LEMMA AgentKept ==
    ASSUME StepTypes, Placed, AgentInv, Working \/ Disturbance
    PROVE  AgentInv'
  <1>a. \A u \in Units : UnitPlaced(u) BY DEF Placed
  <1>1. ASSUME UNCHANGED <<agents, limiter>>,
               \A u \in Units :
                  \/ stage'[u] = stage[u] /\ (stage[u] = "answered" => context'[u] = context[u])
                  \/ stage[u] # "asked" /\ stage'[u] \notin {"asked", "answered"}
        PROVE  AgentInv'
    BY <1>1 DEF AgentInv, agents, limiter
  <1>2. CASE Rest
    <2>1. UNCHANGED <<agents, limiter>> BY <1>2 DEF Rest
    <2>2. CASE Load
      <3>1. \A u \in Units : /\ stage[u] = "out"
                             /\ stage'[u] \in {"out", "restored", "queued"}
        BY <2>2 DEF Load, Placed, AllOut
      <3> QED BY <1>1, <2>1, <3>1
    <2>3. CASE PoolDone \/ BeginRound \/ Finish \/ \E u \in Units : Raise(u)
      <3>1. UNCHANGED <<stage, context>>
        BY <2>3 DEF PoolDone, BeginRound, Finish, Raise, memory
      <3> QED BY <1>1, <2>1, <3>1
    <2>4. ASSUME NEW u \in Units, Save(u) \/ RetrySave(u) \/ Fold(u) \/ RetryFold(u)
          PROVE  AgentInv'
      <3>1. PICK s \in {"saved", "folded"} :
               /\ stage' = [stage EXCEPT ![u] = s] /\ UNCHANGED context
               /\ stage[u] \in {"answered", "saved"}
        BY <2>4 DEF Save, RetrySave, Fold, RetryFold, memory
      <3>2. stage'[u] = s /\ \A v \in Units \ {u} : stage'[v] = stage[v]
        BY <3>1, StageMoves
      <3> QED BY <1>1, <2>1, <3>1, <3>2
    <2> QED BY <1>2, <2>2, <2>3, <2>4 DEF Rest
  <1>3. CASE /\ UNCHANGED <<agents, limiter>>
             /\ \/ \E S \in Populations : StartRun(S)
                \/ \E u \in Units : SaveFails(u) \/ RetryFails(u)
                \/ Interrupt
    <2>1. UNCHANGED <<agents, limiter>> BY <1>3
    <2>2. CASE \E S \in Populations : StartRun(S) BY <1>1, <2>1, <2>2 DEF StartRun
    <2>3. CASE Interrupt
      <3>1. UNCHANGED context /\ \A u \in Units :
               stage'[u] = IF stage[u] = "queued" THEN "out" ELSE stage[u]
        BY <2>3 DEF Interrupt, memory
      <3> QED BY <1>1, <2>1, <3>1
    <2>4. ASSUME NEW u \in Units, SaveFails(u) \/ RetryFails(u) PROVE AgentInv'
      <3>1. /\ stage' = [stage EXCEPT ![u] = "raised"] /\ UNCHANGED context
            /\ stage[u] = "answered"
        BY <2>4 DEF SaveFails, RetryFails, memory
      <3>2. stage'[u] = "raised" /\ \A v \in Units \ {u} : stage'[v] = stage[v]
        BY <3>1, StageMoves
      <3> QED BY <1>1, <2>1, <3>1, <3>2
    <2> QED BY <1>3, <2>2, <2>3, <2>4
  <1>4. CASE Gone /\ (Exit \/ Kill)
    <2>1. stage' = AllOut BY <1>4 DEF Exit, Kill, Forget
    <2> QED BY <1>4, <2>1 DEF Gone, AgentInv, AllOut, Amounts
  <1>5. CASE Time
    BY <1>5 DEF Time, Limiter!Tick, AgentInv, vars, agents
  <1>6. ASSUME NEW u \in Units, Start(u) PROVE AgentInv'
    <2>1. /\ stage' = [stage EXCEPT ![u] = "asked"] /\ Limiter!Move(u, "ready")
          /\ \A v \in Units \ {u} : context'[v] = context[v]
      BY <1>6 DEF Start, Ask, RetryAsk, memory, Limiter!Arrive, StepTypes, RowsOf
    <2>2. stage'[u] = "asked" /\ \A v \in Units \ {u} : stage'[v] = stage[v]
      BY <2>1, StageMoves
    <2>3. /\ at' \in [Units -> {"away", "ready", "asleep", "cleared", "calling"}]
          /\ at'[u] = "ready" /\ \A v \in Units \ {u} : at'[v] = at[v]
      BY <2>1, AtMoves
    <2>4. /\ turns' \in Amounts /\ total' \in Amounts /\ billed' \in Amounts
          /\ total'[u] = 0 /\ billed'[u] = 0
          /\ \A v \in Units \ {u} : total'[v] = total[v] /\ billed'[v] = billed[v]
      BY <1>6 DEF Start, Agent!Begin, AgentInv, Amounts
    <2> QED BY <2>1, <2>2, <2>3, <2>4 DEF AgentInv
  <1>7. ASSUME NEW u \in Units, Wait(u) \/ Turn(u) PROVE AgentInv'
    <2>1. /\ UNCHANGED <<stage, context, total, billed>> /\ turns' \in Amounts
          /\ at[u] # "away"
          /\ \E to \in {"ready", "asleep", "cleared", "calling"} : Limiter!Move(u, to)
      <3>1. CASE Wait(u)
        BY <3>1 DEF Wait, Limiter!Look, Limiter!Wake, vars, agents, AgentInv
      <3>2. CASE Turn(u)
        BY <3>2 DEF Turn, Limiter!Issue, Agent!NextTurn, vars, AgentInv, Amounts
      <3> QED BY <1>7, <3>1, <3>2
    <2>2. PICK to \in {"ready", "asleep", "cleared", "calling"} : Limiter!Move(u, to)
      BY <2>1
    <2>3. /\ at' \in [Units -> {"away", "ready", "asleep", "cleared", "calling"}]
          /\ at'[u] = to /\ \A v \in Units \ {u} : at'[v] = at[v]
      BY <2>2, AtMoves
    <2> QED BY <2>1, <2>3 DEF AgentInv
  <1>8. ASSUME NEW u \in Units, Tools(u) PROVE AgentInv'
    <2>1. PICK c \in TurnCosts : Agent!UseTools(u, c) BY <1>8 DEF Tools
    <2>2. c \in Nat BY AgentsAssumption
    <2>3. /\ at[u] = "calling" /\ Limiter!Move(u, "ready") /\ UNCHANGED <<stage, context>>
      BY <1>8 DEF Tools, Limiter!Return, vars
    <2>4. /\ at' \in [Units -> {"away", "ready", "asleep", "cleared", "calling"}]
          /\ at'[u] = "ready" /\ \A v \in Units \ {u} : at'[v] = at[v]
      BY <2>3, AtMoves
    <2>5. stage[u] = "asked" /\ total[u] = billed[u] BY <2>3 DEF AgentInv
    <2>6. /\ turns' \in Amounts /\ total' \in Amounts /\ billed' \in Amounts
          /\ total'[u] = total[u] + c /\ billed'[u] = billed[u] + c
          /\ \A v \in Units \ {u} : total'[v] = total[v] /\ billed'[v] = billed[v]
      BY <2>1, <2>2 DEF Agent!UseTools, Agent!Charge, AgentInv, Amounts
    <2> QED BY <2>3, <2>4, <2>5, <2>6 DEF AgentInv
  <1>9. ASSUME NEW u \in Units, End(u) \/ Fail(u) \/ Throttled(u) PROVE AgentInv'
    <2>1. PICK o \in Outcomes, c \in Nat :
             /\ Agent!Charge(u, c) /\ Answer(u, o, total[u] + c) /\ UNCHANGED <<turns, total>>
             /\ at[u] = "calling" /\ Limiter!Move(u, "away")
      <3>1. CASE End(u)
        BY <3>1, AgentsAssumption
        DEF End, Agent!Endings, Agent!Recorded, Outcomes, Limiter!Return
      <3>2. CASE Fail(u)
        <4>1. Failures \subseteq Outcomes /\ TurnCosts \cup {0} \subseteq Nat
          BY AgentsAssumption DEF Failures, Outcomes
        <4> QED BY <3>2, <4>1 DEF Fail, Agent!RecordedRaise, Limiter!Return
      <3>3. CASE Throttled(u)
        BY <3>3 DEF Throttled, Agent!RecordedRaise, Outcomes, Limiter!Reject
      <3> QED BY <1>9, <3>1, <3>2, <3>3
    <2>2. total[u] + c \in Nat BY DEF AgentInv, Amounts
    <2>3. /\ context'[u].usage = total[u] + c
          /\ \A v \in Units \ {u} : context'[v] = context[v]
      BY <2>1, <2>2, AnswerIs
    <2>4. stage'[u] = "answered" /\ \A v \in Units \ {u} : stage'[v] = stage[v]
      BY <2>1, StageMoves DEF Answer
    <2>5. /\ at' \in [Units -> {"away", "ready", "asleep", "cleared", "calling"}]
          /\ at'[u] = "away" /\ \A v \in Units \ {u} : at'[v] = at[v]
      BY <2>1, AtMoves
    <2>6. total[u] = billed[u] BY <2>1 DEF AgentInv
    <2>7. /\ billed' \in Amounts /\ billed'[u] = billed[u] + c
          /\ \A v \in Units \ {u} : billed'[v] = billed[v]
      BY <2>1 DEF Agent!Charge, AgentInv, Amounts
    <2> QED BY <2>1, <2>3, <2>4, <2>5, <2>6, <2>7 DEF AgentInv
  <1>10. CASE Kill /\ Gone BY <1>4, <1>10
  <1>11. CASE Exit /\ Gone BY <1>4, <1>11
  <1> QED
    BY <1>2, <1>3, <1>5, <1>6, <1>7, <1>8, <1>9, <1>10, <1>11 DEF Working, Disturbance


LEMMA LimiterKept ==
    ASSUME LimiterInv, Working \/ Disturbance
    PROVE  LimiterInv'
  <1>1. CASE UNCHANGED limiter BY <1>1 DEF limiter, LimiterInv
  <1>2. CASE Gone BY <1>2 DEF Gone, LimiterInv
  <1>3. CASE Time BY <1>3 DEF Time, Limiter!Tick, LimiterInv
  <1>4. CASE UNCHANGED <<remaining, promised>> BY <1>4 DEF LimiterInv
  <1>5. ASSUME NEW u \in Units, Throttled(u) PROVE LimiterInv'
    BY <1>5 DEF Throttled, Limiter!Reject, Limiter!Extended, LimiterInv
  <1>6. ASSUME NEW u \in Units,
               Start(u) \/ Wait(u) \/ Turn(u) \/ Tools(u) \/ End(u) \/ Fail(u)
        PROVE  UNCHANGED <<remaining, promised>>
    BY <1>6 DEF Start, Wait, Turn, Tools, End, Fail, Limiter!Arrive, Limiter!Look,
                Limiter!Wake, Limiter!Issue, Limiter!Return
  <1> QED BY <1>1, <1>2, <1>3, <1>4, <1>5, <1>6 DEF Working, Disturbance, Rest

\* A thread gets past the backoff only where there is none.
LEMMA ClearedLast ==
    ASSUME AgentInv, LimiterInv, Working \/ Disturbance, NEW t \in Units,
           at[t] # "cleared", at'[t] = "cleared"
    PROVE  promised = 0
  <1>1. CASE UNCHANGED at BY <1>1
  <1>2. CASE Gone BY <1>2 DEF Gone
  <1>3. ASSUME NEW u \in Units, Wait(u) PROVE promised = 0
    <2>1. CASE Limiter!Look(u) /\ remaining = 0 BY <2>1 DEF LimiterInv
    <2>2. CASE Limiter!Look(u) /\ remaining # 0
      <3>1. Limiter!Move(u, "asleep") BY <2>2 DEF Limiter!Look
      <3> QED BY <3>1, AtMoves
    <2>3. CASE Limiter!Wake(u)
      <3>1. Limiter!Move(u, "ready") BY <2>3 DEF Limiter!Wake
      <3> QED BY <3>1, AtMoves
    <2> QED BY <1>3, <2>1, <2>2, <2>3 DEF Wait
  <1>4. ASSUME NEW u \in Units,
               Start(u) \/ Turn(u) \/ Tools(u) \/ End(u) \/ Fail(u) \/ Throttled(u)
        PROVE  promised = 0
    <2>1. \E to \in {"ready", "calling", "away"} : Limiter!Move(u, to)
      BY <1>4 DEF Start, Turn, Tools, End, Fail, Throttled, Limiter!Arrive, Limiter!Issue,
                  Limiter!Return, Limiter!Reject
    <2>2. PICK to \in {"ready", "calling", "away"} : Limiter!Move(u, to) BY <2>1
    <2>3. at'[u] = to /\ \A v \in Units \ {u} : at'[v] = at[v] BY <2>2, AtMoves
    <2> QED BY <2>3
  <1>5. CASE UNCHANGED limiter BY <1>1, <1>5 DEF limiter
  <1>6. CASE Time BY <1>1, <1>6 DEF Time, Limiter!Tick
  <1> QED BY <1>2, <1>3, <1>4, <1>5, <1>6 DEF Working, Disturbance, Rest

Inv == StepInv /\ AgentInv /\ LimiterInv

LEMMA InvHolds == AgentsSpec => []Inv
  <1>1. AgentsInit => Inv
    <2> SUFFICES ASSUME AgentsInit PROVE Inv OBVIOUS
    <2>1. StepInv BY StepStart DEF AgentsInit
    <2>2. AgentInv
      BY DEF AgentsInit, Init, AllOut, Agent!AgentInit, Limiter!LimiterInit, AgentInv, Amounts
    <2>3. LimiterInv BY DEF AgentsInit, Limiter!LimiterInit, LimiterInv
    <2> QED BY <2>1, <2>2, <2>3 DEF Inv
  <1>2. Inv /\ [Working \/ Disturbance]_allVars => Inv'
    <2> SUFFICES ASSUME Inv, [Working \/ Disturbance]_allVars PROVE Inv' OBVIOUS
    <2>1. CASE Working \/ Disturbance
      <3>1. StepNext \/ UNCHANGED vars BY <2>1, StepsAre DEF Inv
      <3>2. StepInv' BY <3>1, StepKept DEF Inv
      <3>3. AgentInv' BY <2>1, AgentKept DEF Inv, StepInv
      <3>4. LimiterInv' BY <2>1, LimiterKept DEF Inv
      <3> QED BY <3>2, <3>3, <3>4 DEF Inv
    <2>2. CASE UNCHANGED allVars
      <3>1. StepInv' BY <2>2, StepKept DEF Inv, allVars
      <3>2. AgentInv'
        BY <2>2 DEF Inv, AgentInv, allVars, vars, agents, limiter
      <3>3. LimiterInv' BY <2>2 DEF Inv, LimiterInv, allVars, limiter
      <3> QED BY <3>1, <3>2, <3>3 DEF Inv
    <2> QED BY <2>1, <2>2
  <1> QED BY <1>1, <1>2, PTL DEF AgentsSpec

-----------------------------------------------------------------------------
(* The theorems.                                                           *)

LEMMA DoneCounts ==
    ASSUME StepTypes, Placed, Counted, pc = "done"
    PROVE  /\ summary.completed = Cardinality(With(scope, "verdict"))
           /\ summary.incomplete = Cardinality(With(scope, "incomplete"))
           /\ summary.errors = Cardinality({u \in scope : Failed(row[u])})
  <1>a. \A u \in Units : UnitPlaced(u) BY DEF Placed
  <1>1. /\ Told("verdict") = With(scope, "verdict")
        /\ Told("incomplete") = With(scope, "incomplete")
    BY ToldAreSaved DEF StepTypes
  <1>2. Erred = {u \in scope : Failed(row[u])}
    <2>1. seeded = {} BY DEF Placed, Retrying
    <2>2. ASSUME NEW u \in scope PROVE u \in Erred <=> Failed(row[u])
      <3>1. u \in Units BY DEF StepTypes
      <3> QED BY <1>a, <2>1, <3>1 DEF Erred, UnitPlaced, Retrying, Failed, Settled
    <2> QED BY <2>1, <2>2 DEF Erred
  <1> QED BY <1>1, <1>2 DEF Counted

LEMMA DoneSpend ==
    ASSUME StepTypes, Placed, Charged, Counted, pc = "done"
    PROVE  /\ tracker = summary.usage
           /\ summary.usage = MapThenSumSet(LAMBDA u : durable[u], scope)
  <1>a. \A u \in Units : UnitPlaced(u) BY DEF Placed
  <1>1. \A u \in Units : stage[u] \notin {"answered", "saved", "raised"}
    BY <1>a DEF UnitPlaced, Retrying
  <1>2. Worth(Unfolded, Units) = 0 /\ Worth(Unsaved, Units) = 0
    <2>1. \A u \in Units : Unfolded[u] = 0 /\ Unsaved[u] = 0 BY <1>1 DEF Unfolded, Unsaved
    <2> QED BY <2>1, WorthNothing
  <1>3. /\ IsFiniteSet(scope) /\ Worth(durable, scope) \in Nat
        /\ \A u \in scope : durable[u] \in Nat
    BY WorthType DEF StepTypes, Amounts
  <1>4. MapThenSumSet(LAMBDA u : durable[u], scope) = Worth(durable, scope)
    BY <1>3, SumIsWorth
  <1>5. /\ summary.usage + Worth(Unfolded, Units) = tracker
        /\ Worth(durable, scope) + Worth(Unsaved, Units) = tracker
    BY DEF Charged, Live, Retrying
  <1>6. tracker \in Nat /\ summary.usage \in Nat BY DEF StepTypes, Counted, Summaries
  <1> QED BY <1>2, <1>3, <1>4, <1>5, <1>6


\* The state keeps its types: a summary's counts, which are added to and taken
\* from, never fall below nothing (_update_summary, _retire_seeded_error).
THEOREM EnhanceTypes == AgentsSpec => []TypeOK
  <1>1. Inv => TypeOK
    <2> SUFFICES ASSUME Inv PROVE TypeOK OBVIOUS
    <2>1. StepTypes BY DEF Inv, StepInv
    <2>2. summary = NoSummary \/ summary \in Summaries BY DEF Inv, StepInv, Kept
    <2> QED BY <2>1, <2>2 DEF TypeOK, StepTypes, RowsOf, Amounts, Summaries
  <1> QED BY <1>1, InvHolds, PTL

\* From the provider's bill to the step's total nothing is lost and nothing is
\* counted twice, and what the summary says was done was done: whatever exit a
\* conversation took, over retries, rounds, resumed runs, full disks, interrupts
\* and kills (ContextAgent.analyze_unit, enhance_dataset_agentic, the summary).
THEOREM SpendIsAccounted == AgentsSpec => []SpendAccounted
  <1>1. Inv => SpendAccounted
    <2> SUFFICES ASSUME Inv PROVE SpendAccounted OBVIOUS
    <2>1. StepTypes /\ Placed /\ Charged /\ Kept /\ \A u \in Units : Costed(u)
      BY DEF Inv, StepInv
    <2>2. ConversationsBilled BY DEF Inv, AgentInv, ConversationsBilled
    <2>3. pc = "done" => Counted BY DEF Inv, StepInv, Live, Retrying
    <2>4. SummaryAccounts
      <3> SUFFICES ASSUME summary # NoSummary
                   PROVE  /\ summary.completed + summary.incomplete + summary.errors
                               <= summary.total
                          /\ summary.completed <= Cardinality(With(Units, "verdict"))
                          /\ pc = "done" =>
                               /\ summary.completed = Cardinality(With(scope, "verdict"))
                               /\ summary.incomplete = Cardinality(With(scope, "incomplete"))
                               /\ summary.errors = Cardinality({u \in scope : Failed(row[u])})
        BY DEF SummaryAccounts
      <3> QED BY <2>1, <2>3, DoneCounts DEF Kept
    <2>5. SpendAcrossRuns
      <3>1. \A u \in Units : row[u] # NoRow => row[u].usage = durable[u] BY <2>1 DEF Costed
      <3>2. pc = "done" =>
               /\ summary.usage = MapThenSumSet(LAMBDA u : durable[u], scope)
               /\ tracker = summary.usage
        BY <2>1, <2>3, DoneSpend
      <3> QED BY <3>1, <3>2 DEF SpendAcrossRuns
    <2> QED BY <2>2, <2>4, <2>5 DEF SpendAccounted, EnhanceAccounts
  <1> QED BY <1>1, InvHolds, PTL

\* No thread gets past the backoff while a window that any rejection has asked
\* for is open, whichever thread was rejected, however long each has slept, and
\* whatever shorter window was reported since (wait_if_needed,
\* report_rate_limit).
THEOREM WindowsAreHonoured == AgentsSpec => WindowsHonoured
  <1>1. Inv /\ [Working \/ Disturbance]_allVars =>
           [\A t \in Units :
               at[t] # "cleared" /\ at'[t] = "cleared" => promised = 0]_limiter
    <2> SUFFICES ASSUME Inv, [Working \/ Disturbance]_allVars
                 PROVE  [\A t \in Units :
                            at[t] # "cleared" /\ at'[t] = "cleared" => promised = 0]_limiter
      OBVIOUS
    <2>1. CASE Working \/ Disturbance BY <2>1, ClearedLast DEF Inv
    <2>2. CASE UNCHANGED allVars BY <2>2 DEF allVars
    <2> QED BY <2>1, <2>2
  <1> QED BY <1>1, InvHolds, PTL
          DEF AgentsSpec, WindowsHonoured, Limiter!WindowsHonoured, Limiter!limiterVars, limiter
=============================================================================
