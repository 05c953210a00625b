------------------------ MODULE ReachabilityRefilter ------------------------
(***************************************************************************)
(* What the scan does with the LLM reachability pass (core/scanner.py, the *)
(* stage's body): the signals promote units to entry points, and the       *)
(* dataset, parsed unfiltered, is filtered again language by language      *)
(* (parser_adapter.py, apply_reachability_filter) to what the structural   *)
(* and the promoted entry points of that language reach in its call graph. *)
(*                                                                         *)
(* Abstracted: the parsers (call graphs, detected entry points, harnesses, *)
(* exports are constants; the graph is of units only); the flat layout is  *)
(* one language; the counterfactual baseline and the advisories, which     *)
(* change nothing that is kept.  What a failure leaves is ScanPipeline's.  *)
(***************************************************************************)
EXTENDS ReachabilityReview, Functions

CONSTANTS
    Language,   \* [Ids -> language]: the stamp of dataset_merge.py
    Calls,      \* pairs <<caller, callee>>, of one language each
    Harness,    \* synthesized fuzz harnesses
    Public,     \* exported, and not private by name
    Promoting,  \* keys of entry-point signals of a confidence in promote_set
    Scans       \* what a scan may find: [graphs, detected, library]

ASSUME RefilterAssumption ==
    /\ DOMAIN Language = Ids
    /\ Calls \subseteq Ids \X Ids /\ \A c \in Calls : Language[c[1]] = Language[c[2]]
    /\ Harness \subseteq Ids /\ Public \subseteq Ids /\ Promoting \subseteq Keys
    /\ Scans \subseteq [graphs : SUBSET Range(Language), detected : SUBSET Ids,
                        library : BOOLEAN]

VARIABLES
    scan,      \* the scan that filters, or NoScan
    dataset,   \* dataset.json, what the later steps work on
    told       \* languages it says it has not filtered (metadata.reachability_filter)

refilter == <<scan, dataset, told>>
allVars  == <<vars, refilter>>

NoScan     == [graphs |-> {}, detected |-> {}, library |-> FALSE]
Languages  == Range(Language)
Stamped(l) == {u \in Ids : Language[u] = l}

RefilterInit == Init /\ scan = NoScan /\ dataset = Ids /\ told = {}

\* apply_signals: promote-only.
Promoted == {s[1] : s \in {x \in returned : x[2] \in Promoting}}

\* scope_entry_points_to_units
Extra(l) == Promoted \cap Stamped(l)

\* The seeds of one language: detected, promoted, and in library mode its API.
Seeds(s, l) ==
    (s.detected \cap Stamped(l)) \cup Extra(l)
        \cup (IF s.library THEN Public \cap Stamped(l) ELSE {})

Callees(S) == {c[2] : c \in {x \in Calls : x[1] \in S}}

\* get_all_reachable, level by level.
Levels(seeds) ==
    LET level[n \in Nat] ==
            IF n = 0 THEN seeds ELSE level[n - 1] \cup Callees(level[n - 1])
    IN  level

Reachable(seeds) == Levels(seeds)[Size]

\* The safety net: with harnesses for seeds, or none, nothing is pruned.
BlackedOut(s, l) == Seeds(s, l) \ Harness = {}

KeptOf(s, l) ==
    IF l \notin s.graphs \/ BlackedOut(s, l) THEN Stamped(l)
    ELSE Stamped(l) \cap Reachable(Seeds(s, l))

\* Languages without a call graph pass through, and are named.
Refilter(s) ==
    /\ pc = "returned" /\ pc' = "filtered" /\ scan' = s
    /\ dataset' = UNION {KeptOf(s, l) : l \in Languages}
    /\ told' = {l \in Languages : l \notin s.graphs \/ BlackedOut(s, l)}
    /\ UNCHANGED <<onDisk, replies, records, history>>

\* The next scan parses anew, and may resume from the records.
NextScan == pc = "filtered" /\ Gone /\ scan' = NoScan /\ dataset' = Ids /\ told' = {}

KillScan == Kill /\ scan' = NoScan /\ dataset' = Ids /\ told' = {}

RefilterNext ==
    \/ ReviewWork /\ UNCHANGED refilter
    \/ \E s \in Scans : Refilter(s)
    \/ NextScan \/ KillScan

RefilterSpec == RefilterInit /\ [][RefilterNext]_allVars

-----------------------------------------------------------------------------
(* Properties.                                                             *)

RefilterTypeOK ==
    /\ TypeOK /\ scan \in Scans \cup {NoScan}
    /\ dataset \subseteq Ids /\ told \subseteq Languages

\* u calls v, directly or not: every set that holds u and what its members call
\* holds v.
Closed == {C \in SUBSET Ids : \A c \in Calls : c[1] \in C => c[2] \in C}
Calling == {x \in Ids \X Ids : \A C \in Closed : x[1] \in C => x[2] \in C}

\* What this pass or an earlier one recorded of u, and will be adopted again.
RecordedEntry(u) == Adoptable(u) /\ disk[u] \cap Promoting # {}

\* The later steps see all they should: what a recorded signal, of this pass or
\* an adopted one, the detector or the library's API makes an entry point stays
\* in the dataset with all it calls, however far; a unit leaves it only if its
\* language has an entry point that is no harness; and a unit that no entry
\* point reaches stays only in a language that is said not to be filtered.
ScopeKept ==
    pc = "filtered" =>
        LET seeds == scan.detected \cup Promoted \cup {u \in Ids : RecordedEntry(u)}
                       \cup (IF scan.library THEN Public ELSE {})
        IN  /\ \A x \in Calling : x[1] \in seeds => x[2] \in dataset
            /\ \A v \in Ids \ dataset : \E u \in seeds \ Harness : Language[u] = Language[v]
            /\ \A v \in dataset : Language[v] \in told \/ \E u \in seeds : <<u, v>> \in Calling

\* What a signal promotes is in the scope of the pass that heard it and, with
\* the exceptions SignalsHeard names, of every later scan that adopts the unit:
\* the records hold what was heard, at every step and so at every kill; at its
\* end they hold all the pass returned; and the filter keeps what it reaches.
SignalsApplied == SignalsHeard /\ AdoptedIsApplied /\ ScopeKept
=============================================================================
