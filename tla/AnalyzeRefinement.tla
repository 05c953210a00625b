------------------------- MODULE AnalyzeRefinement -------------------------
(***************************************************************************)
(* AnalyzeStep implements VerdictStore: the mapping of the directory's     *)
(* sidecar, of its rows and of results.json to the abstract store.         *)
(***************************************************************************)
EXTENDS AnalyzeStep

CONSTANTS Nobody, Unknown   \* VerdictStore's marks of a store without a claim

ASSUME MarksAssumption ==
    /\ Nobody \notin Backends /\ Unknown \notin Backends /\ Nobody # Unknown
    /\ NoReport \notin Backends \cup {Legacy}

\* Who may write: no sidecar is no claim, a damaged one is an unreadable claim.
Owner == IF sidecar = NoSidecar THEN Nobody
         ELSE IF sidecar = Corrupt THEN Unknown ELSE sidecar

\* Whose verdict a unit has: an error row is none.
Held == [u \in Units |-> IF ckpt[u] # NoRow /\ ~IsError(ckpt[u])
                         THEN ckpt[u].fp ELSE NoReport]

Store == INSTANCE VerdictStore
    WITH owner <- Owner, held <- Held, published <- report, Nothing <- NoReport

\* Each step of a run, of a thread or of the environment is a step of the
\* abstract store, or leaves it as it is.
ImplementsVerdictStore == Store!StoreSpec
=============================================================================
