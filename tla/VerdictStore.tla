---------------------------- MODULE VerdictStore ----------------------------
(***************************************************************************)
(* What the analyze step promises of its output directory, whatever the    *)
(* threads, kills and restarts behind it: one backend owns the verdicts at *)
(* any time; a verdict appears only in the owner's name; ownership changes *)
(* hands only through an empty store, or a store of unclaimed (legacy)     *)
(* verdicts; a report published in the owner's name shows verdicts of the  *)
(* store, plus findings the owner adds for units the store has no verdict  *)
(* on.                                                                     *)
(***************************************************************************)
CONSTANTS Units, Backends,
          Legacy,     \* the unknown author of an unclaimed verdict
          Nobody,     \* the store is unclaimed
          Unknown,    \* the claim is unreadable
          Nothing     \* no verdict, no report

VARIABLES owner,      \* who may write and publish
          held,       \* the author of each unit's verdict
          published   \* the current report

store == <<owner, held, published>>

StoreInit ==
    /\ owner = Nobody
    /\ held \in [Units -> {Legacy, Nothing}]
    /\ \/ published = Nothing
       \/ published.fp = Legacy /\ \A u \in DOMAIN published.by : published.by[u] = Legacy

Claim(b) ==
    /\ owner = Nobody /\ \A u \in Units : held[u] \in {Legacy, Nothing}
    /\ owner' = b /\ UNCHANGED <<held, published>>

LoseClaim ==
    /\ owner \in Backends /\ owner' = Unknown /\ UNCHANGED <<held, published>>

Clear ==
    /\ owner # Nobody /\ owner' = Nobody
    /\ held' = [u \in Units |-> Nothing] /\ UNCHANGED published

Settle(u) ==
    /\ owner \in Backends
    /\ held' = [held EXCEPT ![u] = owner] /\ UNCHANGED <<owner, published>>

Withdraw(u) ==
    /\ owner \in Backends
    /\ held' = [held EXCEPT ![u] = Nothing] /\ UNCHANGED <<owner, published>>

Retire ==
    /\ published # Nothing /\ published.fp # owner
    /\ published' = Nothing /\ UNCHANGED <<owner, held>>

Report ==
    /\ owner \in Backends
    /\ published' # Nothing /\ published'.fp = owner
    /\ \A u \in DOMAIN published'.by :
          /\ u \in Units
          /\ published'.by[u] = IF held[u] # Nothing THEN held[u] ELSE owner
    /\ UNCHANGED <<owner, held>>

StoreNext ==
    \/ \E b \in Backends : Claim(b)
    \/ LoseClaim \/ Clear \/ Retire \/ Report
    \/ \E u \in Units : Settle(u) \/ Withdraw(u)

StoreSpec == StoreInit /\ [][StoreNext]_store
=============================================================================
