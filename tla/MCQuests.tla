------------------------------ MODULE MCQuests ------------------------------
(***************************************************************************)
(* Instances of the quests for TLC.                                        *)
(***************************************************************************)
EXTENDS Quests, TLC

CONSTANTS ann, bob,            \* users
          k1, k2, k3,          \* idempotency keys
          h1, h2, h3           \* handlers

AnnHolds == [u \in Users |-> IF u = ann THEN 1 ELSE 0]

Post(u, type, k) == [user |-> u, type |-> type, key |-> k]

\* A purchase and two sales of one user.
AnnTrades ==
    h1 :> Post(ann, "BUY", k1) @@ h2 :> Post(ann, "SELL", k2) @@ h3 :> Post(ann, "SELL", k3)

QuestLoads == {{h1, h2, h3}, {HoldJob, RankJob}, {h3, HoldJob}}
RetryLoads == {{h1, h2}}

\* A purchase and its retry.
AnnRetries == h1 :> Post(ann, "BUY", k1) @@ h2 :> Post(ann, "BUY", k1)
=============================================================================
