----------------------------- MODULE MCLedgerTx -----------------------------
(***************************************************************************)
(* Instances of the ledger's concurrent calls for TLC.                     *)
(***************************************************************************)
EXTENDS LedgerTx, Curve, TLC

CONSTANTS ann, bob, bot,            \* users
          acme, nova, coin,         \* two seeded cards, a launched one
          k1, k2, k3, k4, k5,       \* idempotency keys
          q1, q2, q3, q4, q5, q6, q7, q8, q9, q10      \* requests

Acme   == [base |-> 20, scale |-> 16]
MCCurves == {Acme} \cup {LaunchCurve(t) : t \in LaunchTotals}
\* The tables.  TLC keeps the value of a constant definition, but evaluates what
\* a configuration puts for a constant every time.
SpotTable == [k \in MCCurves |-> [s \in 0..MaxSupply |-> SpotPriceOf(k, s)]]
AreaTable == [k \in MCCurves |-> [s \in 0..MaxSupply |-> AreaOf(k, s)]]
MCSpot == SpotTable
MCArea == AreaTable

TwoCards   == acme :> [curve |-> Acme, total |-> 12, supply |-> 8] @@
              nova :> [curve |-> Acme, total |-> 12, supply |-> 10]
AcmeCard   == acme :> [curve |-> Acme, total |-> 12, supply |-> 8]
\* The bot holds three of acme's eight shares, the others have one of nova's.
MarketShares == [u \in Users |-> IF u \in Bots THEN acme :> 3 @@ nova :> 0
                                 ELSE acme :> 0 @@ nova :> 1]
BotShares    == [u \in Users |-> acme :> (IF u \in Bots THEN 3 ELSE 0)]
\* Nobody is rich: ann can pay for two trades and not for three.
Purses     == [u \in Users |-> 40]

Trade(u, c, type, n, k) ==
    [kind |-> "TRADE", user |-> u, card |-> c, type |-> type, shares |-> n,
     total |-> 0, percent |-> 0, key |-> k]
Launch(u, c, k) ==
    [kind |-> "LAUNCH", user |-> u, card |-> c, type |-> "none", shares |-> 0,
     total |-> 10, percent |-> 40, key |-> k]
Plain(kind, u) ==
    [kind |-> kind, user |-> u, card |-> "none", type |-> "none", shares |-> 0,
     total |-> 0, percent |-> 0, key |-> "none"]

\* A purchase and its retry, a sale of the same card by the bot, a reward of the
\* buyer and a rebalancing of the seller; a launch and its retry, and a purchase
\* of the launched card; trades of another card by the same two users, one of
\* them under a key that is the other's.
MarketCalls ==
    q1 :> Trade(ann, acme, "BUY", 1, k1) @@ q2 :> Trade(ann, acme, "BUY", 1, k1) @@
    q3 :> Trade(bot, acme, "SELL", 2, k2) @@ q4 :> Plain("REWARD", ann) @@
    q5 :> Plain("REBALANCE", bot) @@
    q6 :> Launch(ann, coin, k3) @@ q7 :> Launch(ann, coin, k3) @@
    q8 :> Trade(bob, coin, "BUY", 1, k4) @@
    q9 :> Trade(ann, nova, "SELL", 1, k5) @@ q10 :> Trade(bot, nova, "BUY", 1, k1)

MarketLoads == {{q1, q2, q3}, {q1, q3, q5}, {q1, q4, q6}, {q4, q6, q7}, {q6, q7, q8},
                {q1, q9, q10}, {q3, q9, q10}}
AllTogether == {Requests}

\* A purchase and its retry, at the position cap.
RetryCalls ==
    q1 :> Trade(ann, acme, "BUY", 2, k1) @@ q2 :> Trade(ann, acme, "BUY", 2, k1)

=============================================================================
