------------------------------ MODULE MCLedger ------------------------------
(***************************************************************************)
(* Instances of the ledger for TLC, on real square-root curves.            *)
(***************************************************************************)
EXTENDS LedgerProps, Curve, TLC

CONSTANTS ann, bob, bot,       \* users
          acme, index, card    \* a company, the index, a launched card

Acme   == [base |-> 20, scale |-> 16]
Index  == [base |-> 50, scale |-> 10]
MCCurves == {Acme, Index} \cup {LaunchCurve(t) : t \in LaunchTotals}
\* The tables.  TLC keeps the value of a constant definition, but evaluates what
\* a configuration puts for a constant every time.
SpotTable == [k \in MCCurves |-> [s \in 0..MaxSupply |-> SpotPriceOf(k, s)]]
AreaTable == [k \in MCCurves |-> [s \in 0..MaxSupply |-> AreaOf(k, s)]]
MCSpot == SpotTable
MCArea == AreaTable

AcmeSeed  == [curve |-> Acme, total |-> 9, supply |-> 8]
IndexSeed == [curve |-> Index, total |-> Unlimited, supply |-> 0]

NoSeeds      == <<>>
MarketCards  == acme :> AcmeSeed @@ index :> IndexSeed
\* The bot holds three of acme's eight shares.
MarketShares == [u \in Users |-> acme :> (IF u \in Bots THEN 3 ELSE 0) @@ index :> 0]
NoShares     == [u \in Users |-> <<>>]
Purse100     == [u \in Users |-> 100]

\* The runs about launched cards leave the daily rewards out: they touch nothing
\* but balances, and the runs with seeded cards interleave them.
LaunchNext ==
    \/ Tick
    \/ \E at \in ClockReadings, u \in Users, c \in Cards :
          \/ \E type \in TradeTypes, n \in TradeSizes : ExecuteTrade(u, c, type, n, at)
          \/ \E total \in LaunchTotals, percent \in LaunchPercents :
                LaunchCard(u, c, total, percent, at)

LaunchSpec == Init /\ [][LaunchNext]_vars
=============================================================================
