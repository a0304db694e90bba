---------------------------- MODULE MCBotTraders ----------------------------
(***************************************************************************)
(* Instances of the trading bots for TLC, on real square-root curves.      *)
(***************************************************************************)
EXTENDS BotTraders, Curve, TLC

CONSTANTS ann,                              \* a human
          trend, against, walker, reader, tracker,   \* a bot of each persona
          acme, index                       \* a company and the index

Acme   == [base |-> 20, scale |-> 16]
Index  == [base |-> 10, scale |-> 10]
MCCurves == {Acme, Index} \cup {LaunchCurve(t) : t \in LaunchTotals}
SpotTable == [k \in MCCurves |-> [s \in 0..MaxSupply |-> SpotPriceOf(k, s)]]
AreaTable == [k \in MCCurves |-> [s \in 0..MaxSupply |-> AreaOf(k, s)]]
MCSpot == SpotTable
MCArea == AreaTable

MarketCards == acme :> [curve |-> Acme, total |-> 12, supply |-> 9] @@
               index :> [curve |-> Index, total |-> Unlimited, supply |-> 0]
\* The bots hold some of the company, as migration 000009 has it.
MarketShares == [u \in Users |-> acme :> (IF u \in Bots THEN 1 ELSE 2) @@ index :> 0]
Purses == [u \in Users |-> IF u \in Bots THEN 66 ELSE 60]

MCPersona == trend :> "MOMENTUM" @@ against :> "CONTRARIAN" @@ walker :> "RANDOM_WALKER"
             @@ reader :> "NEWS_REACTIVE" @@ tracker :> "INDEX_TRACKER"
MCCardOrder == <<acme, index>>
MCCardType == acme :> "SYSTEM_COMPANY" @@ index :> "INDEX"
MCSector == acme :> "METALS" @@ index :> "NONE"
MCWeights == acme :> <<>> @@ index :> (acme :> 100)

\* The last two are about the news: enough of them that a bot misses two in a row,
\* and bots that start over among them.
Loads == { [bots |-> {trend, against}, people |-> {ann}, events |-> {},
            news |-> 0, restarts |-> 0],
           [bots |-> {walker}, people |-> {ann}, events |-> {}, news |-> 0, restarts |-> 0],
           [bots |-> {tracker}, people |-> {ann}, events |-> {}, news |-> 0, restarts |-> 1],
           [bots |-> {reader}, people |-> {}, events |-> {"WAR", "STRIKE"},
            news |-> 4, restarts |-> 0],
           [bots |-> {reader}, people |-> {}, events |-> {"WAR", "DISCOVERY", "STRIKE"},
            news |-> 2, restarts |-> 1] }
=============================================================================
