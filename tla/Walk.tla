-------------------------------- MODULE Walk --------------------------------
(***************************************************************************)
(* Walks along a curve: a card starts at some supply, and trades of any    *)
(* sizes and directions move its supply up and down, each for the cost and *)
(* the fee that the engine quotes.                                         *)
(***************************************************************************)
EXTENDS Pricing

CONSTANTS MaxTrade,    \* shares in one trade of a walk
          MaxTrades    \* trades in one walk

ASSUME WalkAssumption == MaxTrade \in Nat /\ MaxTrades \in Nat

VARIABLES curve,       \* the curve of this walk
          opening,     \* the supply it starts from
          supply,      \* the supply it has reached
          paid,        \* the sum of the costs of its trades
          fees,        \* the sum of their fees
          trades       \* their number

vars == <<curve, opening, supply, paid, fees, trades>>

Init ==
    /\ curve \in Curves
    /\ opening \in 0..MaxSupply
    /\ supply = opening
    /\ paid = 0
    /\ fees = 0
    /\ trades = 0

Move(type, n) ==
    LET next == supply + DeltaSharesFor(type, n)
        q    == Quote(curve, supply, type, n)
    IN  /\ trades < MaxTrades
        /\ ValidSupply(next)
        /\ supply' = next
        /\ paid' = paid + q.cost
        /\ fees' = fees + q.fee
        /\ trades' = trades + 1
        /\ UNCHANGED <<curve, opening>>

Next == \E type \in {"BUY", "SELL"}, n \in 1..MaxTrade : Move(type, n)

Spec == Init /\ [][Next]_vars

-----------------------------------------------------------------------------
\* However an order is split, and whatever is bought and sold back on the way,
\* the costs of the legs add up to the cost of going there in one trade, up to
\* half a currency unit of rounding per trade (engine.ExecutionCost).
PathIndependent ==
    2 * Abs(paid - ExecutionCost(curve, opening, supply)) <= trades + 1

\* No walk that comes back to the supply it started from leaves its traders
\* with more currency than they began with: the minimum fee covers the rounding
\* that each leg can gain (computeFee, roundToInt64).
RoundTripsLose ==
    trades > 0 /\ supply = opening => paid + fees > 0
=============================================================================
