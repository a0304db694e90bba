------------------------------ MODULE Pricing ------------------------------
(***************************************************************************)
(* What a trade costs: engine.ExecutionCost and engine.SpotPrice over the  *)
(* curve of a card, and the fee and per-share figures the ledger derives   *)
(* from a cost (backend/internal/ledger/trade.go).                         *)
(*                                                                         *)
(* The curves are parameters, given as tables over the legal supplies, so  *)
(* that nothing proved here depends on the shape of the curve.  The model  *)
(* configurations fill the tables from module Curve.                       *)
(***************************************************************************)
EXTENDS Integers

CONSTANTS Curves,      \* the curve parameters in use: [base, scale] records
          MaxSupply,   \* engine.maxSupply, the bound on circulating supply
          Spot,        \* Spot[k][s]: rounded spot price on curve k at supply s
          Area         \* Area[k][s]: antiderivative of curve k at s, in grains

\* Grains per currency unit.  A definition and not a parameter, so that the
\* arithmetic below divides by literals.
Grain == 100

ASSUME PricingAssumption ==
    /\ MaxSupply \in Nat
    /\ Spot \in [Curves -> [0..MaxSupply -> Nat]]
    /\ Area \in [Curves -> [0..MaxSupply -> Int]]

Abs(x) == IF x < 0 THEN -x ELSE x

\* math.Round(a / d) for d > 0: to the nearest integer, halves away from 0.
RoundDiv(a, d) ==
    IF a >= 0 THEN (2 * a + d) \div (2 * d) ELSE -((d - 2 * a) \div (2 * d))

ValidSupply(s) == s \in 0..MaxSupply

-----------------------------------------------------------------------------
SpotPrice(k, s) == Spot[k][s]

\* Mutant of ExecutionCost: every share at the price before the trade.
SpotPriceCost(k, s, e) == (e - s) * SpotPrice(k, s)

\* Cost of moving the supply from s to e: positive when a buyer pays, negative
\* when a seller is paid.
ExecutionCost(k, s, e) == RoundDiv(Area[k][e] - Area[k][s], 100)

-----------------------------------------------------------------------------
MinFee == 1

\* Mutant of ComputeFee: no minimum.
FeeWithoutMinimum(cost) == RoundDiv(Abs(cost), 100)

\* One percent of the value traded, at least MinFee.
ComputeFee(cost) ==
    LET percent == RoundDiv(Abs(cost), 100)
    IN  IF percent < MinFee THEN MinFee ELSE percent

RoundedPricePerShare(cost, shares) == RoundDiv(Abs(cost), shares)

DeltaSharesFor(type, shares) == IF type = "SELL" THEN -shares ELSE shares

\* Quote: the unlocked preview of a trade.  It has no value when the supply
\* after the trade is out of range.
Quote(k, supply, type, shares) ==
    LET cost == ExecutionCost(k, supply, supply + DeltaSharesFor(type, shares))
    IN  [cost |-> cost, fee |-> ComputeFee(cost),
         pricePerShare |-> RoundedPricePerShare(cost, shares)]
=============================================================================
