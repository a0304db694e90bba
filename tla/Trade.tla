------------------------------- MODULE Trade -------------------------------
(***************************************************************************)
(* One trade as a function of the rows it reads: the checks and the new    *)
(* rows of executeTradeTx (backend/internal/ledger/trade.go).              *)
(*                                                                         *)
(* A card row is a record with the fields curve, total, supply, price,     *)
(* creator, retained, retainedSold, createdAt, windowAt, windowPrice,      *)
(* haltedUntil and status; a holding row has shares, avgCost and           *)
(* firstBought.  n > 0 is a number of shares, type is "BUY" or "SELL", at  *)
(* is the clock the request read before it took any lock.                  *)
(***************************************************************************)
EXTENDS Pricing, Guards

Unlimited == -1         \* a NULL total_supply
Never     == -1         \* a NULL timestamp

TradeTypes == {"BUY", "SELL"}

-----------------------------------------------------------------------------
(* The checks, in the order the code makes them.                           *)

\* With the card locked: not halted; a purchase needs an ACTIVE card.
TradeOpen(card, type, at) ==
    /\ at >= card.haltedUntil
    /\ type = "BUY" => card.status = "ACTIVE"

NewSupply(card, type, n) == card.supply + DeltaSharesFor(type, n)

WithinTotalSupply(card, type, n) ==
    type = "BUY" /\ card.total # Unlimited => card.supply + n <= card.total

\* Mutant of OwnsEnough: any position will do.
OwnsSome(held, type, n) == type = "SELL" => held.shares > 0

OwnsEnough(held, type, n) == type = "SELL" => n <= held.shares

WithinPositionCap(card, held, type, n) ==
    type = "BUY" => ~PositionCapBreached(held.shares + n, card.supply + n)

\* A sale of the card's creator is limited by the vesting of the retained
\* shares.
SellsAsCreator(card, u, type) == type = "SELL" /\ card.creator = u

WithinVesting(card, u, held, type, n, at) ==
    SellsAsCreator(card, u, type) => n <= CreatorSellLimit(card, held.shares, at)

-----------------------------------------------------------------------------
(* The amounts.                                                            *)

TradeCost(card, type, n) ==
    ExecutionCost(card.curve, card.supply, NewSupply(card, type, n))

TradeFee(card, type, n, lastTrade, at) ==
    ComputeFee(TradeCost(card, type, n)) * WashTradeMultiplier(lastTrade, type, at)

\* What the user's balance loses, fee included (negative when it gains).
TradeCharge(card, type, n, lastTrade, at) ==
    TradeCost(card, type, n) + TradeFee(card, type, n, lastTrade, at)

TradeAllowed(card, u, balance, held, lastTrade, type, n, at) ==
    /\ TradeOpen(card, type, at)
    /\ WithinTotalSupply(card, type, n)
    /\ OwnsEnough(held, type, n)
    /\ WithinPositionCap(card, held, type, n)
    /\ WithinVesting(card, u, held, type, n, at)
    /\ ValidSupply(NewSupply(card, type, n))
    /\ balance - TradeCharge(card, type, n, lastTrade, at) >= 0

-----------------------------------------------------------------------------
(* The new rows.                                                           *)

\* Mutant of RetainedSoldBy: sales of the creator are not counted.
NothingSold(card, u, type, n, at) == 0

\* Sales of the creator draw on the vested retained shares first.
RetainedSoldBy(card, u, type, n, at) ==
    IF ~SellsAsCreator(card, u, type) THEN 0
    ELSE IF n > UnlockedFromRestricted(card, at)
         THEN UnlockedFromRestricted(card, at) ELSE n

PriceAfterTrade(card, type, n) == SpotPrice(card.curve, NewSupply(card, type, n))

CardAfterTrade(card, u, type, n, at) ==
    LET newPrice == PriceAfterTrade(card, type, n)
        breaker  == NextCircuitBreakerState(card.windowAt, card.windowPrice,
                                            card.price, newPrice, at)
    IN  [card EXCEPT !.supply       = NewSupply(card, type, n),
                     !.price        = newPrice,
                     !.retainedSold = @ + RetainedSoldBy(card, u, type, n, at),
                     !.windowAt     = breaker.windowAt,
                     !.windowPrice  = breaker.windowPrice,
                     !.haltedUntil  = breaker.haltedUntil]

\* Mutant of AvgCostAfter: truncates the average.
AvgCostRoundedDown(held, type, n, charge) ==
    IF type = "SELL" THEN held.avgCost
    ELSE (held.shares * held.avgCost + charge) \div (held.shares + n)

\* The weighted average of a purchase includes its fee; a sale keeps it.
AvgCostAfter(held, type, n, charge) ==
    IF type = "SELL" THEN held.avgCost
    ELSE RoundDiv(held.shares * held.avgCost + charge, held.shares + n)

\* firstBought is set the first time the row holds a share, and kept.
FirstBoughtAfter(held, newShares, at) ==
    IF held.firstBought # Never \/ newShares = 0 THEN held.firstBought ELSE at

HoldingAfterTrade(held, type, n, charge, at) ==
    LET newShares == held.shares + DeltaSharesFor(type, n)
    IN  [shares      |-> newShares,
         avgCost     |-> AvgCostAfter(held, type, n, charge),
         firstBought |-> FirstBoughtAfter(held, newShares, at)]
=============================================================================
