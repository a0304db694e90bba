------------------------------- MODULE Guards -------------------------------
(***************************************************************************)
(* The market guardrails: position cap, wash-trade fee multiplier and      *)
(* circuit breaker (backend/internal/ledger/antiexploit.go) and the        *)
(* vesting of a creator's retained shares (vesting.go).                    *)
(*                                                                         *)
(* Times are ticks of one clock, counted from 0.  The four durations are   *)
(* parameters; in the code they are 5 min, 1 min, 30 s and 7 days.         *)
(***************************************************************************)
EXTENDS Integers

CONSTANTS WashTradeWindow,
          CircuitBreakerWindow,
          CircuitBreakerCooldown,
          VestingPeriod

ASSUME GuardsAssumption ==
    /\ WashTradeWindow \in Nat \ {0}
    /\ CircuitBreakerWindow \in Nat \ {0}
    /\ CircuitBreakerCooldown \in Nat \ {0}
    /\ VestingPeriod \in Nat \ {0}

NotHalted == 0          \* a NULL circuit_breaker_halted_until: before any tick
NoTrade   == [type |-> "NONE", at |-> 0]

-----------------------------------------------------------------------------
\* Mutant of PositionCapBreached: lets one user hold every share.
CapSparesSoleHolder(newSharesOwned, newCirculatingSupply) ==
    /\ newCirculatingSupply > newSharesOwned
    /\ 4 * newSharesOwned > newCirculatingSupply

\* More than a quarter of the supply.  The supply may be 0 or less only when
\* the trade is a sale, which never asks.
PositionCapBreached(newSharesOwned, newCirculatingSupply) ==
    /\ newCirculatingSupply > 0
    /\ 4 * newSharesOwned > newCirculatingSupply

\* Five times the fee for the quick opposite leg of a round trip, judged
\* against the single most recent trade of the same user on the same card.
WashTradeMultiplier(lastTrade, type, at) ==
    IF \/ lastTrade = NoTrade
       \/ lastTrade.type = type
       \/ at - lastTrade.at >= WashTradeWindow
    THEN 1 ELSE 5

-----------------------------------------------------------------------------
\* A window never opened, or older than CircuitBreakerWindow, is replaced as a
\* whole: the window tumbles, it does not slide.
WindowStale(windowAt, windowPrice, at) ==
    \/ windowPrice <= 0
    \/ at - windowAt >= CircuitBreakerWindow

\* Moved by more than 15% of a positive baseline.
MoveTooLarge(base, price) ==
    /\ base > 0
    /\ 100 * (IF price < base THEN base - price ELSE price - base) > 15 * base

\* Mutant of NextCircuitBreakerState: a halt keeps the baseline.
HaltKeepsBaseline(windowAt, windowPrice, currentPrice, newPrice, at) ==
    LET stale     == WindowStale(windowAt, windowPrice, at)
        basePrice == IF stale THEN currentPrice ELSE windowPrice
        tripped   == MoveTooLarge(basePrice, newPrice)
    IN  [windowAt    |-> IF stale THEN at ELSE windowAt,
         windowPrice |-> basePrice,
         haltedUntil |-> IF tripped THEN at + CircuitBreakerCooldown ELSE NotHalted,
         triggered   |-> tripped]

\* The circuit breaker columns after a trade that moves the price from
\* currentPrice to newPrice.
NextCircuitBreakerState(windowAt, windowPrice, currentPrice, newPrice, at) ==
    LET stale     == WindowStale(windowAt, windowPrice, at)
        baseAt    == IF stale THEN at ELSE windowAt
        basePrice == IF stale THEN currentPrice ELSE windowPrice
    IN  IF MoveTooLarge(basePrice, newPrice)
        THEN [windowAt    |-> at,
              windowPrice |-> newPrice,
              haltedUntil |-> at + CircuitBreakerCooldown,
              triggered   |-> TRUE]
        ELSE [windowAt    |-> baseAt,
              windowPrice |-> basePrice,
              haltedUntil |-> NotHalted,
              triggered   |-> FALSE]

-----------------------------------------------------------------------------
\* Retained shares that have vested at time at: linear over VestingPeriod.
UnlockedRetainedShares(retained, createdAt, at) ==
    LET elapsed == at - createdAt
    IN  IF retained <= 0 \/ elapsed <= 0 THEN 0
        ELSE IF elapsed >= VestingPeriod THEN retained
        ELSE (retained * elapsed) \div VestingPeriod

AtLeastZero(x) == IF x < 0 THEN 0 ELSE x

\* The part of the retained shares a creator may sell now, net of what the
\* creator already sold of them.
UnlockedFromRestricted(card, at) ==
    AtLeastZero(UnlockedRetainedShares(card.retained, card.createdAt, at)
                - card.retainedSold)

\* What the creator holds beyond the retained shares still unsold.
FreelySellable(card, sharesOwned) ==
    AtLeastZero(sharesOwned - AtLeastZero(card.retained - card.retainedSold))

CreatorSellLimit(card, sharesOwned, at) ==
    FreelySellable(card, sharesOwned) + UnlockedFromRestricted(card, at)
=============================================================================
