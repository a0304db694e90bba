---------------------------- MODULE LedgerProofs ----------------------------
(***************************************************************************)
(* Proofs about modules Ledger and LedgerProps, for any users, cards,      *)
(* curves, durations and bounds that meet the assumptions of the modules   *)
(* they extend, and for any number of operations.  The second half is      *)
(* about what the log, the positions and the supplies add up to.           *)
(*                                                                         *)
(* The sums need induction over finite sets.  It comes from the order of   *)
(* proper inclusion, which is well-founded on the subsets of a finite set. *)
(***************************************************************************)
EXTENDS LedgerProps, FiniteSetTheorems, WellFoundedInduction, TLAPS

-----------------------------------------------------------------------------
(* Sizes.                                                                  *)

\* The steps of the ledger when a request may ask for any number of shares, and
\* not only for those of a model: the bots, for one, compute theirs.
AnySizeNext ==
    \/ Tick
    \/ \E at \in ClockReadings :
          \/ \E u \in Users, c \in Cards, type \in TradeTypes, n \in Nat \ {0} :
                ExecuteTrade(u, c, type, n, at)
          \/ \E u \in Humans, c \in Launchable,
                total \in LaunchTotals, percent \in LaunchPercents :
                LaunchCard(u, c, total, percent, at)
          \/ \E u \in Humans : GrantDailyReward(u, at)
          \/ \E u \in Bots : RebalanceBotBalance(u, at)

AnySizeSpec == Init /\ [][AnySizeNext]_vars

\* The requests of a model are some of them.
LEMMA StepIsAnySize == [Next]_vars => [AnySizeNext]_vars
<1>1. TradeSizes \subseteq Nat \ {0}
  BY LedgerAssumption
<1> QED
  BY <1>1 DEF Next, AnySizeNext

\* So its behaviours are behaviours of the ledger with any sizes.
LEMMA SpecIsAnySize == Spec => AnySizeSpec
  BY StepIsAnySize, PTL DEF Spec, AnySizeSpec

-----------------------------------------------------------------------------
(* Arithmetic.                                                             *)

\* Rounding yields an integer.
LEMMA RoundDivType ==
  ASSUME NEW a \in Int, NEW d \in Nat \ {0}
  PROVE  RoundDiv(a, d) \in Int
  BY DEF RoundDiv

\* Rounding hundredths moves a value by at most half a unit.
LEMMA RoundDivBounds ==
  ASSUME NEW a \in Int
  PROVE  /\ RoundDiv(a, 100) \in Int
         /\ 200 * RoundDiv(a, 100) >= 2 * a - 100
         /\ 200 * RoundDiv(a, 100) <= 2 * a + 100
  BY DEF RoundDiv

\* A fee is at least one unit (computeFee and washTradeMultiplier).
LEMMA FeeIsPositive ==
  ASSUME NEW cost \in Int, NEW last, NEW type, NEW at \in Int
  PROVE  /\ ComputeFee(cost) * WashTradeMultiplier(last, type, at) \in Int
         /\ ComputeFee(cost) * WashTradeMultiplier(last, type, at) >= 1
<1>1. Abs(cost) \in Int
  BY DEF Abs
<1>2. ComputeFee(cost) \in Int /\ ComputeFee(cost) >= 1
  BY <1>1, RoundDivBounds DEF ComputeFee, MinFee
<1>3. WashTradeMultiplier(last, type, at) \in {1, 5}
  BY DEF WashTradeMultiplier
<1> QED
  BY <1>2, <1>3

\* A quotient grows with its dividend.
LEMMA DivMonotone ==
  ASSUME NEW a \in Nat, NEW b \in Nat, NEW p \in Nat \ {0}, a <= b
  PROVE  a \div p <= b \div p
<1> DEFINE x == a \div p
           y == b \div p
<1>1. /\ x \in Int /\ y \in Int
      /\ p * x <= a /\ b < p * y + p
  OBVIOUS
<1>2. SUFFICES ASSUME x >= y + 1 PROVE FALSE
  BY <1>1
<1> HIDE DEF x, y
<1>3. p * x >= p * (y + 1)
  BY <1>1, <1>2
<1>4. p * (y + 1) = p * y + p
  BY <1>1
<1> QED
  BY <1>1, <1>3, <1>4

\* A quotient of at most p times r is at most r.
LEMMA DivBounded ==
  ASSUME NEW r \in Nat, NEW e \in Nat, NEW p \in Nat \ {0}, e <= p
  PROVE  (r * e) \div p \in 0..r
<1>1. r * e \in Nat /\ r * p \in Nat /\ r * e <= r * p
  OBVIOUS
<1>2. (r * p) \div p = r
  OBVIOUS
<1>3. (r * e) \div p <= r
  BY <1>1, <1>2, DivMonotone
<1>4. 0 \div p = 0
  OBVIOUS
<1>5. (r * e) \div p >= 0
  BY <1>1, <1>4, DivMonotone
<1> QED
  BY <1>1, <1>3, <1>5

\* The vested shares are a number between 0 and the retained shares.
LEMMA UnlockedRange ==
  ASSUME NEW r \in Nat, NEW c \in Nat, NEW t \in Nat
  PROVE  UnlockedRetainedShares(r, c, t) \in 0..r
  BY DivBounded, GuardsAssumption DEF UnlockedRetainedShares

\* Vesting never goes back as time passes.
LEMMA UnlockedMonotone ==
  ASSUME NEW r \in Nat, NEW c \in Nat, NEW s \in Nat, NEW t \in Nat, s <= t
  PROVE  UnlockedRetainedShares(r, c, s) <= UnlockedRetainedShares(r, c, t)
<1>1. CASE r <= 0 \/ s - c <= 0 \/ t - c >= VestingPeriod
  BY <1>1, UnlockedRange, GuardsAssumption DEF UnlockedRetainedShares
<1>2. CASE r > 0 /\ s - c > 0 /\ t - c < VestingPeriod
  <2>1. r * (s - c) <= r * (t - c) /\ r * (s - c) \in Nat /\ r * (t - c) \in Nat
    BY <1>2
  <2>2. (r * (s - c)) \div VestingPeriod <= (r * (t - c)) \div VestingPeriod
    BY <2>1, DivMonotone, GuardsAssumption
  <2> QED
    BY <1>2, <2>2, GuardsAssumption DEF UnlockedRetainedShares
<1> QED
  BY <1>1, <1>2, GuardsAssumption

-----------------------------------------------------------------------------
(* One trade.                                                              *)

TradeArgs(card, u, type, n, at) ==
    /\ card \in CardRow
    /\ u \in Users
    /\ type \in TradeTypes
    /\ n \in Nat \ {0}
    /\ at \in Nat

\* A spot price is a natural number, a cost an integer within half a unit of the
\* difference of the areas.
LEMMA PriceTypes ==
  ASSUME NEW k \in Curves, NEW s \in 0..MaxSupply, NEW e \in 0..MaxSupply
  PROVE  /\ SpotPrice(k, s) \in Nat
         /\ Area[k][s] \in Int /\ Area[k][e] \in Int
         /\ ExecutionCost(k, s, e) \in Int
         /\ 200 * ExecutionCost(k, s, e) >= 2 * (Area[k][e] - Area[k][s]) - 100
<1>1. /\ Spot[k][s] \in Nat /\ Area[k][s] \in Int /\ Area[k][e] \in Int
  BY PricingAssumption
<1>2. Area[k][e] - Area[k][s] \in Int
  BY <1>1
<1> QED
  BY <1>1, <1>2, RoundDivBounds DEF SpotPrice, ExecutionCost

\* The breaker columns stay naturals, and the new price is inside the band of
\* the new baseline.
LEMMA BreakerState ==
  ASSUME NEW wAt \in Nat, NEW wPrice \in Nat, NEW current \in Nat,
         NEW price \in Nat, NEW at \in Nat
  PROVE  LET b == NextCircuitBreakerState(wAt, wPrice, current, price, at)
         IN  /\ b.windowAt \in Nat /\ b.windowPrice \in Nat /\ b.haltedUntil \in Nat
             /\ ~MoveTooLarge(b.windowPrice, price)
  BY GuardsAssumption
  DEF NextCircuitBreakerState, MoveTooLarge, NotHalted, WindowStale

\* A card row with the columns a trade writes.
LEMMA CardRowUpdate ==
  ASSUME NEW card \in CardRow, NEW supply \in 0..MaxSupply, NEW price \in Nat,
         NEW sold \in Nat, NEW wAt \in Nat, NEW wPrice \in Nat, NEW halt \in Nat
  PROVE  [card EXCEPT !.supply = supply, !.price = price, !.retainedSold = sold,
                      !.windowAt = wAt, !.windowPrice = wPrice, !.haltedUntil = halt]
             \in CardRow
<1> DEFINE half == [card EXCEPT !.supply = supply, !.price = price, !.retainedSold = sold]
           row  == [half EXCEPT !.windowAt = wAt, !.windowPrice = wPrice,
                                !.haltedUntil = halt]
<1>1. half \in CardRow
  BY DEF CardRow
<1>2. row = [card EXCEPT !.supply = supply, !.price = price, !.retainedSold = sold,
                         !.windowAt = wAt, !.windowPrice = wPrice, !.haltedUntil = halt]
  OBVIOUS
<1> HIDE DEF half
<1>3. row \in CardRow
  BY <1>1 DEF CardRow
<1> HIDE DEF row
<1> QED
  BY <1>2, <1>3

\* What a trade makes of the card row.
LEMMA CardAfterTradeFacts ==
  ASSUME NEW card, NEW u, NEW type, NEW n, NEW at,
         TradeArgs(card, u, type, n, at),
         ValidSupply(NewSupply(card, type, n))
  PROVE  LET next == CardAfterTrade(card, u, type, n, at)
         IN  /\ next \in CardRow
             /\ next.curve = card.curve /\ next.creator = card.creator
             /\ next.retained = card.retained /\ next.createdAt = card.createdAt
             /\ next.supply = NewSupply(card, type, n)
             /\ next.price = SpotPrice(next.curve, next.supply)
             /\ next.retainedSold = card.retainedSold + RetainedSoldBy(card, u, type, n, at)
             /\ ~MoveTooLarge(next.windowPrice, next.price)
<1> DEFINE price == SpotPrice(card.curve, NewSupply(card, type, n))
           b     == NextCircuitBreakerState(card.windowAt, card.windowPrice,
                                            card.price, price, at)
           sold  == card.retainedSold + RetainedSoldBy(card, u, type, n, at)
<1>1. price \in Nat
  BY PriceTypes DEF TradeArgs, CardRow, ValidSupply
<1>2. /\ b.windowAt \in Nat /\ b.windowPrice \in Nat /\ b.haltedUntil \in Nat
      /\ ~MoveTooLarge(b.windowPrice, price)
  BY <1>1, BreakerState DEF TradeArgs, CardRow
<1>3. UnlockedFromRestricted(card, at) \in Nat
  <2>1. card.retained \in Nat /\ card.createdAt \in Nat /\ card.retainedSold \in Nat
        /\ at \in Nat
    BY DEF TradeArgs, CardRow
  <2>2. UnlockedRetainedShares(card.retained, card.createdAt, at) \in 0..card.retained
    BY <2>1, UnlockedRange
  <2> QED
    BY <2>1, <2>2 DEF UnlockedFromRestricted, AtLeastZero
<1>4. RetainedSoldBy(card, u, type, n, at) \in Nat
  BY <1>3 DEF RetainedSoldBy, TradeArgs
<1> HIDE DEF price, b, sold
<1>5. CardAfterTrade(card, u, type, n, at) =
        [card EXCEPT !.supply = NewSupply(card, type, n), !.price = price,
                     !.retainedSold = sold,
                     !.windowAt = b.windowAt, !.windowPrice = b.windowPrice,
                     !.haltedUntil = b.haltedUntil]
  BY DEF CardAfterTrade, PriceAfterTrade, price, b, sold
<1>6. NewSupply(card, type, n) \in 0..MaxSupply
  BY DEF ValidSupply
<1>7. sold \in Nat /\ card \in CardRow
  BY <1>4 DEF TradeArgs, CardRow, sold
<1>8. CardAfterTrade(card, u, type, n, at) \in CardRow
  <2>1. [card EXCEPT !.supply = NewSupply(card, type, n), !.price = price,
                     !.retainedSold = sold,
                     !.windowAt = b.windowAt, !.windowPrice = b.windowPrice,
                     !.haltedUntil = b.haltedUntil] \in CardRow
    BY Zenon, <1>1, <1>2, <1>6, <1>7, CardRowUpdate
  <2> QED
    BY <1>5, <2>1
<1>9. LET next == CardAfterTrade(card, u, type, n, at)
      IN  /\ next.curve = card.curve /\ next.creator = card.creator
          /\ next.retained = card.retained /\ next.createdAt = card.createdAt
          /\ next.supply = NewSupply(card, type, n) /\ next.price = price
          /\ next.retainedSold = sold
          /\ next.windowPrice = b.windowPrice
  BY <1>5, <1>7 DEF CardRow
<1> QED
  BY <1>2, <1>8, <1>9 DEF price, sold

\* What a trade charges: an integer, more than what it adds to the area by at
\* least half a unit.
LEMMA ChargeFacts ==
  ASSUME NEW card, NEW u, NEW type, NEW n, NEW at, NEW last,
         TradeArgs(card, u, type, n, at),
         ValidSupply(NewSupply(card, type, n))
  PROVE  LET k == Area[card.curve]
         IN  /\ k[card.supply] \in Int /\ k[NewSupply(card, type, n)] \in Int
             /\ TradeCost(card, type, n) \in Int
             /\ TradeCharge(card, type, n, last, at) \in Int
             /\ Grain * TradeCharge(card, type, n, last, at) >=
                    k[NewSupply(card, type, n)] - k[card.supply]
<1> DEFINE cost == TradeCost(card, type, n)
           fee  == TradeFee(card, type, n, last, at)
           old  == Area[card.curve][card.supply]
           new  == Area[card.curve][NewSupply(card, type, n)]
<1>1. /\ old \in Int /\ new \in Int /\ cost \in Int
      /\ 200 * cost >= 2 * (new - old) - 100
  BY PriceTypes DEF TradeArgs, CardRow, ValidSupply, TradeCost
<1>2. fee \in Int /\ fee >= 1
  BY <1>1, FeeIsPositive DEF TradeArgs, TradeFee
<1> HIDE DEF cost, fee, old, new
<1>3. TradeCharge(card, type, n, last, at) = cost + fee
  BY DEF TradeCharge, cost, fee
<1>4. 100 * (cost + fee) >= new - old
  BY <1>1, <1>2
<1> QED
  BY <1>1, <1>2, <1>3, <1>4 DEF cost, old, new, Grain

\* What a trade makes of the holding row.
LEMMA HoldingAfterTradeFacts ==
  ASSUME NEW held \in HoldingRow, NEW type \in TradeTypes, NEW n \in Nat \ {0},
         NEW at \in Nat, NEW charge \in Int, OwnsEnough(held, type, n)
  PROVE  LET next == HoldingAfterTrade(held, type, n, charge, at)
         IN  /\ next \in HoldingRow
             /\ next.shares = held.shares + DeltaSharesFor(type, n)
<1>1. held.shares + DeltaSharesFor(type, n) \in Nat
  BY DEF HoldingRow, OwnsEnough, TradeTypes, DeltaSharesFor
<1>2. AvgCostAfter(held, type, n, charge) \in Int
  <2>1. held.shares * held.avgCost + charge \in Int /\ held.shares + n \in Nat \ {0}
    BY DEF HoldingRow
  <2> QED
    BY <2>1, RoundDivType DEF AvgCostAfter, HoldingRow
<1>3. FirstBoughtAfter(held, held.shares + DeltaSharesFor(type, n), at) \in Int
  BY DEF FirstBoughtAfter, HoldingRow
<1> QED
  BY <1>1, <1>2, <1>3 DEF HoldingAfterTrade, HoldingRow

-----------------------------------------------------------------------------
(* The steps of the ledger, with what the proofs below need of each.       *)

\* A clock reading is a time up to now.
LEMMA ClockReadingType ==
  ASSUME TypeOK, NEW at \in ClockReadings
  PROVE  at \in Nat /\ at <= now
  BY DEF ClockReadings, TypeOK

\* A trade moves one card, one balance and one holding row.
LEMMA TradeStep ==
  ASSUME TypeOK, NEW u \in Users, NEW c \in Cards, NEW type \in TradeTypes,
         NEW n \in Nat \ {0}, NEW at \in ClockReadings,
         ExecuteTrade(u, c, type, n, at)
  PROVE  /\ c \in DOMAIN cards
         /\ TradeArgs(cards[c], u, type, n, at)
         /\ ValidSupply(NewSupply(cards[c], type, n))
         /\ OwnsEnough(holdings[u][c], type, n)
         /\ WithinPositionCap(cards[c], holdings[u][c], type, n)
         /\ WithinVesting(cards[c], u, holdings[u][c], type, n, at)
         /\ cards' = [cards EXCEPT ![c] = CardAfterTrade(cards[c], u, type, n, at)]
         /\ \E charge \in Int :
               /\ users[u].balance - charge >= 0
               /\ Grain * charge >= Area[cards[c].curve][NewSupply(cards[c], type, n)]
                                    - Area[cards[c].curve][cards[c].supply]
               /\ users' = [users EXCEPT ![u].balance = @ + (-charge)]
               /\ holdings' = [holdings EXCEPT ![u][c] =
                                  HoldingAfterTrade(holdings[u][c], type, n, charge, at)]
               /\ sunk' = [sunk EXCEPT ![c] = @ + charge]
         /\ transactions' \in Seq(TxnRow)
         /\ now' = now
<1> DEFINE last   == LastTrade(u, c)
           cost   == TradeCost(cards[c], type, n)
           charge == TradeCharge(cards[c], type, n, last, at)
           trade  == Txn(u, c, type, n, -cost, users[u].balance - cost, at)
           fee    == Txn(u, c, "FEE", 0, cost - charge, users[u].balance - charge, at)
<1>1. c \in DOMAIN cards /\ TradeArgs(cards[c], u, type, n, at)
  BY ClockReadingType, LedgerAssumption DEF ExecuteTrade, TypeOK, TradeArgs
<1>2. /\ TradeAllowed(cards[c], u, users[u].balance, holdings[u][c], last, type, n, at)
      /\ cards' = [cards EXCEPT ![c] = CardAfterTrade(cards[c], u, type, n, at)]
      /\ users' = [users EXCEPT ![u].balance = @ + (-charge)]
      /\ holdings' = [holdings EXCEPT ![u][c] =
                         HoldingAfterTrade(holdings[u][c], type, n, charge, at)]
      /\ transactions' = transactions \o <<trade, fee>>
      /\ sunk' = [sunk EXCEPT ![c] = @ + charge]
      /\ now' = now
  BY DEF ExecuteTrade, Credit
<1>3. /\ ValidSupply(NewSupply(cards[c], type, n))
      /\ OwnsEnough(holdings[u][c], type, n)
      /\ WithinPositionCap(cards[c], holdings[u][c], type, n)
      /\ WithinVesting(cards[c], u, holdings[u][c], type, n, at)
      /\ users[u].balance - charge >= 0
  BY <1>2 DEF TradeAllowed
<1>4. /\ cost \in Int /\ charge \in Int
      /\ Grain * charge >= Area[cards[c].curve][NewSupply(cards[c], type, n)]
                           - Area[cards[c].curve][cards[c].supply]
  BY <1>1, <1>3, ChargeFacts
<1> HIDE DEF last, cost, charge
<1>5. transactions' \in Seq(TxnRow)
  <2>1. users[u].balance \in Int /\ n \in Nat /\ at \in Nat
    BY <1>1 DEF TypeOK, UserRow, TradeArgs
  <2>2. trade \in TxnRow /\ fee \in TxnRow
    BY <1>4, <2>1 DEF Txn, TxnRow
  <2> QED
    BY <1>2, <2>2 DEF TypeOK
<1> QED
  BY <1>1, <1>2, <1>3, <1>4, <1>5

\* A launch inserts one card row, which its creator holds whole.
LEMMA LaunchStep ==
  ASSUME TypeOK, NEW u \in Humans, NEW c \in Launchable, NEW total \in LaunchTotals,
         NEW percent \in LaunchPercents, NEW at \in ClockReadings,
         LaunchCard(u, c, total, percent, at)
  PROVE  \E row \in CardRow, held \in HoldingRow :
            /\ c \notin DOMAIN cards
            /\ row.creator = u /\ row.createdAt = at /\ row.retainedSold = 0
            /\ row.supply = row.retained /\ row.windowPrice = 0
            /\ row.price = SpotPrice(row.curve, row.supply)
            /\ cards' = WithCard(c, row)
            /\ held.shares = row.retained
            /\ holdings' = [holdings EXCEPT ![u][c] = held]
            /\ users' = [users EXCEPT ![u].balance = @ + (-LaunchCost)]
            /\ users[u].balance - LaunchCost >= 0
            /\ transactions' \in Seq(TxnRow)
            /\ now' = now /\ sunk' = sunk
<1> DEFINE minted == RetainedShares(total, percent)
           row    == LaunchedRow(u, total, percent, at)
           held   == [shares |-> minted, avgCost |-> 0,
                      firstBought |-> FirstBoughtAfter(holdings[u][c], minted, at)]
           txn    == Txn(u, c, "CARD_LAUNCH", minted, -LaunchCost,
                         users[u].balance - LaunchCost, at)
<1>1. /\ c \notin DOMAIN cards /\ ValidSupply(minted)
      /\ cards' = WithCard(c, row)
      /\ holdings' = [holdings EXCEPT ![u][c] = held]
      /\ users' = [users EXCEPT ![u].balance = @ + (-LaunchCost)]
      /\ users[u].balance - LaunchCost >= 0
      /\ transactions' = Append(transactions, txn)
      /\ now' = now /\ sunk' = sunk
  BY DEF LaunchCard, Credit
<1>2. /\ minted \in Nat /\ minted \in 0..MaxSupply
      /\ at \in Nat /\ u \in Users /\ c \in Cards
      /\ total \in Nat /\ LaunchCurve(total) \in Curves /\ LaunchCost \in Nat
  BY <1>1, ClockReadingType, LedgerAssumption, PricingAssumption DEF ValidSupply, Users, Cards
<1>3. SpotPrice(LaunchCurve(total), minted) \in Nat
  BY <1>2, PriceTypes
<1> HIDE DEF minted
<1>4. /\ row \in CardRow
      /\ row.creator = u /\ row.createdAt = at /\ row.retainedSold = 0
      /\ row.retained = minted /\ row.supply = minted /\ row.windowPrice = 0
      /\ row.price = SpotPrice(row.curve, row.supply)
  BY <1>2, <1>3 DEF LaunchedRow, CardRow, NotHalted, minted
<1>5. held \in HoldingRow /\ held.shares = minted
  <2>1. holdings[u][c].firstBought \in Int
    BY <1>2 DEF TypeOK, HoldingRow
  <2>2. FirstBoughtAfter(holdings[u][c], minted, at) \in Int
    BY <1>2, <2>1 DEF FirstBoughtAfter
  <2> QED
    BY <1>2, <2>2 DEF HoldingRow
<1>6. transactions' \in Seq(TxnRow)
  <2>1. users[u].balance \in Int
    BY <1>2 DEF TypeOK, UserRow
  <2>2. txn \in TxnRow
    BY <1>2, <2>1 DEF Txn, TxnRow
  <2> QED
    BY <1>1, <2>2 DEF TypeOK
<1> HIDE DEF row, held
<1>7. held.shares = row.retained
  BY <1>4, <1>5
<1> QED
  BY <1>1, <1>4, <1>5, <1>6, <1>7

\* A daily reward and a rebalancing touch one user row and the log.
LEMMA GrantStep ==
  ASSUME TypeOK, NEW u \in Users, NEW at \in ClockReadings,
         GrantDailyReward(u, at) \/ RebalanceBotBalance(u, at)
  PROVE  /\ users' \in [Users -> UserRow]
         /\ transactions' \in Seq(TxnRow)
         /\ UNCHANGED <<now, cards, holdings, sunk>>
<1>1. /\ at \in Nat /\ users[u] \in UserRow
      /\ DailyRewardAmount \in Nat /\ BotStartingBalance \in Nat
  BY ClockReadingType, LedgerAssumption DEF TypeOK
<1>2. CASE GrantDailyReward(u, at)
  <2> DEFINE txn == Txn(u, NoCard, "DAILY_REWARD", 0, DailyRewardAmount,
                        users[u].balance + DailyRewardAmount, at)
             row == [balance   |-> users[u].balance + DailyRewardAmount,
                     lastLogin |-> at,
                     streak    |-> NextStreak(users[u].lastLogin, users[u].streak, at)]
  <2>1. /\ users' = [users EXCEPT ![u] = row]
        /\ transactions' = Append(transactions, txn)
        /\ UNCHANGED <<now, cards, holdings, sunk>>
    BY <1>2 DEF GrantDailyReward
  <2>2. row \in UserRow
    BY <1>1 DEF UserRow, NextStreak
  <2>3. txn \in TxnRow
    BY <1>1 DEF UserRow, Txn, TxnRow
  <2> QED
    BY <2>1, <2>2, <2>3 DEF TypeOK
<1>3. CASE RebalanceBotBalance(u, at)
  <2> DEFINE delta == BotStartingBalance - users[u].balance
             txn   == Txn(u, NoCard, "REBALANCE", 0, delta, users[u].balance + delta, at)
  <2>1. /\ users' = [users EXCEPT ![u].balance = @ + delta]
        /\ transactions' = Append(transactions, txn)
        /\ UNCHANGED <<now, cards, holdings, sunk>>
    BY <1>3 DEF RebalanceBotBalance, Credit
  <2>2. delta \in Int /\ users[u].balance + delta \in Nat
    BY <1>1 DEF UserRow
  <2>3. txn \in TxnRow
    BY <1>1, <2>2 DEF UserRow, Txn, TxnRow
  <2>4. [users[u] EXCEPT !.balance = @ + delta] \in UserRow
    BY <1>1, <2>2 DEF UserRow
  <2> HIDE DEF txn, delta
  <2> QED
    BY <2>1, <2>3, <2>4 DEF TypeOK
<1> QED
  BY <1>2, <1>3

-----------------------------------------------------------------------------
(* Type correctness.                                                       *)

\* The rows start with the types of their columns.
LEMMA InitType == Init => TypeOK
<1> SUFFICES ASSUME Init PROVE TypeOK
  OBVIOUS
<1>1. now \in Nat /\ transactions \in Seq(TxnRow) /\ sunk \in [Cards -> Int]
  BY DEF Init
<1>2. users \in [Users -> UserRow]
  BY LedgerAssumption DEF Init, UserRow, Never
<1>3. \A c \in Seeded : SeedRow(c) \in CardRow
  <2> SUFFICES ASSUME NEW c \in Seeded PROVE SeedRow(c) \in CardRow
    OBVIOUS
  <2>1. SeedCard[c] \in [curve : Curves, total : Nat \cup {Unlimited}, supply : 0..MaxSupply]
    BY LedgerAssumption
  <2>2. SpotPrice(SeedCard[c].curve, SeedCard[c].supply) \in Nat
    BY <2>1, PriceTypes
  <2> QED
    BY <2>1, <2>2, PricingAssumption DEF SeedRow, CardRow, Unlimited, NotHalted
<1>4. \A u \in Users, c \in Cards : SeedHolding(u, c) \in HoldingRow
  BY <1>3, LedgerAssumption DEF SeedHolding, NoHolding, HoldingRow, CardRow, Never
<1>5. cards \in [Seeded -> CardRow] /\ DOMAIN cards = Seeded
  BY <1>3 DEF Init
<1>6. holdings \in [Users -> [Cards -> HoldingRow]]
  BY <1>4 DEF Init
<1> QED
  BY <1>1, <1>2, <1>5, <1>6 DEF TypeOK, Cards

\* Every step keeps the types, and with them the CHECK constraints.
LEMMA NextType == TypeOK /\ [AnySizeNext]_vars => TypeOK'
<1> SUFFICES ASSUME TypeOK, [AnySizeNext]_vars PROVE TypeOK'
  OBVIOUS
<1>1. CASE UNCHANGED vars
  BY <1>1 DEF TypeOK, vars
<1>2. CASE Tick
  BY <1>2 DEF Tick, TypeOK
<1>3. ASSUME NEW at \in ClockReadings, NEW u \in Users, NEW c \in Cards,
             NEW type \in TradeTypes, NEW n \in Nat \ {0}, ExecuteTrade(u, c, type, n, at)
      PROVE  TypeOK'
  <2>1. PICK charge \in Int :
          /\ users[u].balance - charge >= 0
          /\ users' = [users EXCEPT ![u].balance = @ + (-charge)]
          /\ holdings' = [holdings EXCEPT ![u][c] =
                            HoldingAfterTrade(holdings[u][c], type, n, charge, at)]
          /\ sunk' = [sunk EXCEPT ![c] = @ + charge]
    BY <1>3, TradeStep
  <2>2. CardAfterTrade(cards[c], u, type, n, at) \in CardRow
    BY <1>3, TradeStep, CardAfterTradeFacts
  <2>3. HoldingAfterTrade(holdings[u][c], type, n, charge, at) \in HoldingRow
    <3>1. holdings[u][c] \in HoldingRow /\ OwnsEnough(holdings[u][c], type, n)
      BY <1>3, TradeStep DEF TypeOK
    <3>2. n \in Nat \ {0} /\ at \in Nat
      BY <1>3, TradeStep DEF TradeArgs
    <3> QED
      BY <3>1, <3>2, HoldingAfterTradeFacts
  <2>4. users' \in [Users -> UserRow]
    <3>1. users[u] \in UserRow
      BY DEF TypeOK
    <3>2. [users[u] EXCEPT !.balance = @ + (-charge)] \in UserRow
      BY <2>1, <3>1 DEF UserRow
    <3> QED
      BY <2>1, <3>2 DEF TypeOK
  <2>5. holdings' \in [Users -> [Cards -> HoldingRow]]
    BY <2>1, <2>3 DEF TypeOK
  <2>6. /\ c \in DOMAIN cards
        /\ cards' = [cards EXCEPT ![c] = CardAfterTrade(cards[c], u, type, n, at)]
        /\ transactions' \in Seq(TxnRow) /\ now' = now
    BY <1>3, TradeStep
  <2>7. DOMAIN cards' = DOMAIN cards /\ cards' \in [DOMAIN cards -> CardRow]
    BY <2>2, <2>6 DEF TypeOK
  <2>8. sunk' \in [Cards -> Int]
    BY <2>1 DEF TypeOK
  <2> QED
    BY <2>4, <2>5, <2>6, <2>7, <2>8 DEF TypeOK
<1>4. ASSUME NEW at \in ClockReadings, NEW u \in Humans, NEW c \in Launchable,
             NEW total \in LaunchTotals, NEW percent \in LaunchPercents,
             LaunchCard(u, c, total, percent, at)
      PROVE  TypeOK'
  <2>1. PICK row \in CardRow, held \in HoldingRow :
          /\ cards' = WithCard(c, row)
          /\ holdings' = [holdings EXCEPT ![u][c] = held]
          /\ users' = [users EXCEPT ![u].balance = @ + (-LaunchCost)]
          /\ users[u].balance - LaunchCost >= 0
          /\ transactions' \in Seq(TxnRow) /\ now' = now /\ sunk' = sunk
    BY <1>4, LaunchStep
  <2>3. c \in Cards /\ u \in Users
    BY DEF Cards, Users
  <2>4. DOMAIN cards' \subseteq Cards /\ Seeded \subseteq DOMAIN cards'
    BY <2>1, <2>3 DEF TypeOK, WithCard
  <2>5. cards' \in [DOMAIN cards' -> CardRow]
    BY <2>1, <2>3 DEF TypeOK, WithCard
  <2>6. users' \in [Users -> UserRow]
    <3>1. users[u] \in UserRow /\ LaunchCost \in Nat
      BY <2>3, LedgerAssumption DEF TypeOK
    <3>2. [users[u] EXCEPT !.balance = @ + (-LaunchCost)] \in UserRow
      BY <2>1, <3>1 DEF UserRow
    <3> QED
      BY <2>1, <3>2 DEF TypeOK
  <2>7. holdings' \in [Users -> [Cards -> HoldingRow]]
    BY <2>1, <2>3 DEF TypeOK
  <2> QED
    BY <2>1, <2>4, <2>5, <2>6, <2>7 DEF TypeOK
<1>5. ASSUME NEW at \in ClockReadings, NEW u \in Users,
             GrantDailyReward(u, at) \/ RebalanceBotBalance(u, at)
      PROVE  TypeOK'
  BY <1>5, GrantStep DEF TypeOK
<1> QED
  BY <1>1, <1>2, <1>3, <1>4, <1>5 DEF AnySizeNext, Users

\* Every row keeps the types of its columns: no balance, no position and no
\* supply is ever below zero, for any number of users, cards and operations.
LEMMA TypeAnySize == AnySizeSpec => []TypeOK
  BY InitType, NextType, PTL DEF AnySizeSpec

\* In particular when the sizes are those of the model.
THEOREM TypeCorrect == Spec => []TypeOK
  BY SpecIsAnySize, TypeAnySize, PTL

-----------------------------------------------------------------------------
(* Prices.                                                                 *)

PricesOK == PriceIsSpot /\ PriceWithinBand

\* A step changes the rows of cards one at a time: by a trade, or by inserting
\* a row.  All other rows stay as they were.
LEMMA CardSteps ==
  ASSUME TypeOK, [AnySizeNext]_vars, NEW d \in DOMAIN cards'
  PROVE  \/ d \in DOMAIN cards /\ cards'[d] = cards[d]
         \/ /\ d \in DOMAIN cards
            /\ \E u \in Users, type \in TradeTypes, n \in Nat \ {0}, at \in Nat :
                  /\ TradeArgs(cards[d], u, type, n, at)
                  /\ ValidSupply(NewSupply(cards[d], type, n))
                  /\ WithinPositionCap(cards[d], holdings[u][d], type, n)
                  /\ cards'[d] = CardAfterTrade(cards[d], u, type, n, at)
         \/ /\ d \notin DOMAIN cards
            /\ cards'[d].windowPrice = 0
            /\ cards'[d].price = SpotPrice(cards'[d].curve, cards'[d].supply)
<1>1. CASE UNCHANGED cards
  BY <1>1
<1>2. ASSUME NEW at \in ClockReadings, NEW u \in Users, NEW c \in Cards,
             NEW type \in TradeTypes, NEW n \in Nat \ {0}, ExecuteTrade(u, c, type, n, at)
      PROVE  \/ d \in DOMAIN cards /\ cards'[d] = cards[d]
             \/ /\ d = c /\ d \in DOMAIN cards
                /\ TradeArgs(cards[d], u, type, n, at)
                /\ ValidSupply(NewSupply(cards[d], type, n))
                /\ WithinPositionCap(cards[d], holdings[u][d], type, n)
                /\ cards'[d] = CardAfterTrade(cards[d], u, type, n, at)
  BY <1>2, TradeStep DEF TypeOK
<1>3. ASSUME NEW at \in ClockReadings, NEW u \in Humans, NEW c \in Launchable,
             NEW total \in LaunchTotals, NEW percent \in LaunchPercents,
             LaunchCard(u, c, total, percent, at)
      PROVE  \/ d \in DOMAIN cards /\ cards'[d] = cards[d]
             \/ /\ d \notin DOMAIN cards
                /\ cards'[d].windowPrice = 0
                /\ cards'[d].price = SpotPrice(cards'[d].curve, cards'[d].supply)
  <2>1. PICK row \in CardRow :
          /\ c \notin DOMAIN cards /\ row.windowPrice = 0
          /\ row.price = SpotPrice(row.curve, row.supply)
          /\ cards' = WithCard(c, row)
    BY <1>3, LaunchStep
  <2> QED
    BY <2>1 DEF WithCard
<1>4. CASE UNCHANGED vars \/ Tick
  BY <1>1, <1>4 DEF vars, Tick
<1>5. ASSUME NEW at \in ClockReadings, NEW u \in Users,
             GrantDailyReward(u, at) \/ RebalanceBotBalance(u, at)
      PROVE  UNCHANGED cards
  BY <1>5, GrantStep
<1>6. ASSUME NEW at \in ClockReadings, NEW u \in Users, NEW c \in Cards,
             NEW type \in TradeTypes, NEW n \in Nat \ {0}, ExecuteTrade(u, c, type, n, at)
      PROVE  n \in Nat \ {0} /\ at \in Nat
  BY <1>6, TradeStep DEF TradeArgs
<1> QED
  BY <1>1, <1>2, <1>3, <1>4, <1>5, <1>6 DEF AnySizeNext, Users

\* The stored price is always the spot price of the stored supply, and within
\* the band of the circuit breaker's baseline.
LEMMA PricesAnySize == AnySizeSpec => [](PriceIsSpot /\ PriceWithinBand)
<1>1. Init => PricesOK
  <2> SUFFICES ASSUME Init, NEW c \in Seeded
               PROVE  /\ cards[c].price = SpotPrice(cards[c].curve, cards[c].supply)
                      /\ ~MoveTooLarge(cards[c].windowPrice, cards[c].price)
    BY DEF Init, PricesOK, PriceIsSpot, PriceWithinBand
  <2>1. cards[c] = SeedRow(c) /\ cards[c].price \in Nat
    BY InitType DEF Init, TypeOK, CardRow
  <2>2. cards[c].windowPrice = cards[c].price
        /\ cards[c].price = SpotPrice(cards[c].curve, cards[c].supply)
    BY <2>1 DEF SeedRow
  <2> QED
    BY <2>1, <2>2 DEF MoveTooLarge
<1>2. TypeOK /\ PricesOK /\ [AnySizeNext]_vars => PricesOK'
  <2> SUFFICES ASSUME TypeOK, PricesOK, [AnySizeNext]_vars, NEW d \in DOMAIN cards'
               PROVE  /\ cards'[d].price = SpotPrice(cards'[d].curve, cards'[d].supply)
                      /\ ~MoveTooLarge(cards'[d].windowPrice, cards'[d].price)
    BY DEF PricesOK, PriceIsSpot, PriceWithinBand
  <2>1. CASE d \in DOMAIN cards /\ cards'[d] = cards[d]
    BY <2>1 DEF PricesOK, PriceIsSpot, PriceWithinBand
  <2>2. CASE d \notin DOMAIN cards /\ cards'[d].windowPrice = 0
             /\ cards'[d].price = SpotPrice(cards'[d].curve, cards'[d].supply)
    BY <2>2 DEF MoveTooLarge
  <2>3. ASSUME NEW u \in Users, NEW type \in TradeTypes, NEW n \in Nat \ {0}, NEW at \in Nat,
               TradeArgs(cards[d], u, type, n, at),
               ValidSupply(NewSupply(cards[d], type, n)),
               cards'[d] = CardAfterTrade(cards[d], u, type, n, at)
        PROVE  /\ cards'[d].price = SpotPrice(cards'[d].curve, cards'[d].supply)
               /\ ~MoveTooLarge(cards'[d].windowPrice, cards'[d].price)
    BY <2>3, CardAfterTradeFacts
  <2> QED
    BY <2>1, <2>2, <2>3, CardSteps
<1> QED
  BY <1>1, <1>2, TypeAnySize, PTL DEF AnySizeSpec, PricesOK

\* In particular when the sizes are those of the model.
THEOREM PricesCorrect == Spec => [](PriceIsSpot /\ PriceWithinBand)
  BY SpecIsAnySize, PricesAnySize, PTL

\* A card without a circulating share is never traded again: no purchase can
\* stay within the position cap, and nobody has a share to sell.
LEMMA EmptyAnySize == AnySizeSpec => EmptyCardStaysEmpty
<1>1. TypeOK /\ [AnySizeNext]_vars
        => [\A c \in DOMAIN cards : cards[c].supply = 0 => cards'[c] = cards[c]]_vars
  <2> SUFFICES ASSUME TypeOK, [AnySizeNext]_vars, NEW c \in DOMAIN cards, cards[c].supply = 0
               PROVE  cards'[c] = cards[c]
    OBVIOUS
  <2>1. c \in DOMAIN cards'
    <3>1. ASSUME NEW at \in ClockReadings, NEW u \in Humans, NEW d \in Launchable,
                 NEW total \in LaunchTotals, NEW percent \in LaunchPercents,
                 LaunchCard(u, d, total, percent, at)
          PROVE  c \in DOMAIN cards'
      <4>1. PICK row \in CardRow :
              cards' = WithCard(d, row)
        BY <3>1, LaunchStep
      <4> QED
        BY <4>1 DEF WithCard
    <3>2. ASSUME NEW at \in ClockReadings, NEW u \in Users, NEW d \in Cards,
                 NEW type \in TradeTypes, NEW n \in Nat \ {0}, ExecuteTrade(u, d, type, n, at)
          PROVE  c \in DOMAIN cards'
      BY <3>2, TradeStep DEF TypeOK
    <3>3. ASSUME NEW at \in ClockReadings, NEW u \in Users,
                 GrantDailyReward(u, at) \/ RebalanceBotBalance(u, at)
          PROVE  c \in DOMAIN cards'
      BY <3>3, GrantStep
    <3> QED
      BY <3>1, <3>2, <3>3 DEF AnySizeNext, Users, Tick, vars
  <2>2. ASSUME NEW u \in Users, NEW type \in TradeTypes, NEW n \in Nat \ {0},
               ValidSupply(NewSupply(cards[c], type, n)),
               WithinPositionCap(cards[c], holdings[u][c], type, n)
        PROVE  FALSE
    <3>1. holdings[u][c].shares \in Nat
      BY DEF TypeOK, HoldingRow
    <3>2. CASE type = "SELL"
      BY <2>2, <3>2, PricingAssumption DEF ValidSupply, NewSupply, DeltaSharesFor
    <3>3. CASE type = "BUY"
      BY <2>2, <3>1, <3>3 DEF WithinPositionCap, PositionCapBreached
    <3> QED
      BY <3>2, <3>3 DEF TradeTypes
  <2> QED
    BY <2>1, <2>2, CardSteps
<1> QED
  BY <1>1, TypeAnySize, PTL DEF AnySizeSpec, EmptyCardStaysEmpty

\* In particular when the sizes are those of the model.
THEOREM EmptyCardIsDead == Spec => EmptyCardStaysEmpty
  BY SpecIsAnySize, EmptyAnySize, PTL

-----------------------------------------------------------------------------
(* Vesting.                                                                *)

\* A creator with the given shares has sold no more of the retained shares than
\* have vested by time t, and still holds those not sold.  CreatorHoldsUnvested
\* does not say how much was sold, so it is not inductive; this is.
VestingOK(card, shares, t) ==
    /\ card.createdAt <= t
    /\ card.retainedSold <= UnlockedRetainedShares(card.retained, card.createdAt, t)
    /\ shares >= card.retained - card.retainedSold

VestingInv ==
    \A c \in DOMAIN cards :
        cards[c].creator # NoCreator =>
            VestingOK(cards[c], holdings[cards[c].creator][c].shares, now)

\* A sale within the creator's limit, judged by an earlier clock, keeps
\* VestingOK: what it takes from the retained shares has vested by then.
LEMMA CreatorSale ==
  ASSUME NEW card \in CardRow, NEW shares \in Nat, NEW t \in Nat, NEW at \in Nat, at <= t,
         NEW n \in Nat, NEW sold \in Int,
         VestingOK(card, shares, t),
         n <= CreatorSellLimit(card, shares, at),
         sold = IF n > UnlockedFromRestricted(card, at)
                THEN UnlockedFromRestricted(card, at) ELSE n
  PROVE  /\ card.retainedSold + sold <= UnlockedRetainedShares(card.retained, card.createdAt, t)
         /\ shares - n >= card.retained - (card.retainedSold + sold)
<1> DEFINE r  == card.retained
           s  == card.retainedSold
           ua == UnlockedRetainedShares(r, card.createdAt, at)
           ut == UnlockedRetainedShares(r, card.createdAt, t)
<1>1. r \in Nat /\ s \in Nat /\ card.createdAt \in Nat
  BY DEF CardRow
<1>2. ua \in 0..r /\ ut \in 0..r /\ ua <= ut
  BY <1>1, UnlockedRange, UnlockedMonotone
<1>3. s <= ut /\ shares >= r - s
  BY DEF VestingOK
<1> HIDE DEF r, s, ua, ut
<1>4. UnlockedFromRestricted(card, at) = AtLeastZero(ua - s)
  BY DEF UnlockedFromRestricted, ua, r, s
<1>5. FreelySellable(card, shares) = shares - (r - s)
  BY <1>1, <1>2, <1>3 DEF FreelySellable, AtLeastZero, r, s
<1>6. n <= shares - (r - s) + AtLeastZero(ua - s)
  BY <1>4, <1>5 DEF CreatorSellLimit
<1>7. s + sold <= ut /\ shares - n >= r - (s + sold)
  BY <1>1, <1>2, <1>3, <1>4, <1>6 DEF AtLeastZero
<1> QED
  BY <1>7 DEF r, s, ut

\* A trade keeps VestingOK of the card it moves, whoever makes it.
LEMMA TradeKeepsVesting ==
  ASSUME TypeOK, VestingInv, NEW u \in Users, NEW c \in Cards, NEW type \in TradeTypes,
         NEW n \in Nat \ {0}, NEW at \in ClockReadings, ExecuteTrade(u, c, type, n, at),
         cards[c].creator # NoCreator
  PROVE  VestingOK(cards'[c], holdings'[cards[c].creator][c].shares, now)
<1> DEFINE card == cards[c]
           next == CardAfterTrade(card, u, type, n, at)
           held == holdings[card.creator][c]
           sold == RetainedSoldBy(card, u, type, n, at)
<1>1. /\ TradeArgs(card, u, type, n, at)
      /\ ValidSupply(NewSupply(card, type, n))
      /\ OwnsEnough(holdings[u][c], type, n)
      /\ WithinVesting(card, u, holdings[u][c], type, n, at)
      /\ c \in DOMAIN cards
      /\ cards' = [cards EXCEPT ![c] = next]
  BY TradeStep
<1>2. PICK charge \in Int :
        holdings' = [holdings EXCEPT ![u][c] =
                       HoldingAfterTrade(holdings[u][c], type, n, charge, at)]
  BY TradeStep
<1>3. /\ next.createdAt = card.createdAt /\ next.retained = card.retained
      /\ next.retainedSold = card.retainedSold + sold
  BY <1>1, CardAfterTradeFacts
<1>4. cards'[c] = next
  BY <1>1 DEF TypeOK
<1>5. /\ card \in CardRow /\ n \in Nat \ {0} /\ at \in Nat /\ at <= now /\ now \in Nat
      /\ card.creator \in Users /\ card.retainedSold \in Nat
  BY <1>1, ClockReadingType DEF TradeArgs, TypeOK, CardRow
<1>6. held \in HoldingRow /\ held.shares \in Nat
  BY <1>5 DEF TypeOK, HoldingRow
<1>7. VestingOK(card, held.shares, now)
  BY <1>1 DEF VestingInv
<1>8. HoldingAfterTrade(holdings[u][c], type, n, charge, at).shares
        = holdings[u][c].shares + DeltaSharesFor(type, n)
  BY DEF HoldingAfterTrade
<1> HIDE DEF next, sold, held, card
<1>9. CASE card.creator = u /\ type = "SELL"
  <2>1. SellsAsCreator(card, u, type)
    BY <1>9 DEF SellsAsCreator
  <2>2. /\ n <= CreatorSellLimit(card, held.shares, at)
        /\ sold = IF n > UnlockedFromRestricted(card, at)
                  THEN UnlockedFromRestricted(card, at) ELSE n
    BY <1>1, <1>9, <2>1 DEF WithinVesting, RetainedSoldBy, sold, held, card
  <2>3. sold \in Int
    <3>1. UnlockedRetainedShares(card.retained, card.createdAt, at) \in 0..card.retained
      BY <1>5, UnlockedRange DEF CardRow
    <3>2. UnlockedFromRestricted(card, at) \in Int
      BY <1>5, <3>1 DEF UnlockedFromRestricted, AtLeastZero, CardRow
    <3> QED
      BY <1>5, <2>2, <3>2
  <2>4. /\ card.retainedSold + sold
              <= UnlockedRetainedShares(card.retained, card.createdAt, now)
        /\ held.shares - n >= card.retained - (card.retainedSold + sold)
    BY <1>5, <1>6, <1>7, <2>2, <2>3, CreatorSale
  <2>5. holdings'[card.creator][c].shares = held.shares - n
    BY <1>2, <1>5, <1>6, <1>8, <1>9 DEF TypeOK, DeltaSharesFor, held
  <2> QED
    BY <1>3, <1>4, <1>7, <2>4, <2>5 DEF VestingOK, card
<1>10. CASE ~(card.creator = u /\ type = "SELL")
  <2>1. sold = 0
    BY <1>10 DEF sold, RetainedSoldBy, SellsAsCreator
  <2>2. holdings'[card.creator][c].shares >= held.shares
        /\ holdings'[card.creator][c].shares \in Int
    BY <1>2, <1>5, <1>6, <1>8, <1>10 DEF TypeOK, DeltaSharesFor, TradeTypes, held
  <2>3. card.retained \in Nat
    BY <1>5 DEF CardRow
  <2> QED
    BY <1>3, <1>4, <1>5, <1>6, <1>7, <2>1, <2>2, <2>3 DEF VestingOK, card
<1> QED
  BY <1>9, <1>10

\* The vested part only grows while the clock runs.
LEMMA VestingAges ==
  ASSUME NEW card \in CardRow, NEW shares, NEW s \in Nat, NEW t \in Nat, s <= t,
         VestingOK(card, shares, s)
  PROVE  VestingOK(card, shares, t)
<1>1. card.createdAt \in Nat /\ card.retained \in Nat /\ card.retainedSold \in Nat
  BY DEF CardRow
<1>2. /\ UnlockedRetainedShares(card.retained, card.createdAt, s) \in 0..card.retained
      /\ UnlockedRetainedShares(card.retained, card.createdAt, t) \in 0..card.retained
  BY <1>1, UnlockedRange
<1>3. UnlockedRetainedShares(card.retained, card.createdAt, s)
        <= UnlockedRetainedShares(card.retained, card.createdAt, t)
  BY <1>1, UnlockedMonotone
<1> QED
  BY <1>1, <1>2, <1>3 DEF VestingOK

\* A creator always holds the retained shares that have not vested, for any
\* number of trades by anyone, judged by clocks of any age.
LEMMA VestingAnySize == AnySizeSpec => []CreatorHoldsUnvested
<1>1. Init => VestingInv
  BY DEF Init, VestingInv, SeedRow
<1>2. TypeOK /\ VestingInv /\ [AnySizeNext]_vars => VestingInv'
  <2> SUFFICES ASSUME TypeOK, VestingInv, [AnySizeNext]_vars, NEW d \in DOMAIN cards',
                      cards'[d].creator # NoCreator
               PROVE  VestingOK(cards'[d], holdings'[cards'[d].creator][d].shares, now')
    BY DEF VestingInv
  <2>1. ASSUME d \in DOMAIN cards, cards'[d] = cards[d],
               \A u \in Users : holdings'[u][d] = holdings[u][d],
               now <= now', now' \in Nat
        PROVE  VestingOK(cards'[d], holdings'[cards'[d].creator][d].shares, now')
    <3>1. cards[d] \in CardRow /\ cards[d].creator \in Users /\ now \in Nat
      BY <2>1 DEF TypeOK, CardRow
    <3>2. VestingOK(cards[d], holdings[cards[d].creator][d].shares, now)
      BY <2>1 DEF VestingInv
    <3> QED
      BY <2>1, <3>1, <3>2, VestingAges
  <2>2. now \in Nat
    BY DEF TypeOK
  <2>3. CASE UNCHANGED vars
    BY <2>1, <2>2, <2>3 DEF vars
  <2>4. CASE Tick
    BY <2>1, <2>2, <2>4 DEF Tick
  <2>5. ASSUME NEW at \in ClockReadings, NEW u \in Users, NEW c \in Cards,
               NEW type \in TradeTypes, NEW n \in Nat \ {0}, ExecuteTrade(u, c, type, n, at)
        PROVE  VestingOK(cards'[d], holdings'[cards'[d].creator][d].shares, now')
    <3>1. /\ c \in DOMAIN cards /\ now' = now
          /\ TradeArgs(cards[c], u, type, n, at)
          /\ ValidSupply(NewSupply(cards[c], type, n))
          /\ cards' = [cards EXCEPT ![c] = CardAfterTrade(cards[c], u, type, n, at)]
      BY <2>5, TradeStep
    <3>2. PICK charge \in Int :
            holdings' = [holdings EXCEPT ![u][c] =
                           HoldingAfterTrade(holdings[u][c], type, n, charge, at)]
      BY <2>5, TradeStep
    <3>3. CASE d = c
      <4>1. cards'[c].creator = cards[c].creator
        BY <3>1, CardAfterTradeFacts DEF TypeOK
      <4> QED
        BY <2>5, <3>1, <3>3, <4>1, TradeKeepsVesting
    <3>4. CASE d # c
      <4>1. d \in DOMAIN cards /\ cards'[d] = cards[d]
        BY <3>1, <3>4 DEF TypeOK
      <4>2. \A v \in Users : holdings'[v][d] = holdings[v][d]
        BY <3>2, <3>4, <4>1 DEF TypeOK
      <4> QED
        BY <2>1, <2>2, <3>1, <4>1, <4>2
    <3> QED
      BY <3>3, <3>4
  <2>6. ASSUME NEW at \in ClockReadings, NEW u \in Humans, NEW c \in Launchable,
               NEW total \in LaunchTotals, NEW percent \in LaunchPercents,
               LaunchCard(u, c, total, percent, at)
        PROVE  VestingOK(cards'[d], holdings'[cards'[d].creator][d].shares, now')
    <3>1. PICK row \in CardRow, held \in HoldingRow :
            /\ c \notin DOMAIN cards
            /\ row.creator = u /\ row.createdAt = at /\ row.retainedSold = 0
            /\ cards' = WithCard(c, row)
            /\ held.shares = row.retained
            /\ holdings' = [holdings EXCEPT ![u][c] = held]
            /\ now' = now
      BY <2>6, LaunchStep
    <3>2. u \in Users /\ c \in Cards
      BY DEF Users, Cards
    <3>3. CASE d = c
      <4>1. cards'[d] = row /\ holdings'[u][c] = held
        BY <3>1, <3>2, <3>3 DEF WithCard, TypeOK
      <4>2. at \in Nat /\ at <= now /\ row.retained \in Nat
        BY ClockReadingType DEF CardRow
      <4>3. UnlockedRetainedShares(row.retained, at, now) \in 0..row.retained
        BY <2>2, <4>2, UnlockedRange
      <4> QED
        BY <3>1, <3>3, <4>1, <4>2, <4>3 DEF VestingOK
    <3>4. CASE d # c
      <4>1. d \in DOMAIN cards /\ cards'[d] = cards[d]
        BY <3>1, <3>4 DEF WithCard
      <4>2. \A v \in Users : holdings'[v][d] = holdings[v][d]
        BY <3>1, <3>2, <3>4, <4>1 DEF TypeOK
      <4> QED
        BY <2>1, <2>2, <3>1, <4>1, <4>2
    <3> QED
      BY <3>3, <3>4
  <2>7. ASSUME NEW at \in ClockReadings, NEW u \in Users,
               GrantDailyReward(u, at) \/ RebalanceBotBalance(u, at)
        PROVE  VestingOK(cards'[d], holdings'[cards'[d].creator][d].shares, now')
    BY <2>1, <2>2, <2>7, GrantStep
  <2> QED
    BY <2>3, <2>4, <2>5, <2>6, <2>7 DEF AnySizeNext, Users
<1>3. TypeOK /\ VestingInv => CreatorHoldsUnvested
  <2> SUFFICES ASSUME TypeOK, VestingInv, NEW c \in DOMAIN cards,
                      cards[c].creator # NoCreator
               PROVE  holdings[cards[c].creator][c].shares >=
                        cards[c].retained - UnlockedRetainedShares(
                           cards[c].retained, cards[c].createdAt, now)
    BY DEF CreatorHoldsUnvested
  <2>1. cards[c] \in CardRow /\ now \in Nat /\ cards[c].creator \in Users /\ c \in Cards
    BY DEF TypeOK, CardRow
  <2>2. /\ cards[c].retained \in Nat /\ cards[c].retainedSold \in Nat
        /\ holdings[cards[c].creator][c].shares \in Nat
    <3>1. holdings[cards[c].creator][c] \in HoldingRow
      BY <2>1 DEF TypeOK
    <3> QED
      BY <2>1, <3>1 DEF CardRow, HoldingRow
  <2>3. UnlockedRetainedShares(cards[c].retained, cards[c].createdAt, now)
              \in 0..cards[c].retained
    BY <2>1, <2>2, UnlockedRange DEF CardRow
  <2>4. VestingOK(cards[c], holdings[cards[c].creator][c].shares, now)
    BY DEF VestingInv
  <2> QED
    BY <2>2, <2>3, <2>4 DEF VestingOK
<1> QED
  BY <1>1, <1>2, <1>3, TypeAnySize, PTL DEF AnySizeSpec

\* In particular when the sizes are those of the model.
THEOREM VestingCorrect == Spec => []CreatorHoldsUnvested
  BY SpecIsAnySize, VestingAnySize, PTL

-----------------------------------------------------------------------------
(* No free lunch.                                                          *)

\* NoFreeLunch, and that nothing was sunk into a card before it exists.
LunchInv ==
    /\ NoFreeLunch
    /\ \A c \in Cards \ DOMAIN cards : sunk[c] = 0

\* The curve and the opening supply of a card never change.
LEMMA OpeningIsFixed ==
  ASSUME TypeOK, NEW u \in Users, NEW c \in Cards, NEW type \in TradeTypes,
         NEW n \in Nat \ {0}, NEW at \in ClockReadings, ExecuteTrade(u, c, type, n, at),
         NEW d \in DOMAIN cards'
  PROVE  d \in DOMAIN cards /\ cards'[d].curve = cards[d].curve
         /\ OpeningSupply(d)' = OpeningSupply(d)
<1>1. /\ c \in DOMAIN cards
      /\ TradeArgs(cards[c], u, type, n, at)
      /\ ValidSupply(NewSupply(cards[c], type, n))
      /\ cards' = [cards EXCEPT ![c] = CardAfterTrade(cards[c], u, type, n, at)]
  BY TradeStep
<1>2. d \in DOMAIN cards
  BY <1>1
<1>3. cards'[d].curve = cards[d].curve /\ cards'[d].retained = cards[d].retained
  BY <1>1, <1>2, CardAfterTradeFacts
<1> QED
  BY <1>2, <1>3 DEF OpeningSupply

\* The area at the supply a card started with is an integer.
LEMMA OpeningType ==
  ASSUME TypeOK, NEW c \in DOMAIN cards
  PROVE  Area[cards[c].curve][OpeningSupply(c)] \in Int
<1>1. cards[c].curve \in Curves /\ cards[c].retained \in 0..MaxSupply
  BY DEF TypeOK, CardRow
<1>2. c \in Seeded => SeedCard[c].supply \in 0..MaxSupply
  BY LedgerAssumption
<1> QED
  BY <1>1, <1>2, PriceTypes DEF OpeningSupply

\* The area below the curve of a card is an integer at its supplies.
LEMMA AreaTypes ==
  ASSUME TypeOK, NEW c \in DOMAIN cards
  PROVE  /\ Area[cards[c].curve][cards[c].supply] \in Int
         /\ Area[cards[c].curve][cards[c].supply]
              - Area[cards[c].curve][cards[c].supply] = 0
<1>1. cards[c].curve \in Curves /\ cards[c].supply \in 0..MaxSupply
  BY DEF TypeOK, CardRow
<1> QED
  BY <1>1, PriceTypes

\* One trade charges at least what it adds to the area of the card.
LEMMA TradeKeepsLunch ==
  ASSUME TypeOK, LunchInv, NEW u \in Users, NEW c \in Cards, NEW type \in TradeTypes,
         NEW n \in Nat \ {0}, NEW at \in ClockReadings, ExecuteTrade(u, c, type, n, at)
  PROVE  LunchInv'
<1>1. /\ c \in DOMAIN cards
      /\ TradeArgs(cards[c], u, type, n, at)
      /\ ValidSupply(NewSupply(cards[c], type, n))
      /\ cards' = [cards EXCEPT ![c] = CardAfterTrade(cards[c], u, type, n, at)]
  BY TradeStep
<1>2. PICK charge \in Int :
        /\ Grain * charge >= Area[cards[c].curve][NewSupply(cards[c], type, n)]
                             - Area[cards[c].curve][cards[c].supply]
        /\ sunk' = [sunk EXCEPT ![c] = @ + charge]
  BY TradeStep
<1>3. DOMAIN cards' = DOMAIN cards /\ sunk \in [Cards -> Int]
  BY <1>1 DEF TypeOK
<1>4. ASSUME NEW d \in DOMAIN cards
      PROVE  Grain * sunk'[d] >= Area[cards'[d].curve][cards'[d].supply]
                                 - Area[cards'[d].curve][OpeningSupply(d)']
  <2>1. Grain * sunk[d] >= Area[cards[d].curve][cards[d].supply]
                           - Area[cards[d].curve][OpeningSupply(d)]
    BY DEF LunchInv, NoFreeLunch
  <2>2. cards'[d].curve = cards[d].curve /\ OpeningSupply(d)' = OpeningSupply(d)
    BY <1>3, OpeningIsFixed
  <2>3. CASE d # c
    <3>1. cards'[d] = cards[d] /\ sunk'[d] = sunk[d]
      BY <1>1, <1>2, <1>3, <2>3 DEF TypeOK
    <3> QED
      BY <2>1, <2>2, <3>1
  <2>4. CASE d = c
    <3> DEFINE old  == Area[cards[c].curve][cards[c].supply]
               new  == Area[cards[c].curve][NewSupply(cards[c], type, n)]
               open == Area[cards[c].curve][OpeningSupply(c)]
    <3>1. cards'[c].supply = NewSupply(cards[c], type, n)
      BY <1>1, CardAfterTradeFacts DEF TypeOK
    <3>2. sunk'[c] = sunk[c] + charge /\ sunk[c] \in Int
      BY <1>1, <1>2, <1>3 DEF TypeOK
    <3>3. old \in Int /\ new \in Int
      BY <1>1, PriceTypes DEF TradeArgs, CardRow, ValidSupply
    <3>4. open \in Int
      BY <1>1, OpeningType DEF TypeOK
    <3> HIDE DEF old, new, open
    <3>5. 100 * (sunk[c] + charge) >= new - open
      <4>1. 100 * sunk[c] >= old - open
        BY <2>1, <2>4 DEF Grain, old, open
      <4>2. 100 * charge >= new - old
        BY <1>2 DEF Grain, new, old
      <4> QED
        BY <3>2, <3>3, <3>4, <4>1, <4>2
    <3> QED
      BY <2>2, <2>4, <3>1, <3>2, <3>5 DEF Grain, new, open
  <2> QED
    BY <2>3, <2>4
<1>5. \A d \in Cards \ DOMAIN cards : sunk'[d] = 0
  BY <1>1, <1>2, <1>3 DEF LunchInv
<1> QED
  BY <1>3, <1>4, <1>5 DEF LunchInv, NoFreeLunch

\* A launched card starts at its opening supply, with nothing sunk into it.
LEMMA LaunchKeepsLunch ==
  ASSUME TypeOK, LunchInv, NEW u \in Humans, NEW c \in Launchable, NEW total \in LaunchTotals,
         NEW percent \in LaunchPercents, NEW at \in ClockReadings,
         LaunchCard(u, c, total, percent, at)
  PROVE  LunchInv'
<1>1. PICK row \in CardRow :
        /\ c \notin DOMAIN cards
        /\ row.supply = row.retained
        /\ cards' = WithCard(c, row)
        /\ sunk' = sunk
  BY LaunchStep
<1>2. c \in Cards /\ c \notin Seeded
  BY LedgerAssumption DEF Cards
<1>3. DOMAIN cards' = DOMAIN cards \cup {c}
  BY <1>1 DEF WithCard
<1>4. ASSUME NEW d \in DOMAIN cards
      PROVE  Grain * sunk'[d] >= Area[cards'[d].curve][cards'[d].supply]
                                 - Area[cards'[d].curve][OpeningSupply(d)']
  <2>1. cards'[d] = cards[d]
    BY <1>1 DEF WithCard
  <2> QED
    BY <1>1, <2>1 DEF LunchInv, NoFreeLunch, OpeningSupply
<1>5. Grain * sunk'[c] >= Area[cards'[c].curve][cards'[c].supply]
                          - Area[cards'[c].curve][OpeningSupply(c)']
  <2>1. cards'[c] = row /\ OpeningSupply(c)' = row.retained
    BY <1>1, <1>2 DEF WithCard, OpeningSupply
  <2>2. sunk'[c] = 0
    BY <1>1, <1>2 DEF LunchInv
  <2>3. Area[row.curve][row.supply] \in Int
    BY PriceTypes DEF CardRow
  <2> QED
    BY <1>1, <2>1, <2>2, <2>3 DEF Grain
<1>6. \A d \in Cards \ DOMAIN cards' : sunk'[d] = 0
  BY <1>1, <1>3 DEF LunchInv
<1> QED
  BY <1>3, <1>4, <1>5, <1>6 DEF LunchInv, NoFreeLunch

\* No sequence of trades on a card pays out more than it took in beyond what its
\* supply is worth on the curve: rounding never beats the minimum fee.
LEMMA LunchAnySize == AnySizeSpec => []NoFreeLunch
<1>1. Init => LunchInv
  <2> SUFFICES ASSUME Init PROVE LunchInv
    OBVIOUS
  <2>1. ASSUME NEW c \in DOMAIN cards
        PROVE  Grain * sunk[c] >= Area[cards[c].curve][cards[c].supply]
                                  - Area[cards[c].curve][OpeningSupply(c)]
    <3>1. c \in Seeded /\ c \in Cards /\ cards[c] = SeedRow(c)
      BY DEF Init, Cards
    <3>2. sunk[c] = 0 /\ OpeningSupply(c) = cards[c].supply
      BY <3>1 DEF Init, OpeningSupply, SeedRow
    <3> QED
      BY <3>2, InitType, AreaTypes DEF Grain
  <2> QED
    BY <2>1 DEF Init, LunchInv, NoFreeLunch
<1>2. TypeOK /\ LunchInv /\ [AnySizeNext]_vars => LunchInv'
  <2> SUFFICES ASSUME TypeOK, LunchInv, [AnySizeNext]_vars PROVE LunchInv'
    OBVIOUS
  <2>1. CASE UNCHANGED <<cards, sunk>>
    BY <2>1 DEF LunchInv, NoFreeLunch, OpeningSupply
  <2>2. CASE UNCHANGED vars \/ Tick
    BY <2>1, <2>2 DEF vars, Tick
  <2>3. ASSUME NEW at \in ClockReadings, NEW u \in Users,
               GrantDailyReward(u, at) \/ RebalanceBotBalance(u, at)
        PROVE  LunchInv'
    BY <2>1, <2>3, GrantStep
  <2> QED
    BY <2>2, <2>3, TradeKeepsLunch, LaunchKeepsLunch DEF AnySizeNext, Users
<1> QED
  BY <1>1, <1>2, TypeAnySize, PTL DEF AnySizeSpec, LunchInv

\* In particular when the sizes are those of the model.
THEOREM NoFreeLunchEver == Spec => []NoFreeLunch
  BY SpecIsAnySize, LunchAnySize, PTL

-----------------------------------------------------------------------------
(* Induction over finite sets and numbers.                                 *)

\* What holds of a set when it holds of every set with an element less holds of
\* every finite set.
LEMMA SubsetRule ==
  ASSUME NEW S, IsFiniteSet(S), NEW Good,
         \A T \in SUBSET S : (\A x \in T : T \ {x} \in Good) => T \in Good
  PROVE  SUBSET S \subseteq Good
<1> DEFINE Bad == (SUBSET S) \ Good
           R   == StrictSubsetOrdering(S)
<1> SUFFICES ASSUME Bad # {} PROVE FALSE
  OBVIOUS
<1>1. IsWellFoundedOn(R, SUBSET S)
  <2>1. FiniteSubsetsOf(S) = SUBSET S
    BY FS_FiniteSubsetsOfFinite
  <2>2. IsWellFoundedOn(StrictSubsetOrdering(S), FiniteSubsetsOf(S))
    BY FS_StrictSubsetOrderingWellFounded
  <2> QED
    BY <2>1, <2>2
<1>2. Bad \subseteq SUBSET S
  OBVIOUS
<1> HIDE DEF Bad, R
<1>3. PICK T \in Bad : \A U \in Bad : ~(<<U, T>> \in R)
  BY <1>1, <1>2, WFMin
<1> USE DEF Bad, R
<1>4. PICK x \in T : T \ {x} \notin Good
  BY <1>3
<1>5. T \ {x} \in SUBSET S /\ T \in SUBSET S /\ T \ {x} \subseteq T /\ T \ {x} # T
  BY <1>3, <1>4
<1>6. <<T \ {x}, T>> \in R
  BY <1>5 DEF StrictSubsetOrdering
<1> QED
  BY <1>3, <1>4, <1>5, <1>6

\* What holds of 0 and, with a number, of the next one, holds of every number.
LEMMA NumberRule ==
  ASSUME NEW Good, 0 \in Good, \A n \in Nat : n \in Good => n + 1 \in Good
  PROVE  Nat \subseteq Good
<1> SUFFICES ASSUME NEW m \in Nat PROVE m \in Good
  OBVIOUS
<1> DEFINE Segments == {T \in SUBSET (0..m) : \A n \in 0..m : T = 0..n => n \in Good}
<1>1. IsFiniteSet(0..m)
  BY FS_Interval
<1>2. ASSUME NEW T \in SUBSET (0..m), \A x \in T : T \ {x} \in Segments
      PROVE  T \in Segments
  <2> SUFFICES ASSUME NEW n \in 0..m, T = 0..n PROVE n \in Good
    OBVIOUS
  <2>1. CASE n = 0
    BY <2>1
  <2>2. CASE n > 0
    <3>1. T \ {n} = 0..(n - 1) /\ n - 1 \in 0..m /\ n - 1 \in Nat
      BY <2>2
    <3>2. T \ {n} \in Segments
      <4>1. n \in T
        OBVIOUS
      <4> HIDE DEF Segments
      <4> QED
        BY <1>2, <4>1
    <3>3. n - 1 \in Good
      BY <3>1, <3>2
    <3> QED
      BY <3>1, <3>3
  <2> QED
    BY <2>1, <2>2
<1> HIDE DEF Segments
<1>3. 0..m \in Segments
  <2>1. PICK S : S = 0..m
    OBVIOUS
  <2>2. IsFiniteSet(S)
    BY <1>1, <2>1
  <2>3. \A T \in SUBSET S : (\A x \in T : T \ {x} \in Segments) => T \in Segments
    BY <1>2, <2>1
  <2>4. SUBSET S \subseteq Segments
    BY <2>2, <2>3, SubsetRule
  <2> QED
    BY <2>1, <2>4
<1> QED
  BY <1>3 DEF Segments

-----------------------------------------------------------------------------
(* A sum over a finite set is what a table of the sums over its subsets    *)
(* says, and the rules for tables are shown by taking elements away.       *)

AnyOf(s) == CHOOSE x \in s : TRUE

\* F tabulates the sums of g over the sets in D.
Tabulates(F, g, D) ==
    F = [s \in D |-> IF s = {} THEN 0 ELSE g[AnyOf(s)] + F[s \ {AnyOf(s)}]]

\* F tabulates the sums of g over the subsets of S.
Sums(F, g, S) == Tabulates(F, g, SUBSET S)

SumTable(g, S) == CHOOSE F : Sums(F, g, S)

\* The fold that SumFunctionOnSet is, is the whole set's entry of its table.
LEMMA SumIsTabulated ==
  ASSUME NEW g, NEW S
  PROVE  SumFunctionOnSet(g, S) = SumTable(g, S)[S]
  BY DEF SumFunctionOnSet, FoldFunctionOnSet, MapThenFoldSet, SumTable, Sums, Tabulates, AnyOf

\* Every finite set has a table of the sums over its subsets.
LEMMA TableExists ==
  ASSUME NEW S, IsFiniteSet(S), NEW g
  PROVE  \E F : Sums(F, g, S)
<1> DEFINE Upto(n) == {s \in SUBSET S : Cardinality(s) <= n}
           Good == {n \in Nat : \E F : Tabulates(F, g, Upto(n))}
<1>0. \A s \in SUBSET S : IsFiniteSet(s) /\ Cardinality(s) \in Nat
                          /\ Cardinality(s) <= Cardinality(S)
  BY FS_Subset, FS_CardinalityType
<1>1. 0 \in Good
  <2>1. \A s \in Upto(0) : s = {}
    BY <1>0, FS_EmptySet
  <2>2. Tabulates([s \in Upto(0) |-> 0], g, Upto(0))
    BY <2>1 DEF Sums, Tabulates
  <2> QED
    BY <2>2
<1>2. ASSUME NEW n \in Nat, n \in Good PROVE n + 1 \in Good
  <2>1. PICK F : Tabulates(F, g, Upto(n))
    BY <1>2
  <2> DEFINE G == [s \in Upto(n + 1) |->
                      IF s = {} THEN 0 ELSE g[AnyOf(s)] + F[s \ {AnyOf(s)}]]
  <2>2. ASSUME NEW s \in Upto(n + 1), s # {}
        PROVE  AnyOf(s) \in s /\ s \ {AnyOf(s)} \in Upto(n)
    <3>1. AnyOf(s) \in s
      BY <2>2 DEF AnyOf
    <3>2. Cardinality(s \ {AnyOf(s)}) = Cardinality(s) - 1
      BY <1>0, <3>1, FS_RemoveElement
    <3> QED
      BY <1>0, <3>1, <3>2
  <2>3. \A s \in Upto(n) : s \in Upto(n + 1) /\ G[s] = F[s]
    <3>1. \A s \in Upto(n) : s \in Upto(n + 1)
      BY <1>0
    <3> QED
      BY <2>1, <3>1 DEF Sums, Tabulates
  <2> HIDE DEF Upto
  <2>4. Tabulates(G, g, Upto(n + 1))
    BY <2>2, <2>3 DEF Sums, Tabulates
  <2> QED
    BY <2>4
<1>3. Cardinality(S) \in Good
  <2> HIDE DEF Good
  <2>1. Nat \subseteq Good
    BY <1>1, <1>2, NumberRule
  <2> QED
    BY <2>1, FS_CardinalityType
<1>4. Upto(Cardinality(S)) = SUBSET S
  BY <1>0
<1> QED
  BY <1>3, <1>4 DEF Sums

\* The sums of integers are integers.
LEMMA TableTypes ==
  ASSUME NEW S, IsFiniteSet(S), NEW g, \A x \in S : g[x] \in Int,
         NEW F, Sums(F, g, S)
  PROVE  \A T \in SUBSET S : F[T] \in Int
<1> DEFINE Good == {T \in SUBSET S : F[T] \in Int}
<1>1. ASSUME NEW T \in SUBSET S, \A x \in T : T \ {x} \in Good
      PROVE  T \in Good
  <2>1. CASE T = {}
    BY <2>1 DEF Sums, Tabulates
  <2>2. CASE T # {}
    <3>1. PICK c \in T : c = AnyOf(T)
      BY <2>2 DEF AnyOf
    <3>2. F[T] = g[c] + F[T \ {c}]
      BY <2>2, <3>1 DEF Sums, Tabulates
    <3> QED
      BY <1>1, <3>2
  <2> QED
    BY <2>1, <2>2
<1> HIDE DEF Good
<1>2. SUBSET S \subseteq Good
  BY <1>1, SubsetRule
<1> QED
  BY <1>2 DEF Good

\* In a table of sums any element may be taken out first.
LEMMA TableFacts ==
  ASSUME NEW S, IsFiniteSet(S), NEW g, \A x \in S : g[x] \in Int,
         NEW F, Sums(F, g, S), NEW y \in S
  PROVE  F[S] = g[y] + F[S \ {y}]
<1> DEFINE Good == {T \in SUBSET S : F[T] \in Int /\ \A x \in T : F[T] = g[x] + F[T \ {x}]}
<1>1. ASSUME NEW T \in SUBSET S, \A x \in T : T \ {x} \in Good
      PROVE  T \in Good
  <2>1. CASE T = {}
    BY <2>1 DEF Sums, Tabulates
  <2>2. CASE T # {}
    <3>1. PICK c \in T : c = AnyOf(T)
      BY <2>2 DEF AnyOf
    <3>2. F[T] = g[c] + F[T \ {c}]
      BY <2>2, <3>1 DEF Sums, Tabulates
    <3>3. ASSUME NEW x \in T PROVE F[T] = g[x] + F[T \ {x}]
      <4>1. CASE x = c
        BY <3>2, <4>1
      <4>2. CASE x # c
        <5>1. T \ {c} \in Good /\ T \ {x} \in Good
          BY <1>1
        <5>2. F[T \ {c}] = g[x] + F[(T \ {c}) \ {x}]
          BY <4>2, <5>1
        <5>3. F[T \ {x}] = g[c] + F[(T \ {x}) \ {c}]
          BY <4>2, <5>1
        <5>4. (T \ {c}) \ {x} = (T \ {x}) \ {c}
          OBVIOUS
        <5>5. F[(T \ {x}) \ {c}] \in Int
          BY TableTypes
        <5>6. PICK a, b, d : /\ a = F[T \ {c}] /\ b = F[T \ {x}]
                             /\ d = F[(T \ {x}) \ {c}]
          OBVIOUS
        <5>7. d \in Int /\ g[c] \in Int /\ g[x] \in Int
          BY <5>5, <5>6
        <5>8. F[T] = g[c] + a /\ a = g[x] + d /\ b = g[c] + d
          BY <3>2, <5>2, <5>3, <5>4, <5>6
        <5>9. F[T] = g[x] + b
          BY <5>7, <5>8
        <5> QED
          BY <5>6, <5>9
      <4> QED
        BY <4>1, <4>2
    <3> QED
      BY <3>3, TableTypes
  <2> QED
    BY <2>1, <2>2
<1> HIDE DEF Good
<1>2. SUBSET S \subseteq Good
  BY <1>1, SubsetRule
<1> QED
  BY <1>2 DEF Good

\* Two tables agree where the functions they add up do.
LEMMA TablesAgree ==
  ASSUME NEW S, IsFiniteSet(S), NEW T, T \subseteq S, NEW g, NEW h,
         \A x \in T : g[x] = h[x],
         NEW F, Sums(F, g, S), NEW H, Sums(H, h, T)
  PROVE  F[T] = H[T]
<1> DEFINE Good == {U \in SUBSET T : F[U] = H[U]}
<1>1. IsFiniteSet(T)
  BY FS_Subset
<1>2. ASSUME NEW U \in SUBSET T, \A x \in U : U \ {x} \in Good
      PROVE  U \in Good
  <2>1. CASE U = {}
    BY <2>1 DEF Sums, Tabulates
  <2>2. CASE U # {}
    <3>1. PICK c \in U : c = AnyOf(U)
      BY <2>2 DEF AnyOf
    <3>2. F[U] = g[c] + F[U \ {c}] /\ H[U] = h[c] + H[U \ {c}]
      BY <2>2, <3>1 DEF Sums, Tabulates
    <3> QED
      BY <1>2, <3>2
  <2> QED
    BY <2>1, <2>2
<1> HIDE DEF Good
<1>3. SUBSET T \subseteq Good
  BY <1>1, <1>2, SubsetRule
<1> QED
  BY <1>3 DEF Good

\* The table that is chosen is one.
LEMMA TableOf ==
  ASSUME NEW S, IsFiniteSet(S), NEW g
  PROVE  Sums(SumTable(g, S), g, S)
  BY TableExists DEF SumTable

-----------------------------------------------------------------------------
(* Sums.                                                                   *)

\* The sum over nothing.
LEMMA SumEmpty ==
  ASSUME NEW g
  PROVE  SumFunctionOnSet(g, {}) = 0
<1>1. Sums(SumTable(g, {}), g, {})
  BY FS_EmptySet, TableOf
<1> QED
  BY <1>1, SumIsTabulated DEF Sums, Tabulates

\* The sum of integers over a finite set is an integer.
LEMMA SumType ==
  ASSUME NEW S, IsFiniteSet(S), NEW g, \A x \in S : g[x] \in Int
  PROVE  SumFunctionOnSet(g, S) \in Int
<1>1. PICK F : F = SumTable(g, S) /\ Sums(F, g, S)
  BY TableOf
<1>2. F[S] \in Int
  BY <1>1, TableTypes
<1> QED
  BY <1>1, <1>2, SumIsTabulated

\* The sum depends on the values summed only.
LEMMA SumAgree ==
  ASSUME NEW S, IsFiniteSet(S), NEW g, NEW h, \A x \in S : g[x] = h[x]
  PROVE  SumFunctionOnSet(g, S) = SumFunctionOnSet(h, S)
<1>1. PICK F : F = SumTable(g, S) /\ Sums(F, g, S)
  BY TableOf
<1>2. PICK H : H = SumTable(h, S) /\ Sums(H, h, S)
  BY TableOf
<1>3. F[S] = H[S]
  <2>1. S \subseteq S
    OBVIOUS
  <2>2. Sums(F, g, S) /\ Sums(H, h, S)
    BY <1>1, <1>2
  <2> HIDE <1>1, <1>2
  <2> QED
    BY <2>1, <2>2, TablesAgree
<1> QED
  BY <1>1, <1>2, <1>3, SumIsTabulated

\* One more value.
LEMMA SumAdd ==
  ASSUME NEW S, IsFiniteSet(S), NEW x, x \notin S, NEW g,
         \A y \in S \cup {x} : g[y] \in Int
  PROVE  SumFunctionOnSet(g, S \cup {x}) = SumFunctionOnSet(g, S) + g[x]
<1>1. PICK T : T = S \cup {x}
  OBVIOUS
<1>2. IsFiniteSet(T) /\ x \in T /\ S \subseteq T /\ T \ {x} = S
      /\ \A y \in T : g[y] \in Int
  BY <1>1, FS_AddElement
<1>3. PICK F : F = SumTable(g, T) /\ Sums(F, g, T)
  BY <1>2, TableOf
<1>4. PICK H : H = SumTable(g, S) /\ Sums(H, g, S)
  BY TableOf
<1>5. F[S] = H[S]
  <2>1. \A y \in S : g[y] = g[y]
    OBVIOUS
  <2>2. Sums(F, g, T) /\ Sums(H, g, S)
    BY <1>3, <1>4
  <2>3. IsFiniteSet(T) /\ S \subseteq T
    BY <1>2
  <2> QED
    BY <2>1, <2>2, <2>3, TablesAgree
<1>6. F[T] = g[x] + F[T \ {x}] /\ F[S] \in Int
  <2>1. Sums(F, g, T)
    BY <1>3
  <2>2. IsFiniteSet(T) /\ x \in T /\ S \in SUBSET T /\ \A y \in T : g[y] \in Int
    BY <1>2
  <2> QED
    BY <2>1, <2>2, TableFacts, TableTypes
<1>7. SumFunctionOnSet(g, T) = F[T] /\ SumFunctionOnSet(g, S) = F[S]
  BY <1>3, <1>4, <1>5, SumIsTabulated
<1>8. PICK a, b : a = F[S] /\ b = SumFunctionOnSet(g, T)
  OBVIOUS
<1>9. a \in Int /\ g[x] \in Int /\ b = g[x] + a /\ SumFunctionOnSet(g, S) = a
  BY <1>2, <1>6, <1>7, <1>8
<1>10. b = a + g[x]
  BY <1>9
<1> QED
  BY <1>1, <1>8, <1>9, <1>10

\* One value changes.
LEMMA SumChange ==
  ASSUME NEW S, IsFiniteSet(S), NEW x \in S, NEW g, NEW h,
         \A y \in S : g[y] \in Int, h[x] \in Int, \A y \in S \ {x} : h[y] = g[y]
  PROVE  SumFunctionOnSet(h, S) = SumFunctionOnSet(g, S) + (h[x] - g[x])
<1>1. PICK U : U = S \ {x}
  OBVIOUS
<1>2. /\ IsFiniteSet(U) /\ x \notin U /\ U \cup {x} = S
      /\ \A y \in U : h[y] = g[y]
      /\ \A y \in U \cup {x} : g[y] \in Int /\ h[y] \in Int
  BY <1>1, FS_RemoveElement
<1>3. /\ SumFunctionOnSet(g, U \cup {x}) = SumFunctionOnSet(g, U) + g[x]
      /\ SumFunctionOnSet(h, U \cup {x}) = SumFunctionOnSet(h, U) + h[x]
  BY <1>2, SumAdd
<1>4. SumFunctionOnSet(g, U) = SumFunctionOnSet(h, U) /\ SumFunctionOnSet(g, U) \in Int
  BY <1>2, SumAgree, SumType
<1>5. PICK a, b, d : /\ a = SumFunctionOnSet(g, U) /\ b = SumFunctionOnSet(g, S)
                     /\ d = SumFunctionOnSet(h, S)
  OBVIOUS
<1>6. a \in Int /\ g[x] \in Int /\ h[x] \in Int /\ b = a + g[x] /\ d = a + h[x]
  BY <1>2, <1>3, <1>4, <1>5
<1>7. d = b + (h[x] - g[x])
  BY <1>6
<1> QED
  BY <1>5, <1>7

\* Zeros add up to zero.
LEMMA SumZero ==
  ASSUME NEW S, IsFiniteSet(S), NEW g, \A x \in S : g[x] = 0
  PROVE  SumFunctionOnSet(g, S) = 0
<1>1. PICK F : F = SumTable(g, S) /\ Sums(F, g, S)
  BY TableOf
<1> DEFINE Good == {T \in SUBSET S : F[T] = 0}
<1>2. ASSUME NEW T \in SUBSET S, \A x \in T : T \ {x} \in Good
      PROVE  T \in Good
  <2>1. CASE T = {}
    BY <1>1, <2>1 DEF Sums, Tabulates
  <2>2. CASE T # {}
    <3>1. PICK c \in T : c = AnyOf(T)
      BY <2>2 DEF AnyOf
    <3>2. F[T] = g[c] + F[T \ {c}]
      BY <1>1, <2>2, <3>1 DEF Sums, Tabulates
    <3> QED
      BY <1>2, <3>2
  <2> QED
    BY <2>1, <2>2
<1> HIDE DEF Good
<1>3. SUBSET S \subseteq Good
  BY <1>2, SubsetRule
<1>4. F[S] = 0
  BY <1>3 DEF Good
<1> QED
  BY <1>1, <1>4, SumIsTabulated

-----------------------------------------------------------------------------
(* What the steps of the ledger do to its log and its clock.               *)

\* Only Tick moves the clock.
LEMMA ClockStep ==
  ASSUME [AnySizeNext]_vars
  PROVE  Tick \/ now' = now
<1>1. \A at, u, c, type, n : ExecuteTrade(u, c, type, n, at) => now' = now
  BY DEF ExecuteTrade
<1>2. \A at, u, c, total, percent : LaunchCard(u, c, total, percent, at) => now' = now
  BY DEF LaunchCard
<1>3. \A at, u : GrantDailyReward(u, at) \/ RebalanceBotBalance(u, at) => now' = now
  BY DEF GrantDailyReward, RebalanceBotBalance
<1> QED
  BY <1>1, <1>2, <1>3 DEF AnySizeNext, vars

\* What a trade adds to the log, its row t and its fee's f, and what it charges.
TradeLogged(u, c, type, n, at, t, f, cost, charge) ==
    /\ charge = cost + ComputeFee(cost) * WashTradeMultiplier(LastTrade(u, c), type, at)
    /\ t.user = u /\ t.card = c /\ t.type = type /\ t.at = at
    /\ t.delta = -cost /\ t.resulting = users[u].balance - cost
    /\ f.user = u /\ f.card = c /\ f.type = "FEE" /\ f.at = at
    /\ f.delta = cost - charge /\ f.resulting = users[u].balance - charge
    /\ transactions' = transactions \o <<t, f>>
    /\ users' = [users EXCEPT ![u].balance = @ + (-charge)]
    /\ holdings' = [holdings EXCEPT ![u][c] =
                       HoldingAfterTrade(holdings[u][c], type, n, charge, at)]

\* Every trade logs its row and its fee's.
LEMMA TradeLog ==
  ASSUME TypeOK, NEW u \in Users, NEW c \in Cards, NEW type \in TradeTypes,
         NEW n \in Nat \ {0}, NEW at \in ClockReadings, ExecuteTrade(u, c, type, n, at)
  PROVE  \E t \in TxnRow, f \in TxnRow, cost \in Int, charge \in Int :
            TradeLogged(u, c, type, n, at, t, f, cost, charge)
<1> DEFINE last   == LastTrade(u, c)
           cost   == TradeCost(cards[c], type, n)
           charge == TradeCharge(cards[c], type, n, last, at)
           trade  == Txn(u, c, type, n, -cost, users[u].balance - cost, at)
           fee    == Txn(u, c, "FEE", 0, cost - charge, users[u].balance - charge, at)
<1>1. c \in DOMAIN cards /\ TradeArgs(cards[c], u, type, n, at)
      /\ ValidSupply(NewSupply(cards[c], type, n)) /\ users[u].balance \in Int
  BY TradeStep DEF TypeOK, UserRow
<1>2. /\ transactions' = transactions \o <<trade, fee>>
      /\ users' = [users EXCEPT ![u].balance = @ + (-charge)]
      /\ holdings' = [holdings EXCEPT ![u][c] =
                         HoldingAfterTrade(holdings[u][c], type, n, charge, at)]
  BY DEF ExecuteTrade, Credit
<1>3. cost \in Int /\ charge \in Int
  BY <1>1, ChargeFacts
<1>4. charge = cost + ComputeFee(cost) * WashTradeMultiplier(last, type, at)
  BY DEF TradeCharge, TradeFee
<1> HIDE DEF last, cost, charge
<1>5. /\ trade \in TxnRow /\ fee \in TxnRow
      /\ trade.user = u /\ trade.card = c /\ trade.type = type /\ trade.at = at
      /\ trade.delta = -cost /\ trade.resulting = users[u].balance - cost
      /\ fee.user = u /\ fee.card = c /\ fee.type = "FEE" /\ fee.at = at
      /\ fee.delta = cost - charge /\ fee.resulting = users[u].balance - charge
  BY <1>1, <1>3 DEF Txn, TxnRow, TradeArgs
<1> HIDE DEF trade, fee
<1>6. TradeLogged(u, c, type, n, at, trade, fee, cost, charge)
  BY <1>2, <1>4, <1>5 DEF TradeLogged, last
<1> QED
  BY <1>3, <1>5, <1>6

\* What the operations other than trades add to the log: one row, with the clock
\* reading of the operation.
LEMMA LogStep ==
  ASSUME TypeOK, [AnySizeNext]_vars,
         \A at \in ClockReadings, u \in Users, c \in Cards, type \in TradeTypes,
            n \in Nat \ {0} :
             ~ExecuteTrade(u, c, type, n, at)
  PROVE  \/ transactions' = transactions
         \/ \E t \in TxnRow : /\ t.type \notin TradeTypes /\ t.at \in ClockReadings
                             /\ transactions' = Append(transactions, t)
<1>1. CASE UNCHANGED vars \/ Tick
  BY <1>1 DEF vars, Tick
<1>2. ASSUME NEW at \in ClockReadings, NEW u \in Humans, NEW c \in Launchable,
             NEW total \in LaunchTotals, NEW percent \in LaunchPercents,
             LaunchCard(u, c, total, percent, at)
      PROVE  \E t \in TxnRow : /\ t.type \notin TradeTypes /\ t.at \in ClockReadings
                              /\ transactions' = Append(transactions, t)
  <2> DEFINE t == Txn(u, c, "CARD_LAUNCH", RetainedShares(total, percent), -LaunchCost,
                      users[u].balance - LaunchCost, at)
  <2>1. /\ u \in Users /\ c \in Cards /\ at \in Nat /\ LaunchCost \in Nat
        /\ users[u] \in UserRow
    BY ClockReadingType, LedgerAssumption DEF Users, Cards, TypeOK
  <2>2. RetainedShares(total, percent) \in Nat
    BY <1>2, PricingAssumption DEF LaunchCard, ValidSupply
  <2>3. t \in TxnRow /\ t.type \notin TradeTypes /\ t.at = at
    BY <2>1, <2>2 DEF Txn, TxnRow, UserRow, TradeTypes
  <2>4. transactions' = Append(transactions, t)
    BY <1>2 DEF LaunchCard
  <2> HIDE DEF t
  <2> QED
    BY <2>3, <2>4
<1>3. ASSUME NEW at \in ClockReadings, NEW u \in Users, GrantDailyReward(u, at)
      PROVE  \E t \in TxnRow : /\ t.type \notin TradeTypes /\ t.at \in ClockReadings
                              /\ transactions' = Append(transactions, t)
  <2> DEFINE t == Txn(u, NoCard, "DAILY_REWARD", 0, DailyRewardAmount,
                      users[u].balance + DailyRewardAmount, at)
  <2>1. at \in Nat /\ DailyRewardAmount \in Nat /\ users[u] \in UserRow
    BY ClockReadingType, LedgerAssumption DEF TypeOK
  <2>2. t \in TxnRow /\ t.type \notin TradeTypes /\ t.at = at
    BY <2>1 DEF Txn, TxnRow, UserRow, TradeTypes
  <2>3. transactions' = Append(transactions, t)
    BY <1>3 DEF GrantDailyReward
  <2> HIDE DEF t
  <2> QED
    BY <2>2, <2>3
<1>4. ASSUME NEW at \in ClockReadings, NEW u \in Users, RebalanceBotBalance(u, at)
      PROVE  \E t \in TxnRow : /\ t.type \notin TradeTypes /\ t.at \in ClockReadings
                              /\ transactions' = Append(transactions, t)
  <2> DEFINE delta == BotStartingBalance - users[u].balance
             t     == Txn(u, NoCard, "REBALANCE", 0, delta, users[u].balance + delta, at)
  <2>1. at \in Nat /\ delta \in Int /\ users[u] \in UserRow
    BY ClockReadingType, LedgerAssumption DEF TypeOK, UserRow
  <2>2. transactions' = Append(transactions, t)
    BY <1>4 DEF RebalanceBotBalance
  <2>3. t \in TxnRow /\ t.type \notin TradeTypes /\ t.at = at
    BY <2>1 DEF Txn, TxnRow, UserRow, TradeTypes
  <2> HIDE DEF t
  <2> QED
    BY <2>2, <2>3
<1> QED
  BY <1>1, <1>2, <1>3, <1>4 DEF AnySizeNext, Users

-----------------------------------------------------------------------------
(* The books.                                                              *)

\* The books of a log: every user's balance and resulting balances.
DeltasOf(log) == [i \in DOMAIN log |-> log[i].delta]

RowsOf(log, u) == {i \in DOMAIN log : log[i].user = u}

SumOf(log, rows) == SumFunctionOnSet(DeltasOf(log), rows)

RowsUpTo(log, u, i) == {j \in RowsOf(log, u) : j <= i}

Reconciled(log, u, open, balance) ==
    /\ balance = open + SumOf(log, RowsOf(log, u))
    /\ \A i \in RowsOf(log, u) :
          log[i].resulting = open + SumOf(log, RowsUpTo(log, u, i))

\* What a row appended to a log does to it.
LEMMA AppendFacts ==
  ASSUME NEW log \in Seq(TxnRow), NEW t \in TxnRow
  PROVE  LET new == Append(log, t)
             n   == Len(log)
         IN  /\ new \in Seq(TxnRow) /\ n \in Nat
             /\ DOMAIN log = 1..n /\ DOMAIN new = 1..(n + 1)
             /\ new[n + 1] = t
             /\ \A i \in 1..n : new[i] = log[i]
  OBVIOUS

\* The rows that a log already has are finitely many and keep their sums.
LEMMA SumOfOld ==
  ASSUME NEW log \in Seq(TxnRow), NEW t \in TxnRow, NEW rows, rows \subseteq DOMAIN log
  PROVE  /\ IsFiniteSet(rows)
         /\ SumOf(log, rows) \in Int
         /\ SumOf(Append(log, t), rows) = SumOf(log, rows)
<1> DEFINE new == Append(log, t)
           n   == Len(log)
<1>1. /\ n \in Nat /\ DOMAIN log = 1..n /\ DOMAIN new = 1..(n + 1)
      /\ \A i \in 1..n : new[i] = log[i]
  BY AppendFacts
<1>2. PICK g, h : g = DeltasOf(log) /\ h = DeltasOf(new)
  OBVIOUS
<1> HIDE DEF new, n
<1>3. \A i \in rows : g[i] = log[i].delta /\ h[i] = log[i].delta
  BY <1>1, <1>2 DEF DeltasOf
<1>4. \A i \in rows : g[i] \in Int
  <2>1. \A i \in rows : log[i] \in TxnRow
    OBVIOUS
  <2> QED
    BY <1>3, <2>1 DEF TxnRow
<1>5. IsFiniteSet(rows)
  <2>1. IsFiniteSet(1..n)
    BY <1>1, FS_Interval
  <2> QED
    BY <1>1, <2>1, FS_Subset
<1>6. SumFunctionOnSet(g, rows) \in Int
  BY <1>4, <1>5, SumType
<1>7. SumFunctionOnSet(g, rows) = SumFunctionOnSet(h, rows)
  BY <1>3, <1>5, SumAgree
<1> QED
  BY <1>2, <1>5, <1>6, <1>7 DEF SumOf, new

\* The sum of rows with an appended one.
LEMMA SumOfNew ==
  ASSUME NEW log \in Seq(TxnRow), NEW t \in TxnRow, NEW rows, rows \subseteq DOMAIN log
  PROVE  SumOf(Append(log, t), rows \cup {Len(log) + 1}) = SumOf(log, rows) + t.delta
<1> DEFINE new == Append(log, t)
           n   == Len(log)
<1>1. /\ n \in Nat /\ DOMAIN log = 1..n /\ DOMAIN new = 1..(n + 1)
      /\ new[n + 1] = t /\ new \in Seq(TxnRow)
  BY AppendFacts
<1> HIDE DEF new, n
<1>2. IsFiniteSet(rows) /\ SumOf(new, rows) = SumOf(log, rows)
  BY SumOfOld DEF new
<1>3. PICK h, k : h = DeltasOf(new) /\ k = n + 1
  OBVIOUS
<1>4. h[k] = t.delta /\ k \notin rows
  BY <1>1, <1>3 DEF DeltasOf
<1>5. \A y \in rows \cup {k} : h[y] \in Int
  <2>1. \A y \in rows \cup {k} : y \in DOMAIN new
    BY <1>1, <1>3
  <2>2. \A y \in rows \cup {k} : new[y] \in TxnRow
    BY <1>1, <2>1
  <2> QED
    BY <1>3, <2>1, <2>2 DEF DeltasOf, TxnRow
<1>6. SumFunctionOnSet(h, rows \cup {k}) = SumFunctionOnSet(h, rows) + h[k]
  BY <1>2, <1>4, <1>5, SumAdd
<1> QED
  BY <1>2, <1>3, <1>4, <1>6 DEF SumOf, new, n

\* A row of the user, whose resulting balance is the one before plus its delta.
LEMMA AppendToOwnRows ==
  ASSUME NEW log \in Seq(TxnRow), NEW t \in TxnRow, NEW open \in Int, NEW b \in Int,
         Reconciled(log, t.user, open, b), t.resulting = b + t.delta
  PROVE  Reconciled(Append(log, t), t.user, open, b + t.delta)
<1> DEFINE new == Append(log, t)
           n   == Len(log)
           u   == t.user
<1>1. /\ n \in Nat /\ DOMAIN log = 1..n /\ DOMAIN new = 1..(n + 1)
      /\ new[n + 1] = t /\ new \in Seq(TxnRow)
      /\ \A i \in 1..n : new[i] = log[i]
  BY AppendFacts
<1>2. PICK S : S = RowsOf(log, u)
  OBVIOUS
<1> HIDE DEF new, n
<1>3. RowsOf(new, u) = S \cup {n + 1} /\ S \subseteq DOMAIN log /\ n + 1 \notin S
  BY <1>1, <1>2 DEF RowsOf
<1>4. IsFiniteSet(S) /\ SumOf(log, S) \in Int /\ SumOf(new, S) = SumOf(log, S)
  BY <1>3, SumOfOld DEF new
<1>5. t.delta \in Int
  BY DEF TxnRow
<1>6. SumOf(new, S \cup {n + 1}) = SumOf(log, S) + t.delta
  BY <1>3, SumOfNew DEF new, n
<1>7. PICK s : s = SumOf(log, S)
  OBVIOUS
<1>8. b = open + s /\ s \in Int
  BY <1>2, <1>4, <1>7 DEF Reconciled
<1>9. b + t.delta = open + SumOf(new, RowsOf(new, u))
  <2>1. b + t.delta = open + (s + t.delta)
    BY <1>5, <1>8
  <2> QED
    BY <1>3, <1>6, <1>7, <2>1
<1>10. ASSUME NEW i \in RowsOf(new, u)
       PROVE  new[i].resulting = open + SumOf(new, RowsUpTo(new, u, i))
  <2>1. CASE i = n + 1
    <3>1. RowsUpTo(new, u, i) = RowsOf(new, u)
      BY <1>1, <2>1 DEF RowsUpTo, RowsOf
    <3>2. new[i] = t
      BY <1>1, <2>1
    <3> QED
      BY <1>9, <3>1, <3>2
  <2>2. CASE i # n + 1
    <3>1. i \in S /\ i \in 1..n
      BY <1>1, <1>3, <2>2
    <3>2. RowsUpTo(new, u, i) = RowsUpTo(log, u, i)
      BY <1>1, <1>2, <1>3, <3>1 DEF RowsUpTo
    <3>3. RowsUpTo(log, u, i) \subseteq DOMAIN log
      BY DEF RowsUpTo, RowsOf
    <3>4. SumOf(new, RowsUpTo(log, u, i)) = SumOf(log, RowsUpTo(log, u, i))
      BY <3>3, SumOfOld DEF new
    <3>5. log[i].resulting = open + SumOf(log, RowsUpTo(log, u, i))
      BY <1>2, <3>1 DEF Reconciled
    <3>6. new[i] = log[i]
      BY <1>1, <3>1
    <3> QED
      BY <3>2, <3>4, <3>5, <3>6
  <2> QED
    BY <2>1, <2>2
<1> QED
  BY <1>9, <1>10 DEF Reconciled, new

\* A row of somebody else says nothing of the user's balance.
LEMMA AppendToOthersRows ==
  ASSUME NEW log \in Seq(TxnRow), NEW t \in TxnRow, NEW u, u # t.user, NEW open, NEW b,
         Reconciled(log, u, open, b)
  PROVE  Reconciled(Append(log, t), u, open, b)
<1> DEFINE new == Append(log, t)
           n   == Len(log)
<1>1. /\ n \in Nat /\ DOMAIN log = 1..n /\ DOMAIN new = 1..(n + 1)
      /\ new[n + 1] = t
      /\ \A i \in 1..n : new[i] = log[i]
  BY AppendFacts
<1> HIDE DEF new, n
<1>2. RowsOf(new, u) = RowsOf(log, u) /\ RowsOf(log, u) \subseteq DOMAIN log
  BY <1>1 DEF RowsOf
<1>3. SumOf(new, RowsOf(log, u)) = SumOf(log, RowsOf(log, u))
  BY <1>2, SumOfOld DEF new
<1>4. ASSUME NEW i \in RowsOf(log, u)
      PROVE  new[i].resulting = open + SumOf(new, RowsUpTo(new, u, i))
  <2>1. RowsUpTo(new, u, i) = RowsUpTo(log, u, i) /\ RowsUpTo(log, u, i) \subseteq DOMAIN log
    BY <1>2 DEF RowsUpTo
  <2>2. SumOf(new, RowsUpTo(log, u, i)) = SumOf(log, RowsUpTo(log, u, i))
    BY <2>1, SumOfOld DEF new
  <2>3. new[i] = log[i]
    BY <1>1, <1>2
  <2> QED
    BY <2>1, <2>2, <2>3 DEF Reconciled
<1> QED
  BY <1>2, <1>3, <1>4 DEF Reconciled, new

\* The books: a log and the balances beside it.
Books(log, balance) == \A u \in Users : Reconciled(log, u, SeedBalance[u], balance[u])

\* A row changes the balance of its user, and only that one.
LEMMA AppendKeepsBooks ==
  ASSUME NEW log \in Seq(TxnRow), NEW t \in TxnRow,
         NEW balance, NEW after, Books(log, balance),
         balance[t.user] \in Int,
         t.resulting = balance[t.user] + t.delta,
         after[t.user] = t.resulting,
         \A u \in Users : u # t.user => after[u] = balance[u]
  PROVE  Append(log, t) \in Seq(TxnRow) /\ Books(Append(log, t), after)
<1>1. Append(log, t) \in Seq(TxnRow)
  OBVIOUS
<1>2. ASSUME NEW u \in Users
      PROVE  Reconciled(Append(log, t), u, SeedBalance[u], after[u])
  <2>1. Reconciled(log, u, SeedBalance[u], balance[u]) /\ SeedBalance[u] \in Int
    BY LedgerAssumption DEF Books
  <2>2. CASE u = t.user
    <3>1. Reconciled(Append(log, t), t.user, SeedBalance[u], balance[u] + t.delta)
      BY <2>1, <2>2, AppendToOwnRows
    <3>2. after[u] = balance[u] + t.delta
      BY <2>2
    <3> QED
      BY <2>2, <3>1, <3>2
  <2>3. CASE u # t.user
    BY <2>1, <2>3, AppendToOthersRows
  <2> QED
    BY <2>2, <2>3
<1> QED
  BY <1>1, <1>2 DEF Books

Balances == [u \in Users |-> users[u].balance]

\* BalancesReconcile is about the log and the balances alone.
LEMMA BooksReconcile == BalancesReconcile <=> Books(transactions, Balances)
  BY DEF BalancesReconcile, Books, Balances, Reconciled, OwnRows, RowsOf, RowsUpTo,
         SumOfDeltas, Deltas, SumOf, DeltasOf

\* An empty log has the opening balances.
LEMMA InitBooks == Init => BalancesReconcile
<1> SUFFICES ASSUME Init, NEW u \in Users
             PROVE  Reconciled(<<>>, u, SeedBalance[u], users[u].balance)
  BY BooksReconcile DEF Init, Books, Balances
<1>1. RowsOf(<<>>, u) = {}
  BY DEF RowsOf
<1>2. SumOf(<<>>, RowsOf(<<>>, u)) = 0
  BY <1>1, SumEmpty DEF SumOf
<1>3. users[u].balance = SeedBalance[u] /\ SeedBalance[u] \in Int
  BY LedgerAssumption DEF Init
<1> QED
  BY <1>1, <1>2, <1>3 DEF Reconciled

\* A step that adds one row to the log, and its delta to the balance it names.
\* A row whose resulting balance is the user's new one keeps the books.
LEMMA OneRowKeepsBooks ==
  ASSUME TypeOK, BalancesReconcile, NEW t \in TxnRow,
         t.resulting = users[t.user].balance + t.delta,
         transactions' = Append(transactions, t),
         users'[t.user].balance = t.resulting,
         \A u \in Users : u # t.user => users'[u] = users[u]
  PROVE  BalancesReconcile'
<1>1. Books(transactions, Balances) /\ transactions \in Seq(TxnRow)
  BY BooksReconcile DEF TypeOK
<1>2. t.user \in Users
  BY DEF TxnRow
<1>3. Balances[t.user] \in Int
  BY <1>2 DEF TypeOK, UserRow, Balances
<1>4. PICK after : after = [u \in Users |-> users'[u].balance]
  OBVIOUS
<1>5. after[t.user] = t.resulting /\ t.resulting = Balances[t.user] + t.delta
      /\ \A u \in Users : u # t.user => after[u] = Balances[u]
  BY <1>2, <1>4 DEF Balances
<1>6. Books(Append(transactions, t), after)
  BY <1>1, <1>3, <1>5, AppendKeepsBooks
<1>7. Books(transactions, Balances)'
  BY <1>4, <1>6 DEF Books, Balances
<1> QED
  BY <1>7, BooksReconcile, PTL

\* A trade's two rows keep them: the balance between the rows is the one that the
\* trade's row says.
LEMMA TradeKeepsBooks ==
  ASSUME TypeOK, BalancesReconcile, NEW u \in Users, NEW c \in Cards, NEW type \in TradeTypes,
         NEW n \in Nat \ {0}, NEW at \in ClockReadings, ExecuteTrade(u, c, type, n, at)
  PROVE  BalancesReconcile'
<1>1. PICK b : b = users[u].balance /\ b \in Int
  BY DEF TypeOK, UserRow
<1>2. PICK trade \in TxnRow, fee \in TxnRow, cost \in Int, charge \in Int :
        TradeLogged(u, c, type, n, at, trade, fee, cost, charge)
  BY TradeLog
<1>3. /\ trade.user = u /\ trade.delta = -cost /\ trade.resulting = b - cost
      /\ fee.user = u /\ fee.delta = cost - charge /\ fee.resulting = b - charge
      /\ users' = [users EXCEPT ![u].balance = @ + (-charge)]
      /\ transactions' = transactions \o <<trade, fee>>
  BY <1>1, <1>2 DEF TradeLogged
<1>4. Books(transactions, Balances) /\ transactions \in Seq(TxnRow)
  BY BooksReconcile DEF TypeOK
<1>5. PICK half : half = [Balances EXCEPT ![u] = b - cost]
  OBVIOUS
<1>6. PICK after : after = [v \in Users |-> users'[v].balance]
  OBVIOUS
<1>7. PICK log : log = Append(transactions, trade)
  OBVIOUS
<1>8. log \in Seq(TxnRow) /\ Books(log, half)
  <2>1. Balances[u] = b
    BY <1>1 DEF Balances
  <2>2. half[u] = b - cost /\ \A v \in Users : v # u => half[v] = Balances[v]
    BY <1>5 DEF Balances
  <2>3. trade.resulting = Balances[trade.user] + trade.delta /\ Balances[trade.user] \in Int
    BY <1>1, <1>3, <2>1
  <2>4. half[trade.user] = trade.resulting
        /\ \A v \in Users : v # trade.user => half[v] = Balances[v]
    BY <1>3, <2>2
  <2>5. Append(transactions, trade) \in Seq(TxnRow)
        /\ Books(Append(transactions, trade), half)
    BY <1>4, <2>3, <2>4, AppendKeepsBooks
  <2> QED
    BY <1>7, <2>5
<1>9. Books(Append(log, fee), after)
  <2>1. half[u] = b - cost /\ \A v \in Users : v # u => half[v] = users[v].balance
    BY <1>5 DEF Balances
  <2>2. after[u] = b - charge
    BY <1>1, <1>3, <1>6 DEF TypeOK, UserRow
  <2>3. \A v \in Users : v # u => after[v] = users[v].balance
    BY <1>3, <1>6 DEF TypeOK
  <2>4. half[fee.user] \in Int /\ fee.resulting = half[fee.user] + fee.delta
    BY <1>1, <1>3, <2>1
  <2>5. after[fee.user] = fee.resulting
        /\ \A v \in Users : v # fee.user => after[v] = half[v]
    BY <1>3, <2>1, <2>2, <2>3
  <2> QED
    BY <1>8, <2>4, <2>5, AppendKeepsBooks
<1>10. transactions' = Append(log, fee)
  BY <1>3, <1>4, <1>7
<1>11. Books(transactions, Balances)'
  BY <1>6, <1>9, <1>10 DEF Books, Balances
<1> QED
  BY <1>11, BooksReconcile, PTL

\* The log alone rebuilds the balances: every balance is its opening balance plus
\* the deltas of the user's rows, and every row's resulting_balance is that sum
\* up to the row, whatever operations commit and in whatever order.
LEMMA BooksAnySize == AnySizeSpec => []BalancesReconcile
<1>1. TypeOK /\ BalancesReconcile /\ [AnySizeNext]_vars => BalancesReconcile'
  <2> SUFFICES ASSUME TypeOK, BalancesReconcile, [AnySizeNext]_vars PROVE BalancesReconcile'
    OBVIOUS
  <2>1. CASE UNCHANGED <<users, transactions>>
    BY <2>1 DEF BalancesReconcile, OwnRows, SumOfDeltas, Deltas
  <2>2. CASE UNCHANGED vars \/ Tick
    BY <2>1, <2>2 DEF vars, Tick
  <2>3. ASSUME NEW at \in ClockReadings, NEW u \in Humans, NEW c \in Launchable,
               NEW total \in LaunchTotals, NEW percent \in LaunchPercents,
               LaunchCard(u, c, total, percent, at)
        PROVE  BalancesReconcile'
    <3> DEFINE t == Txn(u, c, "CARD_LAUNCH", RetainedShares(total, percent), -LaunchCost,
                        users[u].balance - LaunchCost, at)
    <3>1. /\ u \in Users /\ c \in Cards /\ at \in Nat /\ LaunchCost \in Nat
          /\ users[u] \in UserRow
      BY ClockReadingType, LedgerAssumption DEF Users, Cards, TypeOK
    <3>7. RetainedShares(total, percent) \in Nat
      BY <2>3, PricingAssumption DEF LaunchCard, ValidSupply
    <3>2. /\ users' = [users EXCEPT ![u].balance = @ + (-LaunchCost)]
          /\ transactions' = Append(transactions, t)
      BY <2>3 DEF LaunchCard, Credit
    <3>3. t \in TxnRow
      BY <3>1, <3>7 DEF Txn, TxnRow, UserRow
    <3>4. t.user = u /\ t.delta = -LaunchCost
          /\ t.resulting = users[u].balance - LaunchCost
      BY DEF Txn
    <3>5. users'[u].balance = users[u].balance - LaunchCost
          /\ users[u].balance - LaunchCost = users[u].balance + (-LaunchCost)
      BY <3>1, <3>2 DEF TypeOK, UserRow
    <3>6. \A v \in Users : v # u => users'[v] = users[v]
      BY <3>2 DEF TypeOK
    <3> HIDE DEF t
    <3> QED
      BY <3>2, <3>3, <3>4, <3>5, <3>6, OneRowKeepsBooks
  <2>4. ASSUME NEW at \in ClockReadings, NEW u \in Users, GrantDailyReward(u, at)
        PROVE  BalancesReconcile'
    <3> DEFINE t == Txn(u, NoCard, "DAILY_REWARD", 0, DailyRewardAmount,
                        users[u].balance + DailyRewardAmount, at)
    <3>1. at \in Nat /\ DailyRewardAmount \in Nat /\ users[u] \in UserRow
      BY ClockReadingType, LedgerAssumption DEF TypeOK
    <3>2. /\ users'[u].balance = users[u].balance + DailyRewardAmount
          /\ \A v \in Users : v # u => users'[v] = users[v]
          /\ transactions' = Append(transactions, t)
      BY <2>4 DEF GrantDailyReward, TypeOK
    <3>3. t \in TxnRow
      BY <3>1 DEF Txn, TxnRow, UserRow
    <3>4. t.user = u /\ t.delta = DailyRewardAmount
          /\ t.resulting = users[u].balance + DailyRewardAmount
      BY DEF Txn
    <3> HIDE DEF t
    <3> QED
      BY <3>2, <3>3, <3>4, OneRowKeepsBooks
  <2>5. ASSUME NEW at \in ClockReadings, NEW u \in Users, RebalanceBotBalance(u, at)
        PROVE  BalancesReconcile'
    <3> DEFINE delta == BotStartingBalance - users[u].balance
               t     == Txn(u, NoCard, "REBALANCE", 0, delta, users[u].balance + delta, at)
    <3>1. at \in Nat /\ BotStartingBalance \in Nat /\ users[u] \in UserRow
      BY ClockReadingType, LedgerAssumption DEF TypeOK
    <3>2. delta \in Int
      BY <3>1 DEF UserRow
    <3>3. /\ users' = [users EXCEPT ![u].balance = @ + delta]
          /\ transactions' = Append(transactions, t)
      BY <2>5 DEF RebalanceBotBalance, Credit
    <3>4. t \in TxnRow
      BY <3>1, <3>2 DEF Txn, TxnRow, UserRow
    <3> HIDE DEF delta
    <3>5. t.user = u /\ t.delta = delta /\ t.resulting = users[u].balance + delta
      BY DEF Txn
    <3>6. users'[u].balance = users[u].balance + delta
          /\ \A v \in Users : v # u => users'[v] = users[v]
      BY <3>1, <3>3 DEF TypeOK, UserRow
    <3> HIDE DEF t
    <3> QED
      BY <3>3, <3>4, <3>5, <3>6, OneRowKeepsBooks
  <2> QED
    BY <2>2, <2>3, <2>4, <2>5, TradeKeepsBooks DEF AnySizeNext, Users
<1> QED
  BY <1>1, InitBooks, TypeAnySize, PTL DEF AnySizeSpec

\* In particular when the sizes are those of the model.
THEOREM BooksAreKept == Spec => []BalancesReconcile
  BY SpecIsAnySize, BooksAnySize, PTL

-----------------------------------------------------------------------------
(* Shares.                                                                 *)

\* SharesConserved, and that nobody holds a card that does not exist.
SharesInv ==
    /\ SharesConserved
    /\ \A c \in Cards \ DOMAIN cards, u \in Users : holdings[u][c].shares = 0

\* The supply of one card, given what is held of it.
Conserved(row, float, held) ==
    /\ row.supply = float + held
    /\ row.total # Unlimited => row.supply <= row.total

\* What is held of a card is an integer.
LEMMA HeldSharesType ==
  ASSUME TypeOK, NEW c \in Cards
  PROVE  HeldShares(c) \in Int
<1>1. PICK g : g = [u \in Users |-> holdings[u][c].shares]
  OBVIOUS
<1>2. \A u \in Users : g[u] \in Int
  BY <1>1 DEF TypeOK, HoldingRow
<1>3. SumFunctionOnSet(g, Users) \in Int
  BY <1>2, SharesAssumption, SumType
<1> QED
  BY <1>1, <1>3 DEF HeldShares

\* What nobody holds of a card is an integer.
LEMMA PublicFloatType ==
  ASSUME NEW c \in Cards
  PROVE  PublicFloat(c) \in Int
<1>1. CASE c \in Seeded
  <2>1. PICK g : g = [u \in Users |-> SeedShares[u][c]]
    OBVIOUS
  <2>2. \A u \in Users : g[u] \in Int
    BY <1>1, <2>1, LedgerAssumption
  <2>3. SumFunctionOnSet(g, Users) \in Int
    BY <2>2, SharesAssumption, SumType
  <2>4. SeedCard[c].supply \in Int
    BY <1>1, LedgerAssumption
  <2> QED
    BY <1>1, <2>1, <2>3, <2>4 DEF PublicFloat
<1>2. CASE c \notin Seeded
  BY <1>2 DEF PublicFloat
<1> QED
  BY <1>1, <1>2

\* The seeded cards have the shares that the migrations give them.
LEMMA InitShares == Init => SharesInv
<1> SUFFICES ASSUME Init PROVE SharesInv
  OBVIOUS
<1>1. TypeOK
  BY InitType
<1>2. ASSUME NEW c \in DOMAIN cards
      PROVE  Conserved(cards[c], PublicFloat(c), HeldShares(c))
  <2>1. c \in Seeded /\ c \in Cards /\ cards[c] = SeedRow(c)
    BY DEF Init, Cards
  <2>2. PICK g, h : g = [u \in Users |-> SeedShares[u][c]]
                    /\ h = [u \in Users |-> holdings[u][c].shares]
    OBVIOUS
  <2>3. \A u \in Users : g[u] = h[u]
    <3>1. \A u \in Users : SeedHolding(u, c).shares = SeedShares[u][c]
      BY <2>1, LedgerAssumption DEF SeedHolding, NoHolding
    <3>2. \A u \in Users : holdings[u][c] = SeedHolding(u, c)
      BY <2>1 DEF Init
    <3> QED
      BY <2>2, <3>1, <3>2
  <2>4. SumFunctionOnSet(g, Users) = SumFunctionOnSet(h, Users)
    BY <2>3, SharesAssumption, SumAgree
  <2>5. PICK s : s = HeldShares(c) /\ s \in Int
    BY <1>1, <2>1, HeldSharesType
  <2>6. PublicFloat(c) = SeedCard[c].supply - s
    BY <2>1, <2>2, <2>4, <2>5 DEF PublicFloat, HeldShares
  <2>7. SeedCard[c].supply \in Int
        /\ cards[c].supply = SeedCard[c].supply /\ cards[c].total = SeedCard[c].total
    BY <2>1, LedgerAssumption DEF SeedRow
  <2>8. cards[c].supply = PublicFloat(c) + s
    BY <2>5, <2>6, <2>7
  <2> QED
    BY <2>1, <2>5, <2>7, <2>8, SharesAssumption DEF Conserved
<1>3. ASSUME NEW c \in Cards \ DOMAIN cards, NEW u \in Users
      PROVE  holdings[u][c].shares = 0
  BY DEF Init, SeedHolding, NoHolding
<1> QED
  BY <1>2, <1>3 DEF SharesInv, SharesConserved, Conserved

\* Who trades moves the shares held of the card by as much as its supply.
LEMMA TradeKeepsShares ==
  ASSUME TypeOK, SharesInv, NEW u \in Users, NEW c \in Cards, NEW type \in TradeTypes,
         NEW n \in Nat \ {0}, NEW at \in ClockReadings, ExecuteTrade(u, c, type, n, at)
  PROVE  SharesInv'
<1>1. /\ c \in DOMAIN cards
      /\ TradeArgs(cards[c], u, type, n, at)
      /\ ValidSupply(NewSupply(cards[c], type, n))
      /\ OwnsEnough(holdings[u][c], type, n)
      /\ cards' = [cards EXCEPT ![c] = CardAfterTrade(cards[c], u, type, n, at)]
  BY TradeStep
<1>2. PICK charge \in Int :
        holdings' = [holdings EXCEPT ![u][c] =
                       HoldingAfterTrade(holdings[u][c], type, n, charge, at)]
  BY TradeStep
<1>3. WithinTotalSupply(cards[c], type, n)
  BY DEF ExecuteTrade, TradeAllowed
<1>4. PICK delta : delta = DeltaSharesFor(type, n) /\ delta \in Int
  BY <1>1 DEF DeltaSharesFor, TradeArgs
<1>5. holdings[u][c] \in HoldingRow /\ cards[c] \in CardRow
  BY <1>1 DEF TypeOK
<1>6. cards'[c].supply = cards[c].supply + delta /\ cards'[c].total = cards[c].total
  <2>1. CardAfterTrade(cards[c], u, type, n, at).supply = cards[c].supply + delta
    BY <1>1, <1>4, CardAfterTradeFacts DEF NewSupply
  <2>2. CardAfterTrade(cards[c], u, type, n, at).total = cards[c].total
    BY <1>5 DEF CardAfterTrade, CardRow
  <2> QED
    BY <1>1, <2>1, <2>2
<1>7. holdings'[u][c].shares = holdings[u][c].shares + delta
  <2>1. HoldingAfterTrade(holdings[u][c], type, n, charge, at).shares
          = holdings[u][c].shares + delta
    BY <1>1, <1>4, <1>5, HoldingAfterTradeFacts DEF TradeArgs
  <2> QED
    BY <1>2, <2>1 DEF TypeOK
<1>8. \A v \in Users, d \in Cards : v # u \/ d # c => holdings'[v][d] = holdings[v][d]
  BY <1>2 DEF TypeOK
<1>9. DOMAIN cards' = DOMAIN cards /\ \A d \in DOMAIN cards : d # c => cards'[d] = cards[d]
  BY <1>1 DEF TypeOK
<1>10. HeldShares(c)' = HeldShares(c) + delta
  <2>1. PICK g, h : g = [v \in Users |-> holdings[v][c].shares]
                    /\ h = [v \in Users |-> holdings'[v][c].shares]
    OBVIOUS
  <2>2. \A v \in Users : g[v] \in Int
    BY <2>1 DEF TypeOK, HoldingRow
  <2>3. h[u] = g[u] + delta /\ h[u] \in Int
    BY <1>4, <1>7, <2>1, <2>2
  <2>4. \A v \in Users \ {u} : h[v] = g[v]
    BY <1>8, <2>1
  <2>5. SumFunctionOnSet(h, Users) = SumFunctionOnSet(g, Users) + (h[u] - g[u])
    BY <2>2, <2>3, <2>4, SharesAssumption, SumChange
  <2>6. h[u] - g[u] = delta
    BY <1>4, <2>2, <2>3
  <2> QED
    BY <2>1, <2>5, <2>6 DEF HeldShares
<1>11. ASSUME NEW d \in DOMAIN cards
       PROVE  Conserved(cards'[d], PublicFloat(d), HeldShares(d)')
  <2>1. d \in Cards /\ cards[d] \in CardRow
    BY DEF TypeOK
  <2>2. PICK s, f : s = HeldShares(d) /\ f = PublicFloat(d)
    OBVIOUS
  <2>3. s \in Int /\ f \in Int /\ Conserved(cards[d], f, s)
    BY <2>1, <2>2, HeldSharesType, PublicFloatType DEF SharesInv, SharesConserved, Conserved
  <2>4. CASE d = c
    <3>1. cards'[d].supply = f + (s + delta)
      BY <1>4, <1>6, <2>3, <2>4 DEF Conserved
    <3>2. HeldShares(d)' = s + delta
      BY <1>10, <2>2, <2>4
    <3>3. cards'[d].total # Unlimited => cards'[d].supply <= cards'[d].total
      BY <1>1, <1>3, <1>4, <1>6, <2>1, <2>3, <2>4
      DEF Conserved, WithinTotalSupply, DeltaSharesFor, TradeTypes, TradeArgs, CardRow
    <3> QED
      BY <2>2, <3>1, <3>2, <3>3 DEF Conserved
  <2>5. CASE d # c
    <3>1. cards'[d] = cards[d]
      BY <1>9, <2>5
    <3>2. HeldShares(d)' = HeldShares(d)
      BY <1>8, <2>1, <2>5 DEF HeldShares
    <3> QED
      BY <2>2, <2>3, <3>1, <3>2
  <2> QED
    BY <2>4, <2>5
<1>12. \A d \in DOMAIN cards' : Conserved(cards[d], PublicFloat(d), HeldShares(d))'
  BY <1>9, <1>11 DEF Conserved, PublicFloat
<1>13. \A d \in Cards \ DOMAIN cards', v \in Users : holdings'[v][d].shares = 0
  BY <1>1, <1>8, <1>9 DEF SharesInv
<1> QED
  BY <1>12, <1>13 DEF SharesInv, SharesConserved, Conserved

\* The retained shares of a launch are within its total supply.
LEMMA RetainedWithinTotal ==
  ASSUME NEW total \in Nat \ {0}, NEW percent \in Nat, percent <= MaxRetainedPercent
  PROVE  RetainedShares(total, percent) <= total
<1>1. total * percent \in Nat /\ total * percent <= total * 40
  BY DEF MaxRetainedPercent
<1>2. PICK a : a = total * percent
  OBVIOUS
<1>3. 200 * RoundDiv(a, 100) <= 2 * a + 100 /\ RoundDiv(a, 100) \in Int
  BY <1>1, <1>2, RoundDivBounds
<1>4. PICK r : r = RoundDiv(a, 100)
  OBVIOUS
<1>5. r \in Int /\ 200 * r <= 80 * total + 100
  BY <1>1, <1>2, <1>3, <1>4
<1>6. r <= total
  BY <1>5
<1> QED
  BY <1>2, <1>4, <1>6 DEF RetainedShares

\* A launched card has the supply that its creator retains.
LEMMA LaunchKeepsShares ==
  ASSUME TypeOK, SharesInv, NEW u \in Humans, NEW c \in Launchable, NEW total \in LaunchTotals,
         NEW percent \in LaunchPercents, NEW at \in ClockReadings,
         LaunchCard(u, c, total, percent, at)
  PROVE  SharesInv'
<1> DEFINE minted == RetainedShares(total, percent)
           row    == LaunchedRow(u, total, percent, at)
<1>1. /\ c \notin DOMAIN cards /\ percent <= MaxRetainedPercent /\ ValidSupply(minted)
      /\ cards' = WithCard(c, row)
      /\ row.supply = minted /\ row.total = total
  BY DEF LaunchCard, LaunchedRow
<1>2. PICK held : held.shares = minted /\ holdings' = [holdings EXCEPT ![u][c] = held]
  BY DEF LaunchCard
<1>3. u \in Users /\ c \in Cards /\ c \notin Seeded
      /\ total \in Nat \ {0} /\ percent \in Nat
  BY LedgerAssumption DEF Users, Cards
<1>4. minted \in Int /\ minted <= total
  BY <1>1, <1>3, RetainedWithinTotal, PricingAssumption DEF ValidSupply
<1> HIDE DEF minted, row
<1>5. holdings'[u][c].shares = minted
      /\ \A v \in Users, d \in Cards : v # u \/ d # c => holdings'[v][d] = holdings[v][d]
  BY <1>2, <1>3 DEF TypeOK
<1>6. DOMAIN cards' = DOMAIN cards \cup {c} /\ cards'[c] = row
      /\ \A d \in DOMAIN cards : cards'[d] = cards[d]
  BY <1>1 DEF WithCard
<1>7. HeldShares(c)' = minted
  <2>1. PICK g, h : g = [v \in Users |-> holdings[v][c].shares]
                    /\ h = [v \in Users |-> holdings'[v][c].shares]
    OBVIOUS
  <2>2. \A v \in Users : g[v] = 0
    BY <1>1, <1>3, <2>1 DEF SharesInv
  <2>3. h[u] = minted /\ \A v \in Users \ {u} : h[v] = g[v]
    BY <1>3, <1>5, <2>1
  <2>4. SumFunctionOnSet(g, Users) = 0
    BY <2>2, SharesAssumption, SumZero
  <2>5. SumFunctionOnSet(h, Users) = SumFunctionOnSet(g, Users) + (h[u] - g[u])
    BY <1>3, <1>4, <2>2, <2>3, SharesAssumption, SumChange
  <2>6. SumFunctionOnSet(h, Users) = minted
    BY <1>3, <1>4, <2>2, <2>3, <2>4, <2>5
  <2> QED
    BY <2>1, <2>6 DEF HeldShares
<1>8. ASSUME NEW d \in DOMAIN cards'
      PROVE  Conserved(cards'[d], PublicFloat(d), HeldShares(d)')
  <2>1. CASE d = c
    <3>1. PublicFloat(d) = 0
      BY <1>3, <2>1 DEF PublicFloat
    <3>2. cards'[d].supply = minted /\ cards'[d].total = total
      BY <1>1, <1>6, <2>1
    <3> QED
      BY <1>4, <1>7, <2>1, <3>1, <3>2 DEF Conserved
  <2>2. CASE d # c
    <3>1. d \in DOMAIN cards /\ d \in Cards /\ cards'[d] = cards[d]
      BY <1>6, <2>2 DEF TypeOK
    <3>2. HeldShares(d)' = HeldShares(d)
      BY <1>5, <2>2, <3>1 DEF HeldShares
    <3> QED
      BY <3>1, <3>2 DEF SharesInv, SharesConserved, Conserved
  <2> QED
    BY <2>1, <2>2
<1>9. \A d \in DOMAIN cards' : Conserved(cards[d], PublicFloat(d), HeldShares(d))'
  BY <1>8 DEF Conserved, PublicFloat
<1>10. \A d \in Cards \ DOMAIN cards', v \in Users : holdings'[v][d].shares = 0
  BY <1>5, <1>6 DEF SharesInv
<1> QED
  BY <1>9, <1>10 DEF SharesInv, SharesConserved, Conserved

\* Shares are neither lost nor made: the supply of a card is its public float plus
\* the positions of all users, and within its total supply.
LEMMA SharesAnySize == AnySizeSpec => []SharesConserved
<1>1. TypeOK /\ SharesInv /\ [AnySizeNext]_vars => SharesInv'
  <2> SUFFICES ASSUME TypeOK, SharesInv, [AnySizeNext]_vars PROVE SharesInv'
    OBVIOUS
  <2>1. CASE UNCHANGED <<cards, holdings>>
    BY <2>1 DEF SharesInv, SharesConserved, PublicFloat, HeldShares
  <2>2. CASE UNCHANGED vars \/ Tick
    BY <2>1, <2>2 DEF vars, Tick
  <2>3. ASSUME NEW at \in ClockReadings, NEW u \in Users,
               GrantDailyReward(u, at) \/ RebalanceBotBalance(u, at)
        PROVE  SharesInv'
    BY <2>1, <2>3, GrantStep
  <2> QED
    BY <2>2, <2>3, TradeKeepsShares, LaunchKeepsShares DEF AnySizeNext, Users
<1> QED
  BY <1>1, InitShares, TypeAnySize, PTL DEF AnySizeSpec, SharesInv

\* In particular when the sizes are those of the model.
THEOREM SharesAreKept == Spec => []SharesConserved
  BY SpecIsAnySize, SharesAnySize, PTL

-----------------------------------------------------------------------------
(* Streaks.                                                                *)

\* The days of the rewards of u in a log.
DaysIn(log, u) ==
    {DayOf(log[i].at) : i \in {j \in DOMAIN log :
        log[j].user = u /\ log[j].type = "DAILY_REWARD"}}

\* A user's row and the days rewarded: the streak reaches back from the last
\* login, which is the last of the days, to a day that was missed.
StreakOK(row, days) ==
    IF row.lastLogin = Never THEN row.streak = 0 /\ days = {}
    ELSE LET last == DayOf(row.lastLogin)
         IN  /\ row.lastLogin \in 0..MaxNow
             /\ row.streak > 0
             /\ \A d \in days : d \in Nat /\ d <= last
             /\ \A d \in (last - row.streak + 1)..last : d \in days
             /\ last - row.streak \notin days

StreakInv ==
    /\ now <= MaxNow
    /\ \A u \in Humans : /\ users[u].lastLogin <= now
                         /\ StreakOK(users[u], RewardedDays(u))

\* No login is granted with a clock reading before that of the last one.
LoginsInOrder == [][\A u \in Humans : users'[u].lastLogin >= users[u].lastLogin]_vars

\* The day of a time is a number no greater than it.
LEMMA DayFacts ==
  ASSUME NEW t \in Nat
  PROVE  DayOf(t) \in Nat /\ DayOf(t) <= t
<1>1. DayLength \in Nat \ {0}
  BY LedgerAssumption
<1>2. (1 * t) \div 1 = t /\ 0 \div DayLength = 0
  BY <1>1
<1>3. DayOf(t) >= 0 /\ DayOf(t) \in Int
  BY <1>1, <1>2, DivMonotone DEF DayOf
<1>4. PICK q : q = DayOf(t) /\ q \in Nat
  BY <1>3
<1>5. DayLength * q <= t
  BY <1>1, <1>4 DEF DayOf
<1>6. q <= DayLength * q
  BY <1>1, <1>4
<1>7. DayLength * q \in Nat
  BY <1>1, <1>4
<1> QED
  BY <1>4, <1>5, <1>6, <1>7

\* A reward's row adds its day to its user's.
LEMMA DaysAppend ==
  ASSUME NEW log \in Seq(TxnRow), NEW t \in TxnRow, NEW u
  PROVE  DaysIn(Append(log, t), u) =
           DaysIn(log, u) \cup (IF t.user = u /\ t.type = "DAILY_REWARD"
                                THEN {DayOf(t.at)} ELSE {})
<1> DEFINE new == Append(log, t)
           n   == Len(log)
<1>1. /\ n \in Nat /\ DOMAIN log = 1..n /\ DOMAIN new = 1..(n + 1)
      /\ new[n + 1] = t
      /\ \A i \in 1..n : new[i] = log[i]
  OBVIOUS
<1> HIDE DEF new, n
<1> DEFINE Own(l) == {j \in DOMAIN l : l[j].user = u /\ l[j].type = "DAILY_REWARD"}
<1>2. Own(new) = Own(log) \cup (IF t.user = u /\ t.type = "DAILY_REWARD"
                                THEN {n + 1} ELSE {})
  BY <1>1
<1>3. \A i \in Own(log) : new[i] = log[i]
  BY <1>1
<1>4. DaysIn(new, u) = {DayOf(new[i].at) : i \in Own(new)}
      /\ DaysIn(log, u) = {DayOf(log[i].at) : i \in Own(log)}
  BY DEF DaysIn
<1> HIDE DEF Own
<1>5. {DayOf(new[i].at) : i \in Own(log)} = {DayOf(log[i].at) : i \in Own(log)}
  BY <1>3
<1>6. CASE t.user = u /\ t.type = "DAILY_REWARD"
  <2>1. {DayOf(new[i].at) : i \in Own(log) \cup {n + 1}}
          = {DayOf(new[i].at) : i \in Own(log)} \cup {DayOf(new[n + 1].at)}
    OBVIOUS
  <2> QED
    BY <1>1, <1>2, <1>4, <1>5, <1>6, <2>1 DEF new
<1>7. CASE ~(t.user = u /\ t.type = "DAILY_REWARD")
  BY <1>2, <1>4, <1>5, <1>7 DEF new
<1> QED
  BY <1>6, <1>7

\* The other rows add none.
LEMMA OtherRowsKeepDays ==
  ASSUME NEW log \in Seq(TxnRow), NEW t \in TxnRow, NEW u, t.type # "DAILY_REWARD"
  PROVE  /\ Append(log, t) \in Seq(TxnRow)
         /\ DaysIn(Append(log, t), u) = DaysIn(log, u)
<1>1. DaysIn(Append(log, t), u) = DaysIn(log, u) \cup {}
  BY DaysAppend
<1>2. Append(log, t) \in Seq(TxnRow)
  OBVIOUS
<1> QED
  BY <1>1, <1>2

\* A reward on a later day than the last one.
LEMMA GrantKeepsStreak ==
  ASSUME NEW row \in UserRow, NEW days, StreakOK(row, days),
         NEW at \in 0..MaxNow, at >= row.lastLogin, ~AlreadyGranted(row.lastLogin, at),
         NEW new \in UserRow, new.lastLogin = at,
         new.streak = NextStreak(row.lastLogin, row.streak, at)
  PROVE  StreakOK(new, days \cup {DayOf(at)})
<1>1. at \in Nat /\ at # Never /\ row.streak \in Nat
  BY LedgerAssumption DEF Never, UserRow
<1>2. PICK D : D = DayOf(at) /\ D \in Nat
  BY <1>1, DayFacts
<1>3. CASE row.lastLogin = Never
  <2>1. new.streak = 1 /\ days = {}
    BY <1>3 DEF NextStreak, StreakOK
  <2>2. D - 1 \notin {D} /\ (D - 1 + 1)..D = {D}
    BY <1>2
  <2> QED
    BY <1>1, <1>2, <2>1, <2>2 DEF StreakOK
<1>4. CASE row.lastLogin # Never
  <2>1. row.lastLogin \in 0..MaxNow /\ row.lastLogin \in Nat
    BY <1>4, LedgerAssumption DEF StreakOK
  <2>2. PICK L : L = DayOf(row.lastLogin) /\ L \in Nat
    BY <2>1, DayFacts
  <2>3. L <= D
    BY <1>1, <1>2, <2>1, <2>2, DivMonotone, LedgerAssumption DEF DayOf
  <2>4. L # D
    BY <1>2, <1>4, <2>2 DEF AlreadyGranted
  <2>5. PICK s \in Nat : s = row.streak /\ s > 0
    BY <1>1, <1>4 DEF StreakOK
  <2>6. /\ \A d \in days : d \in Nat /\ d <= L
        /\ \A d \in (L - s + 1)..L : d \in days
        /\ L - s \notin days
    BY <1>4, <2>2, <2>5 DEF StreakOK
  <2>7. CASE L = D - 1
    <3>1. new.streak = s + 1
      BY <1>2, <1>4, <2>2, <2>5, <2>7 DEF NextStreak
    <3>2. \A d \in (D - (s + 1) + 1)..D : d \in days \cup {D}
      BY <1>2, <2>5, <2>6, <2>7
    <3>3. D - (s + 1) \notin days \cup {D}
      BY <1>2, <2>5, <2>6, <2>7
    <3>4. \A d \in days \cup {D} : d \in Nat /\ d <= D
      BY <1>2, <2>3, <2>2, <2>6
    <3> QED
      BY <1>1, <1>2, <2>5, <3>1, <3>2, <3>3, <3>4 DEF StreakOK
  <2>8. CASE L # D - 1
    <3>1. new.streak = 1
      BY <1>2, <1>4, <2>2, <2>8 DEF NextStreak
    <3>2. \A d \in (D - 1 + 1)..D : d \in days \cup {D}
      BY <1>2
    <3>3. D - 1 \notin days \cup {D}
      BY <1>2, <2>2, <2>3, <2>4, <2>6, <2>8
    <3>4. \A d \in days \cup {D} : d \in Nat /\ d <= D
      BY <1>2, <2>3, <2>2, <2>6
    <3> QED
      BY <1>1, <1>2, <3>1, <3>2, <3>3, <3>4 DEF StreakOK
  <2> QED
    BY <2>7, <2>8
<1> QED
  BY <1>3, <1>4

\* RewardedDays is about the log alone.
LEMMA RewardedDaysIn == \A u : RewardedDays(u) = DaysIn(transactions, u)
  BY DEF RewardedDays, DaysIn

\* What a step does to the logins: nothing, or it grants one.
LEMMA LoginStep ==
  ASSUME TypeOK, [AnySizeNext]_vars, NEW u \in Humans, now <= MaxNow
  PROVE  /\ now <= now' /\ now' <= MaxNow
         /\ \/ users'[u].lastLogin = users[u].lastLogin
               /\ users'[u].streak = users[u].streak
               /\ RewardedDays(u)' = RewardedDays(u)
            \/ \E at \in ClockReadings :
                  /\ ~AlreadyGranted(users[u].lastLogin, at)
                  /\ users'[u].lastLogin = at
                  /\ users'[u].streak = NextStreak(users[u].lastLogin, users[u].streak, at)
                  /\ RewardedDays(u)' = RewardedDays(u) \cup {DayOf(at)}
<1>0. u \in Users /\ now \in Nat /\ MaxNow \in Nat /\ transactions \in Seq(TxnRow)
      /\ users \in [Users -> UserRow]
  BY LedgerAssumption DEF Users, TypeOK
<1> DEFINE Same == /\ users'[u].lastLogin = users[u].lastLogin
                   /\ users'[u].streak = users[u].streak
                   /\ RewardedDays(u)' = RewardedDays(u)
<1>1. CASE UNCHANGED vars
  BY <1>0, <1>1 DEF vars, RewardedDays
<1>2. CASE Tick
  BY <1>0, <1>2 DEF Tick, RewardedDays
<1>3. ASSUME NEW at \in ClockReadings, NEW v \in Users, NEW c \in Cards,
             NEW type \in TradeTypes, NEW n \in Nat \ {0}, ExecuteTrade(v, c, type, n, at)
      PROVE  now' = now /\ Same
  <2>1. PICK trade \in TxnRow, fee \in TxnRow, cost \in Int, charge \in Int :
          TradeLogged(v, c, type, n, at, trade, fee, cost, charge)
    BY <1>3, TradeLog
  <2>2. /\ trade.type # "DAILY_REWARD" /\ fee.type # "DAILY_REWARD"
        /\ users' = [users EXCEPT ![v].balance = @ + (-charge)]
        /\ transactions' = transactions \o <<trade, fee>>
        /\ now' = now
    BY <1>3, <2>1 DEF TradeLogged, TradeTypes, ExecuteTrade
  <2>3. PICK log : log = Append(transactions, trade)
    OBVIOUS
  <2>4. transactions' = Append(log, fee)
    BY <1>0, <2>2, <2>3
  <2>5. log \in Seq(TxnRow) /\ DaysIn(log, u) = DaysIn(transactions, u)
    BY <1>0, <2>2, <2>3, OtherRowsKeepDays
  <2>6. DaysIn(Append(log, fee), u) = DaysIn(log, u)
    BY <2>2, <2>5, OtherRowsKeepDays
  <2>7. users'[u].lastLogin = users[u].lastLogin /\ users'[u].streak = users[u].streak
    BY <1>0, <2>2 DEF UserRow
  <2>8. DaysIn(transactions', u) = DaysIn(transactions, u)
    BY <2>4, <2>5, <2>6
  <2> QED
    BY <2>2, <2>7, <2>8 DEF RewardedDays, DaysIn
<1>4. ASSUME NEW at \in ClockReadings, NEW v \in Humans, NEW c \in Launchable,
             NEW total \in LaunchTotals, NEW percent \in LaunchPercents,
             LaunchCard(v, c, total, percent, at)
      PROVE  now' = now /\ Same
  <2> DEFINE t == Txn(v, c, "CARD_LAUNCH", RetainedShares(total, percent), -LaunchCost,
                      users[v].balance - LaunchCost, at)
  <2>1. /\ v \in Users /\ c \in Cards /\ at \in Nat /\ LaunchCost \in Nat
        /\ users[v] \in UserRow
    BY ClockReadingType, LedgerAssumption DEF Users, Cards, TypeOK
  <2>2. RetainedShares(total, percent) \in Nat
    BY <1>4, PricingAssumption DEF LaunchCard, ValidSupply
  <2>3. /\ users' = [users EXCEPT ![v].balance = @ + (-LaunchCost)]
        /\ transactions' = Append(transactions, t) /\ now' = now
    BY <1>4 DEF LaunchCard, Credit
  <2>4. t \in TxnRow /\ t.type # "DAILY_REWARD"
    BY <2>1, <2>2 DEF Txn, TxnRow, UserRow
  <2> HIDE DEF t
  <2>5. DaysIn(Append(transactions, t), u) = DaysIn(transactions, u)
    BY <1>0, <2>4, OtherRowsKeepDays
  <2>6. users'[u].lastLogin = users[u].lastLogin /\ users'[u].streak = users[u].streak
    BY <1>0, <2>3 DEF UserRow
  <2> QED
    BY <2>3, <2>5, <2>6 DEF RewardedDays, DaysIn
<1>5. ASSUME NEW at \in ClockReadings, NEW v \in Bots, RebalanceBotBalance(v, at)
      PROVE  now' = now /\ Same
  <2> DEFINE delta == BotStartingBalance - users[v].balance
             t     == Txn(v, NoCard, "REBALANCE", 0, delta, users[v].balance + delta, at)
  <2>1. at \in Nat /\ BotStartingBalance \in Nat /\ users[v] \in UserRow /\ v \in Users
    BY ClockReadingType, LedgerAssumption DEF TypeOK, Users
  <2>2. delta \in Int
    BY <2>1 DEF UserRow
  <2>3. /\ users' = [users EXCEPT ![v].balance = @ + delta]
        /\ transactions' = Append(transactions, t) /\ now' = now
    BY <1>5 DEF RebalanceBotBalance, Credit
  <2>4. t \in TxnRow /\ t.type # "DAILY_REWARD"
    BY <2>1, <2>2 DEF Txn, TxnRow, UserRow
  <2> HIDE DEF delta, t
  <2>5. DaysIn(Append(transactions, t), u) = DaysIn(transactions, u)
    BY <1>0, <2>4, OtherRowsKeepDays
  <2>6. users'[u].lastLogin = users[u].lastLogin /\ users'[u].streak = users[u].streak
    BY <1>0, <2>3 DEF UserRow
  <2> QED
    BY <2>3, <2>5, <2>6 DEF RewardedDays, DaysIn
<1>6. ASSUME NEW at \in ClockReadings, NEW v \in Humans, GrantDailyReward(v, at)
      PROVE  /\ now' = now
             /\ \/ Same
                \/ /\ ~AlreadyGranted(users[u].lastLogin, at)
                   /\ users'[u].lastLogin = at
                   /\ users'[u].streak = NextStreak(users[u].lastLogin, users[u].streak, at)
                   /\ RewardedDays(u)' = RewardedDays(u) \cup {DayOf(at)}
  <2> DEFINE t == Txn(v, NoCard, "DAILY_REWARD", 0, DailyRewardAmount,
                      users[v].balance + DailyRewardAmount, at)
  <2>1. at \in Nat /\ DailyRewardAmount \in Nat /\ users[v] \in UserRow /\ v \in Users
    BY ClockReadingType, LedgerAssumption DEF TypeOK, Users
  <2>2. /\ ~AlreadyGranted(users[v].lastLogin, at)
        /\ users' = [users EXCEPT ![v] =
              [balance   |-> users[v].balance + DailyRewardAmount,
               lastLogin |-> at,
               streak    |-> NextStreak(users[v].lastLogin, users[v].streak, at)]]
        /\ transactions' = Append(transactions, t) /\ now' = now
    BY <1>6 DEF GrantDailyReward
  <2>3. t \in TxnRow /\ t.type = "DAILY_REWARD" /\ t.user = v /\ t.at = at
    BY <2>1 DEF Txn, TxnRow, UserRow
  <2> HIDE DEF t
  <2>4. RewardedDays(u)' = DaysIn(Append(transactions, t), u)
    BY <2>2 DEF RewardedDays, DaysIn
  <2>5. DaysIn(Append(transactions, t), u) =
          DaysIn(transactions, u) \cup (IF t.user = u /\ t.type = "DAILY_REWARD"
                                        THEN {DayOf(t.at)} ELSE {})
    BY <1>0, <2>3, DaysAppend
  <2>6. RewardedDays(u) = DaysIn(transactions, u)
    BY RewardedDaysIn
  <2>7. CASE v = u
    BY <1>0, <2>2, <2>3, <2>4, <2>5, <2>6, <2>7
  <2>8. CASE v # u
    BY <1>0, <2>2, <2>3, <2>4, <2>5, <2>6, <2>8
  <2> QED
    BY <2>7, <2>8
<1> QED
  BY <1>0, <1>1, <1>2, <1>3, <1>4, <1>5, <1>6 DEF AnySizeNext

\* The streak counts: a run of days that ends with the last login, and is the
\* longest.
LEMMA StreakIsLongest ==
  ASSUME NEW row \in UserRow, NEW days, StreakOK(row, days), row.lastLogin # Never
  PROVE  LET last == DayOf(row.lastLogin)
             run  == {n \in 1..(MaxNow + 1) : \A d \in (last - n + 1)..last : d \in days}
         IN  run # {} /\ row.streak = Max(run)
<1> DEFINE last == DayOf(row.lastLogin)
           run  == {n \in 1..(MaxNow + 1) : \A d \in (last - n + 1)..last : d \in days}
<1>1. row.lastLogin \in 0..MaxNow /\ MaxNow \in Nat /\ row.lastLogin \in Nat
  BY LedgerAssumption DEF StreakOK
<1>2. PICK L \in Nat : L = last /\ L <= MaxNow
  BY <1>1, DayFacts
<1>3. PICK s \in Nat : s = row.streak /\ s > 0
  BY DEF UserRow, StreakOK
<1>4. /\ \A d \in days : d \in Nat /\ d <= L
      /\ \A d \in (L - s + 1)..L : d \in days
      /\ L - s \notin days
  BY <1>2, <1>3 DEF StreakOK
<1>5. s <= L + 1
  <2>1. SUFFICES ASSUME s > L + 1 PROVE FALSE
    BY <1>2, <1>3
  <2>2. -1 \in (L - s + 1)..L
    BY <1>2, <1>3, <2>1
  <2> QED
    BY <1>4, <2>2
<1>6. s \in run
  BY <1>1, <1>2, <1>3, <1>4, <1>5
<1>7. ASSUME NEW n \in run PROVE n <= s
  <2>1. SUFFICES ASSUME n > s PROVE FALSE
    BY <1>1, <1>3
  <2>2. n \in Int /\ \A d \in (L - n + 1)..L : d \in days
    BY <1>1, <1>2
  <2>3. L - s \in (L - n + 1)..L
    BY <1>2, <1>3, <2>1, <2>2
  <2> QED
    BY <1>4, <2>2, <2>3
<1>8. \A n \in run : n \in Int
  BY <1>1
<1> HIDE DEF run
<1>9. Max(run) \in run /\ \A n \in run : Max(run) >= n
  <2>1. \A n \in run : s >= n
    BY <1>3, <1>7, <1>8
  <2> QED
    BY <1>6, <2>1 DEF Max
<1>10. Max(run) = s
  <2>1. PICK m : m = Max(run)
    OBVIOUS
  <2>2. m \in Int /\ m >= s /\ m <= s
    BY <1>6, <1>7, <1>8, <1>9, <2>1
  <2> QED
    BY <1>3, <2>1, <2>2
<1> QED
  BY <1>3, <1>6, <1>10 DEF run

\* As long as logins are granted in the order of their clock readings, a user's
\* streak is the number of days in a row that the log has a daily reward for.
THEOREM StreaksCountDays == Spec /\ LoginsInOrder => []StreakCountsRewardedDays
<1> DEFINE Ordered == \A u \in Humans : users'[u].lastLogin >= users[u].lastLogin
<1>1. Init => StreakInv
  <2>0. Init => now <= MaxNow
    BY LedgerAssumption DEF Init
  <2> SUFFICES ASSUME Init, NEW u \in Humans
               PROVE  users[u].lastLogin <= now /\ StreakOK(users[u], RewardedDays(u))
    BY <2>0 DEF StreakInv
  <2>1. users[u].lastLogin = Never /\ users[u].streak = 0 /\ now = 0
    BY DEF Init, Users
  <2>2. RewardedDays(u) = {}
    BY DEF Init, RewardedDays
  <2> QED
    BY <2>1, <2>2, LedgerAssumption DEF StreakOK, Never
<1>2. TypeOK /\ TypeOK' /\ StreakInv /\ [AnySizeNext]_vars /\ [Ordered]_vars => StreakInv'
  <2> SUFFICES ASSUME TypeOK, TypeOK', StreakInv, [AnySizeNext]_vars, [Ordered]_vars
               PROVE  StreakInv'
    OBVIOUS
  <2>1. now \in Nat /\ now' \in Nat /\ now <= MaxNow /\ MaxNow \in Nat
    BY LedgerAssumption DEF TypeOK, StreakInv
  <2>2. now' <= MaxNow
    BY <2>1, ClockStep DEF Tick
  <2>3. ASSUME NEW u \in Humans
        PROVE  users'[u].lastLogin <= now' /\ StreakOK(users'[u], RewardedDays(u)')
    <3>1. users[u] \in UserRow /\ users'[u] \in UserRow
      BY DEF TypeOK, Users
    <3>2. users[u].lastLogin <= now /\ StreakOK(users[u], RewardedDays(u))
      BY DEF StreakInv
    <3>3. now <= now'
      BY <2>1, LoginStep
    <3>4. CASE /\ users'[u].lastLogin = users[u].lastLogin
               /\ users'[u].streak = users[u].streak
               /\ RewardedDays(u)' = RewardedDays(u)
      BY <2>1, <3>1, <3>2, <3>3, <3>4 DEF StreakOK, UserRow
    <3>5. ASSUME NEW at \in ClockReadings,
                 ~AlreadyGranted(users[u].lastLogin, at),
                 users'[u].lastLogin = at,
                 users'[u].streak = NextStreak(users[u].lastLogin, users[u].streak, at),
                 RewardedDays(u)' = RewardedDays(u) \cup {DayOf(at)}
          PROVE  users'[u].lastLogin <= now' /\ StreakOK(users'[u], RewardedDays(u)')
      <4>1. at \in Nat /\ at <= now
        BY ClockReadingType
      <4>2. at \in 0..MaxNow
        BY <2>1, <4>1
      <4>3. users'[u].lastLogin >= users[u].lastLogin
        BY <3>1 DEF vars, UserRow
      <4>4. StreakOK(users'[u], RewardedDays(u) \cup {DayOf(at)})
        BY <3>1, <3>2, <3>5, <4>2, <4>3, GrantKeepsStreak
      <4> QED
        BY <2>1, <3>3, <3>5, <4>1, <4>4
    <3> QED
      BY <2>1, <3>4, <3>5, LoginStep
  <2> QED
    BY <2>2, <2>3 DEF StreakInv
<1>3. TypeOK /\ StreakInv => StreakCountsRewardedDays
  <2> SUFFICES ASSUME TypeOK, StreakInv, NEW u \in Humans
               PROVE  LET last == DayOf(users[u].lastLogin)
                          run  == {n \in 1..(MaxNow + 1) :
                                     \A d \in (last - n + 1)..last : d \in RewardedDays(u)}
                      IN  IF users[u].lastLogin = Never THEN users[u].streak = 0
                          ELSE run # {} /\ users[u].streak = Max(run)
    BY DEF StreakCountsRewardedDays
  <2>1. users[u] \in UserRow /\ StreakOK(users[u], RewardedDays(u))
    BY DEF TypeOK, StreakInv, Users
  <2>2. CASE users[u].lastLogin = Never
    BY <2>1, <2>2 DEF StreakOK
  <2>3. CASE users[u].lastLogin # Never
    BY <2>1, <2>3, StreakIsLongest
  <2> QED
    BY <2>2, <2>3
<1> QED
  BY <1>1, <1>2, <1>3, TypeCorrect, StepIsAnySize, PTL DEF Spec, LoginsInOrder

\* With exact clock readings the logins are in order.
COROLLARY StreaksCountDaysOnTime ==
  Spec /\ MaxLag = 0 => []StreakCountsRewardedDays
<1> DEFINE Ordered == \A u \in Humans : users'[u].lastLogin >= users[u].lastLogin
           Past    == /\ MaxLag = 0 /\ now <= MaxNow
                      /\ \A u \in Humans : users[u].lastLogin <= now
<1>1. Init /\ MaxLag = 0 => Past
  BY LedgerAssumption DEF Init, Users, Never
<1>2. TypeOK /\ TypeOK' /\ Past /\ [AnySizeNext]_vars => Past' /\ [Ordered]_vars
  <2> SUFFICES ASSUME TypeOK, TypeOK', Past, [AnySizeNext]_vars PROVE Past' /\ Ordered
    OBVIOUS
  <2>1. now \in Nat /\ now' \in Nat /\ MaxNow \in Nat
    BY LedgerAssumption DEF TypeOK
  <2>2. ClockReadings = {now}
    BY <2>1 DEF ClockReadings
  <2>3. now' <= MaxNow
    BY <2>1, ClockStep DEF Tick
  <2>4. ASSUME NEW u \in Humans
        PROVE  users'[u].lastLogin <= now' /\ users'[u].lastLogin >= users[u].lastLogin
    <3>1. users[u] \in UserRow /\ users'[u] \in UserRow
      BY DEF TypeOK, Users
    <3>2. /\ now <= now'
          /\ \/ users'[u].lastLogin = users[u].lastLogin
             \/ users'[u].lastLogin = now
      BY <2>2, LoginStep
    <3>3. users[u].lastLogin <= now
      OBVIOUS
    <3> QED
      BY <2>1, <3>1, <3>2, <3>3 DEF UserRow
  <2> QED
    BY <2>3, <2>4
<1> QED
  BY <1>1, <1>2, TypeCorrect, StreaksCountDays, StepIsAnySize, PTL DEF Spec, LoginsInOrder

-----------------------------------------------------------------------------
(* The fees of reversals.                                                  *)

\* ReversalPaysFivefold of a log.
TradesIn(log, u, c) ==
    {i \in DOMAIN log : log[i].user = u /\ log[i].card = c /\ log[i].type \in TradeTypes}

Previous(log, i, j) ==
    /\ i < j
    /\ {i, j} \subseteq TradesIn(log, log[i].user, log[i].card)
    /\ \A k \in TradesIn(log, log[i].user, log[i].card) : k <= i \/ k >= j

FeeAfter(before, after) ==
    -ComputeFee(after.delta)
        * (IF after.type # before.type /\ after.at - before.at < WashTradeWindow
           THEN 5 ELSE 1)

Fivefold(log) ==
    \A i, j \in DOMAIN log :
        Previous(log, i, j) => log[j + 1].delta = FeeAfter(log[i], log[j])

\* A trade's row is followed by its fee's.
FeesFollow(log) ==
    \A j \in DOMAIN log : log[j].type \in TradeTypes => j + 1 \in DOMAIN log

\* The log has the trades of a user on a card in the order of their clock readings.
TradesInOrder ==
    \A i, j \in DOMAIN transactions :
        /\ i <= j
        /\ i \in TradeRows(transactions[j].user, transactions[j].card)
        /\ transactions[j].type \in TradeTypes
        => transactions[i].at <= transactions[j].at

\* ReversalPaysFivefold is about the log alone.
LEMMA FivefoldIs == ReversalPaysFivefold <=> Fivefold(transactions)
  BY DEF ReversalPaysFivefold, Fivefold, PreviousTrade, Previous, TradeRows, TradesIn, FeeAfter

\* A row of no trade leaves the trades and their fees as they are.
LEMMA PlainRowKeepsFees ==
  ASSUME NEW log \in Seq(TxnRow), NEW t \in TxnRow, t.type \notin TradeTypes,
         Fivefold(log), FeesFollow(log)
  PROVE  Fivefold(Append(log, t)) /\ FeesFollow(Append(log, t))
<1> DEFINE new == Append(log, t)
           n   == Len(log)
<1>1. /\ n \in Nat /\ DOMAIN log = 1..n /\ DOMAIN new = 1..(n + 1)
      /\ new[n + 1] = t
      /\ \A i \in 1..n : new[i] = log[i]
  OBVIOUS
<1> HIDE DEF new, n
<1>2. \A u, c : TradesIn(new, u, c) = TradesIn(log, u, c)
  BY <1>1 DEF TradesIn
<1>3. FeesFollow(new)
  BY <1>1 DEF FeesFollow
<1>4. ASSUME NEW i \in DOMAIN new, NEW j \in DOMAIN new, Previous(new, i, j)
      PROVE  new[j + 1].delta = FeeAfter(new[i], new[j])
  <2>1. {i, j} \subseteq TradesIn(log, new[i].user, new[i].card)
    BY <1>2, <1>4 DEF Previous
  <2>2. i \in 1..n /\ j \in 1..n /\ new[i] = log[i] /\ new[j] = log[j]
        /\ log[j].type \in TradeTypes
    BY <1>1, <2>1 DEF TradesIn
  <2>3. j + 1 \in 1..n /\ new[j + 1] = log[j + 1]
    BY <1>1, <2>2 DEF FeesFollow
  <2>4. Previous(log, i, j)
    BY <1>2, <1>4, <2>2 DEF Previous
  <2>5. log[j + 1].delta = FeeAfter(log[i], log[j])
    BY <1>1, <2>2, <2>4 DEF Fivefold
  <2> QED
    BY <2>2, <2>3, <2>5
<1> QED
  BY <1>3, <1>4 DEF Fivefold, new

\* A trade's two rows keep the fees right when its own is, by the latest trade of
\* the same user and card.
LEMMA TradeRowsKeepFees ==
  ASSUME NEW log \in Seq(TxnRow), NEW t \in TxnRow, NEW f \in TxnRow,
         t.type \in TradeTypes, f.type = "FEE",
         \A i \in TradesIn(log, t.user, t.card) :
             (\A k \in TradesIn(log, t.user, t.card) : k <= i) => f.delta = FeeAfter(log[i], t),
         Fivefold(log), FeesFollow(log)
  PROVE  Fivefold(log \o <<t, f>>) /\ FeesFollow(log \o <<t, f>>)
<1> DEFINE new == log \o <<t, f>>
           n   == Len(log)
<1>1. /\ n \in Nat /\ DOMAIN log = 1..n /\ DOMAIN new = 1..(n + 2)
      /\ new[n + 1] = t /\ new[n + 2] = f
      /\ \A i \in 1..n : new[i] = log[i]
  OBVIOUS
<1> HIDE DEF new, n
<1>2. f.type \notin TradeTypes
  BY DEF TradeTypes
<1>3. \A u, c : TradesIn(new, u, c) =
                  TradesIn(log, u, c) \cup (IF t.user = u /\ t.card = c THEN {n + 1} ELSE {})
  BY <1>1, <1>2 DEF TradesIn
<1>4. FeesFollow(new)
  BY <1>1, <1>2 DEF FeesFollow
<1>5. ASSUME NEW i \in DOMAIN new, NEW j \in DOMAIN new, Previous(new, i, j)
      PROVE  new[j + 1].delta = FeeAfter(new[i], new[j])
  <2>1. i < j /\ {i, j} \subseteq TradesIn(new, new[i].user, new[i].card)
        /\ \A k \in TradesIn(new, new[i].user, new[i].card) : k <= i \/ k >= j
    BY <1>5 DEF Previous
  <2>2. i \in 1..(n + 1) /\ j \in 1..(n + 1)
    BY <1>1, <1>2, <1>3, <2>1 DEF TradesIn
  <2>3. i \in 1..n /\ new[i] = log[i]
    BY <1>1, <2>1, <2>2
  <2>4. CASE j = n + 1
    <3>1. new[j] = t /\ t.user = log[i].user /\ t.card = log[i].card /\ new[j + 1] = f
      BY <1>1, <2>1, <2>3, <2>4 DEF TradesIn
    <3>2. i \in TradesIn(log, t.user, t.card)
      BY <1>1, <1>3, <2>1, <2>3, <3>1
    <3>3. \A k \in TradesIn(log, t.user, t.card) : k <= i
      <4> SUFFICES ASSUME NEW k \in TradesIn(log, t.user, t.card) PROVE k <= i
        OBVIOUS
      <4>1. k \in TradesIn(new, new[i].user, new[i].card)
        BY <1>3, <2>3, <3>1
      <4>2. k \in 1..n
        BY <1>1 DEF TradesIn
      <4> QED
        BY <1>1, <2>1, <2>4, <4>1, <4>2
    <3> QED
      BY <2>3, <3>1, <3>2, <3>3
  <2>5. CASE j # n + 1
    <3>1. j \in 1..n /\ new[j] = log[j]
      BY <1>1, <2>2, <2>5
    <3>2. {i, j} \subseteq TradesIn(log, log[i].user, log[i].card)
      BY <1>1, <1>3, <2>1, <2>3, <3>1
    <3>3. \A k \in TradesIn(log, log[i].user, log[i].card) : k <= i \/ k >= j
      BY <1>3, <2>1, <2>3
    <3>4. log[j + 1].delta = FeeAfter(log[i], log[j])
      BY <1>1, <2>1, <2>3, <3>1, <3>2, <3>3 DEF Fivefold, Previous
    <3>5. j + 1 \in 1..n /\ new[j + 1] = log[j + 1]
      BY <1>1, <3>1, <3>2 DEF FeesFollow, TradesIn
    <3> QED
      BY <2>3, <3>1, <3>4, <3>5
  <2> QED
    BY <2>4, <2>5
<1> QED
  BY <1>4, <1>5 DEF Fivefold, new

\* In order, the last trade in the log is the latest by its time.
LEMMA LastIsLatest ==
  ASSUME TypeOK, TradesInOrder, NEW u \in Users, NEW c \in Cards,
         NEW i \in TradeRows(u, c), \A k \in TradeRows(u, c) : k <= i
  PROVE  LastTrade(u, c) = [type |-> transactions[i].type, at |-> transactions[i].at]
<1>1. /\ transactions \in Seq(TxnRow)
      /\ TradeRows(u, c) \subseteq DOMAIN transactions
      /\ \A k \in TradeRows(u, c) :
            /\ k \in Int /\ transactions[k].at \in Int
            /\ transactions[k].user = u /\ transactions[k].card = c
            /\ transactions[k].type \in TradeTypes
  <2>1. transactions \in Seq(TxnRow)
    BY DEF TypeOK
  <2>2. \A k \in DOMAIN transactions : k \in Int /\ transactions[k] \in TxnRow
    BY <2>1
  <2>3. \A k \in DOMAIN transactions : transactions[k].at \in Int
    BY <2>2 DEF TxnRow
  <2> QED
    BY <2>1, <2>2, <2>3 DEF TradeRows
<1>2. PICK rows : rows = TradesOf(u, c)
  OBVIOUS
<1>3. DOMAIN rows = TradeRows(u, c) /\ \A k \in TradeRows(u, c) : rows[k] = transactions[k]
  BY <1>2 DEF TradesOf
<1>4. \A k \in DOMAIN rows : LaterRow(rows, i, k)
  <2> SUFFICES ASSUME NEW k \in TradeRows(u, c) PROVE LaterRow(rows, i, k)
    BY <1>3
  <2>1. k <= i /\ transactions[k].at <= transactions[i].at
    BY <1>1 DEF TradesInOrder
  <2> QED
    BY <1>1, <1>3, <2>1 DEF LaterRow
<1>5. PICK m : m = LatestOf(rows)
  OBVIOUS
<1>6. m \in TradeRows(u, c) /\ LaterRow(rows, m, i)
  BY <1>3, <1>4, <1>5 DEF LatestOf
<1>7. m = i
  <2>1. m <= i /\ transactions[m].at <= transactions[i].at
    BY <1>1, <1>6 DEF TradesInOrder
  <2> QED
    BY <1>1, <1>3, <1>6, <2>1 DEF LaterRow
<1>8. TypeAndTime(rows) = [type |-> rows[m].type, at |-> rows[m].at]
  BY <1>3, <1>5 DEF TypeAndTime
<1> QED
  BY <1>2, <1>3, <1>7, <1>8 DEF LastTrade

\* A trade is charged by the trade that the log has before it.
LEMMA TradeKeepsFees ==
  ASSUME TypeOK, TradesInOrder, Fivefold(transactions), FeesFollow(transactions),
         NEW u \in Users, NEW c \in Cards, NEW type \in TradeTypes,
         NEW n \in Nat \ {0}, NEW at \in ClockReadings, ExecuteTrade(u, c, type, n, at)
  PROVE  Fivefold(transactions') /\ FeesFollow(transactions')
<1>1. at \in Int
  BY ClockReadingType
<1>2. PICK last : last = LastTrade(u, c)
  OBVIOUS
<1>3. PICK trade \in TxnRow, fee \in TxnRow, cost \in Int, charge \in Int :
         TradeLogged(u, c, type, n, at, trade, fee, cost, charge)
  BY TradeLog
<1>4. /\ charge = cost + ComputeFee(cost) * WashTradeMultiplier(last, type, at)
      /\ trade.user = u /\ trade.card = c /\ trade.type = type /\ trade.at = at
      /\ trade.delta = -cost
      /\ fee.type = "FEE" /\ fee.delta = cost - charge
      /\ transactions' = transactions \o <<trade, fee>>
  BY <1>2, <1>3 DEF TradeLogged
<1>5. ComputeFee(-cost) = ComputeFee(cost)
  <2>1. Abs(-cost) = Abs(cost)
    BY DEF Abs
  <2> QED
    BY <2>1 DEF ComputeFee
<1>6. ComputeFee(cost) \in Int
  <2>1. Abs(cost) \in Int
    BY DEF Abs
  <2> QED
    BY <2>1, RoundDivBounds DEF ComputeFee, MinFee
<1>7. ASSUME NEW i \in TradesIn(transactions, u, c),
             \A k \in TradesIn(transactions, u, c) : k <= i
      PROVE  fee.delta = FeeAfter(transactions[i], trade)
  <2>1. i \in TradeRows(u, c) /\ \A k \in TradeRows(u, c) : k <= i
    BY <1>7 DEF TradeRows, TradesIn
  <2>2. last = [type |-> transactions[i].type, at |-> transactions[i].at]
    BY <1>2, <2>1, LastIsLatest
  <2>3. PICK b, s : b = transactions[i].type /\ s = transactions[i].at
    OBVIOUS
  <2>4. b \in TradeTypes /\ s \in Int /\ at \in Int
    <3>1. i \in DOMAIN transactions /\ b \in TradeTypes
      BY <2>1, <2>3 DEF TradeRows
    <3>2. transactions[i] \in TxnRow
      BY <3>1 DEF TypeOK
    <3> QED
      BY <1>1, <2>3, <3>1, <3>2 DEF TxnRow
  <2>5. last # NoTrade /\ last.type = b /\ last.at = s
    BY <2>2, <2>3, <2>4 DEF NoTrade, TradeTypes
  <2>6. WashTradeMultiplier(last, type, at) =
          IF type # b /\ at - s < WashTradeWindow THEN 5 ELSE 1
    BY <2>4, <2>5, GuardsAssumption DEF WashTradeMultiplier
  <2>7. PICK m \in {1, 5} : m = WashTradeMultiplier(last, type, at)
    BY <2>6
  <2>8. PICK p \in Int : p = ComputeFee(cost)
    BY <1>6
  <2>9. fee.delta = -p * m
    BY <1>4, <2>7, <2>8
  <2>10. FeeAfter(transactions[i], trade) = -p * m
    BY <1>4, <1>5, <2>3, <2>6, <2>7, <2>8 DEF FeeAfter
  <2> QED
    BY <2>9, <2>10
<1>8. transactions \in Seq(TxnRow)
  BY DEF TypeOK
<1>9. Fivefold(transactions \o <<trade, fee>>) /\ FeesFollow(transactions \o <<trade, fee>>)
  BY <1>4, <1>7, <1>8, TradeRowsKeepFees
<1> QED
  BY <1>4, <1>9

\* As long as the trades of a user on a card are committed in the order of their
\* clock readings, reversing the last one within the window costs five times the
\* fee, and any other trade the plain fee.
THEOREM ReversalsPay == Spec /\ []TradesInOrder => []ReversalPaysFivefold
<1> DEFINE Inv == Fivefold(transactions) /\ FeesFollow(transactions)
<1>1. Init => Inv
  BY DEF Init, Fivefold, FeesFollow
<1>2. TypeOK /\ TradesInOrder /\ Inv /\ [AnySizeNext]_vars => Inv'
  <2> SUFFICES ASSUME TypeOK, TradesInOrder, Inv, [AnySizeNext]_vars
               PROVE  Inv'
    OBVIOUS
  <2>1. CASE transactions' = transactions
    BY <2>1
  <2>2. ASSUME NEW t \in TxnRow, t.type \notin TradeTypes,
               transactions' = Append(transactions, t)
        PROVE  Inv'
    <3>1. transactions \in Seq(TxnRow)
      BY DEF TypeOK
    <3>2. Fivefold(Append(transactions, t)) /\ FeesFollow(Append(transactions, t))
      BY <2>2, <3>1, PlainRowKeepsFees
    <3> QED
      BY <2>2, <3>2
  <2> QED
    BY <2>1, <2>2, LogStep, TradeKeepsFees
<1> QED
  BY <1>1, <1>2, FivefoldIs, TypeCorrect, StepIsAnySize, PTL DEF Spec

\* A log in the order of its rows' times, none of them after t.
InOrder(log, t) ==
    /\ \A i \in DOMAIN log : log[i].at <= t
    /\ \A i, j \in DOMAIN log : i <= j => log[i].at <= log[j].at

\* A row no older than the others keeps the log in order.
LEMMA AppendInOrder ==
  ASSUME NEW log \in Seq(TxnRow), NEW row \in TxnRow, InOrder(log, row.at)
  PROVE  Append(log, row) \in Seq(TxnRow) /\ InOrder(Append(log, row), row.at)
<1> DEFINE new == Append(log, row)
           n   == Len(log)
<1>1. /\ n \in Nat /\ DOMAIN log = 1..n /\ DOMAIN new = 1..(n + 1)
      /\ new[n + 1] = row /\ new \in Seq(TxnRow)
      /\ \A i \in 1..n : new[i] = log[i]
  OBVIOUS
<1>2. row.at \in Nat
  BY DEF TxnRow
<1> HIDE DEF new, n
<1>3. InOrder(new, row.at)
  BY <1>1, <1>2 DEF InOrder
<1> QED
  BY <1>1, <1>3 DEF new

\* With exact clock readings the trades are in order.
COROLLARY ReversalsPayOnTime == Spec /\ MaxLag = 0 => []ReversalPaysFivefold
<1> DEFINE Inv == MaxLag = 0 /\ InOrder(transactions, now)
<1>1. Init /\ MaxLag = 0 => Inv
  BY DEF Init, InOrder
<1>2. TypeOK /\ Inv /\ [AnySizeNext]_vars => Inv'
  <2> SUFFICES ASSUME TypeOK, Inv, [AnySizeNext]_vars PROVE Inv'
    OBVIOUS
  <2>1. now \in Nat /\ transactions \in Seq(TxnRow)
    BY DEF TypeOK
  <2>2. ClockReadings = {now}
    BY <2>1 DEF ClockReadings
  <2>3. \A i \in DOMAIN transactions : transactions[i].at \in Int
    <3>1. \A i \in DOMAIN transactions : transactions[i] \in TxnRow
      BY <2>1
    <3> QED
      BY <3>1 DEF TxnRow
  <2>4. CASE UNCHANGED vars \/ Tick
    BY <2>1, <2>3, <2>4 DEF vars, Tick, InOrder
  <2>5. CASE ~(UNCHANGED vars \/ Tick)
    <3>0. UNCHANGED now
      BY <2>5, ClockStep
    <3>1. CASE transactions' = transactions
      BY <3>0, <3>1
    <3>2. ASSUME NEW t \in TxnRow, t.at \in ClockReadings,
                 transactions' = Append(transactions, t)
          PROVE  Inv'
      <4>1. t.at = now
        BY <2>2, <3>2
      <4>2. InOrder(Append(transactions, t), t.at)
        BY <2>1, <4>1, AppendInOrder
      <4> QED
        BY <3>0, <3>2, <4>1, <4>2
    <3>3. ASSUME NEW at \in ClockReadings, NEW u \in Users, NEW c \in Cards,
                 NEW type \in TradeTypes, NEW n \in Nat \ {0}, ExecuteTrade(u, c, type, n, at)
          PROVE  Inv'
      <4>0. PICK t \in TxnRow, f \in TxnRow, cost \in Int, charge \in Int :
              TradeLogged(u, c, type, n, at, t, f, cost, charge)
        BY <3>3, TradeLog
      <4>1. t.at = now /\ f.at = now /\ transactions' = transactions \o <<t, f>>
        BY <2>2, <4>0 DEF TradeLogged
      <4>2. PICK log : log = Append(transactions, t)
        OBVIOUS
      <4>3. log \in Seq(TxnRow) /\ InOrder(log, f.at)
        BY <2>1, <4>1, <4>2, AppendInOrder
      <4>4. InOrder(Append(log, f), f.at)
        BY <4>3, AppendInOrder
      <4>5. transactions' = Append(log, f)
        BY <2>1, <4>1, <4>2
      <4> QED
        BY <3>0, <4>1, <4>4, <4>5
    <3> QED
      BY <3>1, <3>2, <3>3, LogStep
  <2> QED
    BY <2>4, <2>5
<1>3. TypeOK /\ Inv => TradesInOrder
  BY DEF InOrder, TradesInOrder, TradeRows
<1> QED
  BY <1>1, <1>2, <1>3, TypeCorrect, ReversalsPay, StepIsAnySize, PTL DEF Spec

-----------------------------------------------------------------------------
(* The cost basis.                                                         *)

\* The rows of a log of the given types, of one user and card.
RowsWith(log, u, c, types) ==
    {i \in DOMAIN log : log[i].user = u /\ log[i].card = c /\ log[i].type \in types}

\* A position's cost basis by a log: the error is at most half a unit for every
\* share and purchase.
CostTracked(log, u, c, held) ==
    RowsWith(log, u, c, {"SELL", "CARD_LAUNCH"}) = {} =>
        2 * Abs(held.shares * held.avgCost + SumOf(log, RowsWith(log, u, c, {"BUY", "FEE"})))
            <= held.shares * Cardinality(RowsWith(log, u, c, {"BUY"}))

CostInv ==
    \A u \in Users, c \in Cards :
        SeedHolding(u, c) = NoHolding => CostTracked(transactions, u, c, holdings[u][c])

\* A row that is added is found by its user, card and type.
LEMMA RowsWithAppend ==
  ASSUME NEW log \in Seq(TxnRow), NEW t \in TxnRow, NEW u, NEW c, NEW types
  PROVE  /\ RowsWith(log, u, c, types) \subseteq DOMAIN log
         /\ RowsWith(Append(log, t), u, c, types) =
              RowsWith(log, u, c, types)
                \cup (IF t.user = u /\ t.card = c /\ t.type \in types
                      THEN {Len(log) + 1} ELSE {})
<1> DEFINE new == Append(log, t)
           n   == Len(log)
<1>1. /\ n \in Nat /\ DOMAIN log = 1..n /\ DOMAIN new = 1..(n + 1)
      /\ new[n + 1] = t
      /\ \A i \in 1..n : new[i] = log[i]
  BY AppendFacts
<1> HIDE DEF new, n
<1>2. RowsWith(new, u, c, types) =
        RowsWith(log, u, c, types)
          \cup (IF t.user = u /\ t.card = c /\ t.type \in types THEN {n + 1} ELSE {})
  BY <1>1 DEF RowsWith
<1> QED
  BY <1>2 DEF RowsWith, new, n

\* A row of another position, and one that is no purchase.
LEMMA OtherRowKeepsCost ==
  ASSUME NEW log \in Seq(TxnRow), NEW t \in TxnRow, NEW u, NEW c, NEW held,
         CostTracked(log, u, c, held),
         t.user # u \/ t.card # c \/ t.type \notin {"BUY", "FEE"}
  PROVE  /\ Append(log, t) \in Seq(TxnRow)
         /\ CostTracked(Append(log, t), u, c, held)
<1>1. PICK new : new = Append(log, t)
  OBVIOUS
<1>2. new \in Seq(TxnRow)
  BY <1>1
<1>3. CASE t.user = u /\ t.card = c /\ t.type \in {"SELL", "CARD_LAUNCH"}
  <2>1. Len(log) + 1 \in RowsWith(new, u, c, {"SELL", "CARD_LAUNCH"})
    BY <1>1, <1>3, RowsWithAppend
  <2> QED
    BY <1>1, <1>2, <2>1 DEF CostTracked
<1>4. CASE ~(t.user = u /\ t.card = c /\ t.type \in {"SELL", "CARD_LAUNCH"})
  <2>1. /\ RowsWith(new, u, c, {"SELL", "CARD_LAUNCH"})
              = RowsWith(log, u, c, {"SELL", "CARD_LAUNCH"})
        /\ RowsWith(new, u, c, {"BUY", "FEE"}) = RowsWith(log, u, c, {"BUY", "FEE"})
        /\ RowsWith(new, u, c, {"BUY"}) = RowsWith(log, u, c, {"BUY"})
    <3> DEFINE Match(types) == t.user = u /\ t.card = c /\ t.type \in types
    <3>1. ~Match({"SELL", "CARD_LAUNCH"}) /\ ~Match({"BUY", "FEE"}) /\ ~Match({"BUY"})
      BY <1>4
    <3>2. ASSUME NEW types, ~Match(types)
          PROVE  RowsWith(new, u, c, types) = RowsWith(log, u, c, types)
      <4>1. RowsWith(Append(log, t), u, c, types) =
              RowsWith(log, u, c, types) \cup (IF Match(types) THEN {Len(log) + 1} ELSE {})
        BY RowsWithAppend
      <4> HIDE DEF Match
      <4> QED
        BY <1>1, <3>2, <4>1
    <3> QED
      BY <3>1, <3>2
  <2>2. PICK rows : rows = RowsWith(log, u, c, {"BUY", "FEE"})
    OBVIOUS
  <2>3. SumOf(new, rows) = SumOf(log, rows)
    <3>1. rows \subseteq DOMAIN log
      BY <2>2 DEF RowsWith
    <3> QED
      BY <1>1, <3>1, SumOfOld
  <2> QED
    BY <1>1, <1>2, <2>1, <2>2, <2>3 DEF CostTracked
<1> QED
  BY <1>3, <1>4

\* Rounding to whole units is off by at most half a unit, whatever the divisor.
LEMMA RoundDivError ==
  ASSUME NEW a \in Int, NEW d \in Nat \ {0}
  PROVE  /\ RoundDiv(a, d) \in Int
         /\ 2 * (d * RoundDiv(a, d)) - 2 * a <= d
         /\ 2 * a - 2 * (d * RoundDiv(a, d)) <= d
<1>1. PICK p \in Nat \ {0} : p = 2 * d
  OBVIOUS
<1>2. CASE a >= 0
  <2>1. PICK b \in Nat : b = 2 * a + d
    BY <1>2
  <2>2. PICK q \in Int : q = b \div p
    OBVIOUS
  <2>3. p * q <= b /\ b < p * q + p
    BY <2>2
  <2>4. p * q = 2 * (d * q)
    BY <1>1
  <2>5. RoundDiv(a, d) = q
    BY <1>1, <1>2, <2>1, <2>2 DEF RoundDiv
  <2>6. PICK e \in Int : e = d * q
    OBVIOUS
  <2>7. 2 * e - 2 * a <= d /\ 2 * a - 2 * e <= d
    BY <1>1, <2>1, <2>3, <2>4, <2>6
  <2> QED
    BY <2>5, <2>6, <2>7
<1>3. CASE a < 0
  <2>1. PICK b \in Nat : b = d - 2 * a
    BY <1>3
  <2>2. PICK q \in Int : q = b \div p
    OBVIOUS
  <2>3. p * q <= b /\ b < p * q + p
    BY <2>2
  <2>4. p * q = 2 * (d * q) /\ d * (-q) = -(d * q)
    BY <1>1
  <2>5. RoundDiv(a, d) = -q
    BY <1>1, <1>3, <2>1, <2>2 DEF RoundDiv
  <2>6. PICK e \in Int : e = d * q
    OBVIOUS
  <2>7. 2 * (-e) - 2 * a <= d /\ 2 * a - 2 * (-e) <= d
    BY <1>1, <2>1, <2>3, <2>4, <2>6
  <2> QED
    BY <2>4, <2>5, <2>6, <2>7
<1> QED
  BY <1>2, <1>3

\* A purchase of n shares adds half a unit a share to the error.
LEMMA PurchaseError ==
  ASSUME NEW h \in Nat, NEW avg \in Int, NEW n \in Nat \ {0}, NEW charge \in Int,
         NEW s \in Int, NEW k \in Nat, 2 * Abs(h * avg + s) <= h * k
  PROVE  2 * Abs((h + n) * RoundDiv(h * avg + charge, h + n) + (s - charge))
           <= (h + n) * (k + 1)
<1>1. PICK d \in Nat \ {0} : d = h + n
  OBVIOUS
<1>2. PICK v \in Int : v = h * avg
  OBVIOUS
<1>3. PICK a \in Int : a = v + charge
  OBVIOUS
<1>4. PICK r \in Int : r = RoundDiv(a, d)
  BY RoundDivError
<1>5. PICK e \in Int : e = d * r
  OBVIOUS
<1>6. 2 * e - 2 * a <= d /\ 2 * a - 2 * e <= d
  BY <1>4, <1>5, RoundDivError
<1>7. PICK m \in Int : m = h * k
  OBVIOUS
<1>8. 2 * (v + s) <= m /\ -(2 * (v + s)) <= m
  BY <1>2, <1>7 DEF Abs
<1>9. 2 * (e + (s - charge)) <= m + d /\ -(2 * (e + (s - charge))) <= m + d
  BY <1>3, <1>6, <1>8
<1>10. m + d <= d * (k + 1)
  <2>1. PICK x \in Nat : x = n * k
    OBVIOUS
  <2>2. d * (k + 1) = m + x + d
    BY <1>1, <1>7, <2>1
  <2> QED
    BY <2>1, <2>2
<1>11. PICK z \in Int : z = d * (k + 1)
  OBVIOUS
<1>12. 2 * Abs(e + (s - charge)) <= z
  BY <1>9, <1>10, <1>11 DEF Abs
<1> QED
  BY <1>1, <1>2, <1>3, <1>4, <1>5, <1>11, <1>12

\* A purchase adds its charge to the cost of the position, and at most half a unit
\* per share to the error: the new average is rounded once.
LEMMA PurchaseKeepsCost ==
  ASSUME NEW log \in Seq(TxnRow), NEW t \in TxnRow, NEW f \in TxnRow,
         NEW u, NEW c, NEW held \in HoldingRow, CostTracked(log, u, c, held),
         NEW n \in Nat \ {0}, NEW cost \in Int, NEW charge \in Int, NEW next \in HoldingRow,
         t.user = u, t.card = c, t.type = "BUY", t.delta = -cost,
         f.user = u, f.card = c, f.type = "FEE", f.delta = cost - charge,
         next.shares = held.shares + n,
         next.avgCost = RoundDiv(held.shares * held.avgCost + charge, held.shares + n)
  PROVE  CostTracked(Append(Append(log, t), f), u, c, next)
<1>1. PICK half : half = Append(log, t)
  OBVIOUS
<1>2. PICK new : new = Append(half, f)
  OBVIOUS
<1>3. half \in Seq(TxnRow)
  BY <1>1
<1>4. PICK buys, paid, x, y :
        /\ buys = RowsWith(log, u, c, {"BUY"}) /\ paid = RowsWith(log, u, c, {"BUY", "FEE"})
        /\ x = Len(log) + 1 /\ y = Len(half) + 1
  OBVIOUS
<1>5. buys \subseteq DOMAIN log /\ paid \subseteq DOMAIN log
  BY <1>4 DEF RowsWith
<1>6. RowsWith(half, u, c, {"BUY"}) = buys \cup {x}
  BY <1>1, <1>4, RowsWithAppend
<1>7. RowsWith(half, u, c, {"BUY", "FEE"}) = paid \cup {x}
  BY <1>1, <1>4, RowsWithAppend
<1>8. RowsWith(new, u, c, {"BUY"}) = buys \cup {x}
  BY <1>2, <1>3, <1>6, RowsWithAppend
<1>9. RowsWith(new, u, c, {"BUY", "FEE"}) = (paid \cup {x}) \cup {y}
  BY <1>2, <1>3, <1>4, <1>7, RowsWithAppend
<1>10. PICK s \in Int : s = SumOf(log, paid)
  BY <1>5, SumOfOld
<1>11. SumOf(half, paid \cup {x}) = s + t.delta
  BY <1>1, <1>4, <1>5, <1>10, SumOfNew
<1>12. SumOf(new, (paid \cup {x}) \cup {y}) = SumOf(half, paid \cup {x}) + f.delta
  <2>1. PICK rows : rows = paid \cup {x}
    OBVIOUS
  <2>2. rows \subseteq DOMAIN half
    BY <1>7, <2>1 DEF RowsWith
  <2>3. SumOf(Append(half, f), rows \cup {Len(half) + 1}) = SumOf(half, rows) + f.delta
    BY <1>3, <2>2, SumOfNew
  <2> QED
    BY <1>2, <1>4, <2>1, <2>3
<1>13. SumOf(new, RowsWith(new, u, c, {"BUY", "FEE"})) = s - charge
  <2>1. (s + (-cost)) + (cost - charge) = s - charge
    OBVIOUS
  <2> QED
    BY <1>9, <1>11, <1>12, <2>1
<1>14. IsFiniteSet(buys)
  BY <1>5, SumOfOld
<1>15. PICK k \in Nat : k = Cardinality(buys)
  BY <1>14, FS_CardinalityType
<1>16. Cardinality(buys \cup {x}) = k + 1
  <2>1. x \notin buys
    BY <1>4, <1>5, AppendFacts
  <2> QED
    BY <1>14, <1>15, <2>1, FS_AddElement
<1>17. ASSUME RowsWith(new, u, c, {"SELL", "CARD_LAUNCH"}) = {}
       PROVE  2 * Abs(next.shares * next.avgCost + (s - charge)) <= next.shares * (k + 1)
  <2>1. RowsWith(half, u, c, {"SELL", "CARD_LAUNCH"}) = {}
    BY <1>2, <1>3, <1>17, RowsWithAppend
  <2>2. RowsWith(log, u, c, {"SELL", "CARD_LAUNCH"}) = {}
    BY <1>1, <2>1, RowsWithAppend
  <2>3. PICK h \in Nat, avg \in Int : h = held.shares /\ avg = held.avgCost
    BY DEF HoldingRow
  <2>4. 2 * Abs(h * avg + s) <= h * k
    BY <1>4, <1>10, <1>15, <2>2, <2>3 DEF CostTracked
  <2>5. 2 * Abs((h + n) * RoundDiv(h * avg + charge, h + n) + (s - charge))
          <= (h + n) * (k + 1)
    BY <2>4, PurchaseError
  <2> QED
    BY <2>3, <2>5
<1> QED
  BY <1>1, <1>2, <1>8, <1>13, <1>16, <1>17 DEF CostTracked

\* An empty log and no shares have no cost.
LEMMA InitCost == Init => CostInv
<1> SUFFICES ASSUME Init, NEW u \in Users, NEW c \in Cards, SeedHolding(u, c) = NoHolding
             PROVE  CostTracked(<<>>, u, c, holdings[u][c])
  BY DEF Init, CostInv
<1>1. holdings[u][c].shares = 0 /\ holdings[u][c].avgCost = 0
  BY DEF Init, NoHolding
<1>2. \A types : RowsWith(<<>>, u, c, types) = {}
  BY DEF RowsWith
<1>3. SumOf(<<>>, RowsWith(<<>>, u, c, {"BUY", "FEE"})) = 0
  BY <1>2, SumEmpty DEF SumOf
<1>4. Cardinality(RowsWith(<<>>, u, c, {"BUY"})) = 0
  BY <1>2, FS_EmptySet
<1> QED
  BY <1>1, <1>3, <1>4 DEF CostTracked, Abs

\* A trade: a purchase, or a sale, of which the property then says nothing.
LEMMA TradeKeepsCost ==
  ASSUME TypeOK, CostInv, NEW u \in Users, NEW c \in Cards, NEW type \in TradeTypes,
         NEW n \in Nat \ {0}, NEW at \in ClockReadings, ExecuteTrade(u, c, type, n, at)
  PROVE  CostInv'
<1>1. PICK t \in TxnRow, f \in TxnRow, cost \in Int, charge \in Int :
        TradeLogged(u, c, type, n, at, t, f, cost, charge)
  BY TradeLog
<1>2. /\ t.user = u /\ t.card = c /\ t.type = type /\ t.delta = -cost
      /\ f.user = u /\ f.card = c /\ f.type = "FEE" /\ f.delta = cost - charge
      /\ transactions' = transactions \o <<t, f>>
      /\ holdings' = [holdings EXCEPT ![u][c] =
                         HoldingAfterTrade(holdings[u][c], type, n, charge, at)]
  BY <1>1 DEF TradeLogged
<1>3. transactions \in Seq(TxnRow)
  BY DEF TypeOK
<1>4. PICK half : half = Append(transactions, t)
  OBVIOUS
<1>5. half \in Seq(TxnRow) /\ transactions' = Append(half, f)
  BY <1>2, <1>3, <1>4
<1> SUFFICES ASSUME NEW v \in Users, NEW d \in Cards, SeedHolding(v, d) = NoHolding
             PROVE  CostTracked(transactions', v, d, holdings'[v][d])
  BY DEF CostInv, SeedHolding, SeedRow, NoHolding
<1>6. CostTracked(transactions, v, d, holdings[v][d])
  BY DEF CostInv
<1>7. CASE v # u \/ d # c
  <2>1. holdings'[v][d] = holdings[v][d]
    BY <1>2, <1>7 DEF TypeOK
  <2>2. CostTracked(half, v, d, holdings[v][d])
    BY <1>2, <1>3, <1>4, <1>6, <1>7, OtherRowKeepsCost
  <2>3. CostTracked(Append(half, f), v, d, holdings[v][d])
    BY <1>2, <1>5, <1>7, <2>2, OtherRowKeepsCost
  <2> QED
    BY <1>5, <2>1, <2>3
<1>8. CASE v = u /\ d = c /\ type = "SELL"
  <2>1. \A held : CostTracked(Append(half, f), u, c, held)
    <3>1. Len(transactions) + 1 \in RowsWith(half, u, c, {"SELL", "CARD_LAUNCH"})
      BY <1>2, <1>3, <1>4, <1>8, RowsWithAppend
    <3>2. Len(transactions) + 1 \in RowsWith(Append(half, f), u, c, {"SELL", "CARD_LAUNCH"})
      BY <1>5, <3>1, RowsWithAppend
    <3> QED
      BY <3>2 DEF CostTracked
  <2> QED
    BY <1>5, <1>8, <2>1
<1>9. CASE v = u /\ d = c /\ type = "BUY"
  <2>1. PICK held, next : held = holdings[u][c] /\ next = holdings'[u][c]
    OBVIOUS
  <2>2. held \in HoldingRow /\ next = HoldingAfterTrade(held, type, n, charge, at)
    BY <1>2, <2>1 DEF TypeOK
  <2>3. n \in Nat \ {0} /\ at \in Nat /\ OwnsEnough(held, type, n)
    BY <2>1, TradeStep DEF TradeArgs
  <2>4. next \in HoldingRow
    BY <2>2, <2>3, HoldingAfterTradeFacts
  <2>5. /\ next.shares = held.shares + n
        /\ next.avgCost = RoundDiv(held.shares * held.avgCost + charge, held.shares + n)
    BY <1>9, <2>2 DEF HoldingAfterTrade, DeltaSharesFor, AvgCostAfter
  <2>6. CostTracked(transactions, u, c, held)
    BY <1>6, <1>9, <2>1
  <2>7. CostTracked(Append(Append(transactions, t), f), u, c, next)
    BY <1>2, <1>3, <1>9, <2>2, <2>3, <2>4, <2>5, <2>6, PurchaseKeepsCost
  <2> QED
    BY <1>4, <1>5, <1>9, <2>1, <2>7
<1> QED
  BY <1>7, <1>8, <1>9 DEF TradeTypes

\* A launch gives its creator shares that were not bought.
LEMMA LaunchKeepsCost ==
  ASSUME TypeOK, CostInv, NEW u \in Humans, NEW c \in Launchable, NEW total \in LaunchTotals,
         NEW percent \in LaunchPercents, NEW at \in ClockReadings,
         LaunchCard(u, c, total, percent, at)
  PROVE  CostInv'
<1> DEFINE t == Txn(u, c, "CARD_LAUNCH", RetainedShares(total, percent), -LaunchCost,
                    users[u].balance - LaunchCost, at)
<1>1. /\ u \in Users /\ c \in Cards /\ at \in Nat /\ LaunchCost \in Nat
      /\ users[u] \in UserRow
  BY ClockReadingType, LedgerAssumption DEF Users, Cards, TypeOK
<1>2. RetainedShares(total, percent) \in Nat
  BY PricingAssumption DEF LaunchCard, ValidSupply
<1>3. t \in TxnRow /\ t.type = "CARD_LAUNCH" /\ t.user = u /\ t.card = c
  BY <1>1, <1>2 DEF Txn, TxnRow, UserRow
<1>4. transactions' = Append(transactions, t) /\ transactions \in Seq(TxnRow)
  BY DEF LaunchCard, TypeOK
<1>5. PICK held : holdings' = [holdings EXCEPT ![u][c] = held]
  BY DEF LaunchCard
<1> HIDE DEF t
<1> SUFFICES ASSUME NEW v \in Users, NEW d \in Cards, SeedHolding(v, d) = NoHolding
             PROVE  CostTracked(transactions', v, d, holdings'[v][d])
  BY DEF CostInv, SeedHolding, SeedRow, NoHolding
<1>6. CASE v # u \/ d # c
  <2>1. holdings'[v][d] = holdings[v][d]
    BY <1>5, <1>6 DEF TypeOK
  <2>2. CostTracked(transactions, v, d, holdings[v][d])
    BY DEF CostInv
  <2>3. CostTracked(Append(transactions, t), v, d, holdings[v][d])
    BY <1>3, <1>4, <1>6, <2>2, OtherRowKeepsCost
  <2> QED
    BY <1>4, <2>1, <2>3
<1>7. CASE v = u /\ d = c
  <2>1. Len(transactions) + 1
          \in RowsWith(Append(transactions, t), u, c, {"SELL", "CARD_LAUNCH"})
    BY <1>3, <1>4, RowsWithAppend
  <2> QED
    BY <1>4, <1>7, <2>1 DEF CostTracked
<1> QED
  BY <1>6, <1>7

\* A reward and a rebalancing touch no position.
LEMMA GrantKeepsCost ==
  ASSUME TypeOK, CostInv, NEW t \in TxnRow, t.type \notin {"BUY", "FEE"},
         transactions' = Append(transactions, t), holdings' = holdings
  PROVE  CostInv'
<1> SUFFICES ASSUME NEW v \in Users, NEW d \in Cards, SeedHolding(v, d) = NoHolding
             PROVE  CostTracked(transactions', v, d, holdings'[v][d])
  BY DEF CostInv, SeedHolding, SeedRow, NoHolding
<1>1. CostTracked(transactions, v, d, holdings[v][d]) /\ transactions \in Seq(TxnRow)
  BY DEF CostInv, TypeOK
<1>2. CostTracked(Append(transactions, t), v, d, holdings[v][d])
  BY <1>1, OtherRowKeepsCost
<1> QED
  BY <1>2

\* The invariant says it of cards that do not exist as well.
LEMMA CostIs == TypeOK /\ CostInv => CostBasisTracksSpending
<1> SUFFICES ASSUME TypeOK, CostInv, NEW u \in Users, NEW c \in DOMAIN cards,
                    RowsOn(u, c, {"SELL", "CARD_LAUNCH"}) = {},
                    SeedHolding(u, c) = NoHolding
             PROVE  2 * Abs(holdings[u][c].shares * holdings[u][c].avgCost
                            + SumOfDeltas(RowsOn(u, c, {"BUY", "FEE"})))
                      <= holdings[u][c].shares * Cardinality(RowsOn(u, c, {"BUY"}))
  BY DEF CostBasisTracksSpending
<1>1. \A types : RowsOn(u, c, types) = RowsWith(transactions, u, c, types)
  BY DEF RowsOn, OwnRows, RowsWith
<1>2. CostTracked(transactions, u, c, holdings[u][c])
  BY DEF CostInv, TypeOK
<1> QED
  BY <1>1, <1>2 DEF CostTracked, SumOfDeltas, Deltas, SumOf, DeltasOf

\* While a user only buys a card, shares times the average cost basis is the
\* currency spent on it, fees included, up to half a unit per share and purchase.
LEMMA CostAnySize == AnySizeSpec => []CostBasisTracksSpending
<1>1. TypeOK /\ CostInv /\ [AnySizeNext]_vars => CostInv'
  <2> SUFFICES ASSUME TypeOK, CostInv, [AnySizeNext]_vars PROVE CostInv'
    OBVIOUS
  <2>1. CASE UNCHANGED <<holdings, transactions>>
    BY <2>1 DEF CostInv, SeedHolding, SeedRow, NoHolding
  <2>2. CASE UNCHANGED vars \/ Tick
    BY <2>1, <2>2 DEF vars, Tick
  <2>3. ASSUME NEW at \in ClockReadings, NEW u \in Users, GrantDailyReward(u, at)
        PROVE  CostInv'
    <3> DEFINE t == Txn(u, NoCard, "DAILY_REWARD", 0, DailyRewardAmount,
                        users[u].balance + DailyRewardAmount, at)
    <3>1. at \in Nat /\ DailyRewardAmount \in Nat /\ users[u] \in UserRow
      BY ClockReadingType, LedgerAssumption DEF TypeOK
    <3>2. t \in TxnRow /\ t.type \notin {"BUY", "FEE"}
      BY <3>1 DEF Txn, TxnRow, UserRow
    <3>3. transactions' = Append(transactions, t) /\ holdings' = holdings
      BY <2>3 DEF GrantDailyReward
    <3> HIDE DEF t
    <3> QED
      BY <3>2, <3>3, GrantKeepsCost
  <2>4. ASSUME NEW at \in ClockReadings, NEW u \in Users, RebalanceBotBalance(u, at)
        PROVE  CostInv'
    <3> DEFINE delta == BotStartingBalance - users[u].balance
               t     == Txn(u, NoCard, "REBALANCE", 0, delta, users[u].balance + delta, at)
    <3>1. at \in Nat /\ delta \in Int /\ users[u] \in UserRow
      <4>1. at \in Nat
        BY ClockReadingType DEF TypeOK
      <4>2. users[u] \in UserRow
        BY DEF TypeOK
      <4>3. users[u].balance \in Nat /\ BotStartingBalance \in Nat
        BY <4>2, LedgerAssumption DEF UserRow
      <4> QED
        BY <4>1, <4>2, <4>3
    <3>2. transactions' = Append(transactions, t) /\ holdings' = holdings
      BY <2>4 DEF RebalanceBotBalance
    <3>3. t \in TxnRow /\ t.type \notin {"BUY", "FEE"}
      BY <3>1 DEF Txn, TxnRow, UserRow
    <3> HIDE DEF t
    <3> QED
      BY <3>2, <3>3, GrantKeepsCost
  <2> QED
    BY <2>2, <2>3, <2>4, TradeKeepsCost, LaunchKeepsCost DEF AnySizeNext, Users
<1> QED
  BY <1>1, InitCost, CostIs, TypeAnySize, PTL DEF AnySizeSpec

\* In particular when the sizes are those of the model.
THEOREM CostBasisIsTrue == Spec => []CostBasisTracksSpending
  BY SpecIsAnySize, CostAnySize, PTL
=============================================================================
