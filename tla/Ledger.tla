------------------------------- MODULE Ledger -------------------------------
(***************************************************************************)
(* The ledger of backend/internal/ledger: users, cards, holdings and the   *)
(* transaction log, with one action per operation that commits.  Each      *)
(* operation runs in one database transaction that holds the row locks it  *)
(* needs, so here it is one step.  Module LedgerTx opens that step up.     *)
(*                                                                         *)
(* An operation reads the clock before it takes its locks.  The time it    *)
(* works with, at, may therefore be older than now, by at most MaxLag.     *)
(***************************************************************************)
EXTENDS Trade, Sequences

CONSTANTS Humans, Bots,        \* user ids, by user_type
          Seeded,              \* ids of the cards the migrations create
          Launchable,          \* ids a launch may use (a symbol each)
          NoCreator,           \* a NULL creator_user_id
          SeedCard,            \* SeedCard[c]: [curve, total, supply]
          SeedShares,          \* SeedShares[u][c]: shares of seeded card c
          SeedBalance,         \* SeedBalance[u]
          LaunchBase,          \* launchBasePrice
          LaunchThreshold, LaunchCost, DailyRewardAmount,
          BotStartingBalance,
          DayLength            \* clock ticks in a day

\* Inputs and bounds of a model.
CONSTANTS TradeSizes,          \* share counts a request may ask for
          LaunchTotals,        \* total_supply values of launch requests
          LaunchPercents,      \* retained percentages of launch requests
          MaxNow,              \* last tick of the clock
          MaxLag,              \* how old the clock reading of a commit may be
          MaxLog               \* an operation starts only below this length

Users == Humans \cup Bots
Cards == Seeded \cup Launchable
LaunchCurve(total) == [base |-> LaunchBase, scale |-> total]
MaxRetainedPercent == 40

ASSUME LedgerAssumption ==
    /\ Humans \cap Bots = {} /\ Seeded \cap Launchable = {}
    /\ NoCreator \notin Users
    /\ SeedCard \in [Seeded -> [curve : Curves, total : Nat \cup {Unlimited},
                                supply : 0..MaxSupply]]
    /\ SeedShares \in [Users -> [Seeded -> Nat]]
    /\ SeedBalance \in [Users -> Nat]
    /\ LaunchTotals \subseteq Nat \ {0} /\ LaunchPercents \subseteq Nat
    /\ \A t \in LaunchTotals : LaunchCurve(t) \in Curves
    /\ LaunchCost \in Nat /\ LaunchThreshold \in Nat
    /\ LaunchCost <= LaunchThreshold
    /\ DailyRewardAmount \in Nat /\ BotStartingBalance \in Nat
    /\ DayLength \in Nat \ {0}
    /\ TradeSizes \subseteq Nat \ {0}
    /\ MaxNow \in Nat /\ MaxLag \in Nat /\ MaxLog \in Nat

VARIABLES
    now,            \* the clock
    users,          \* users[u]: [balance, lastLogin, streak]
    cards,          \* cards[c], for the cards that exist: a card row
    holdings,       \* holdings[u][c]: [shares, avgCost, firstBought]
    transactions,   \* the append-only transactions table
    events,         \* the TradeEvents of the trades, in the order they commit
    sunk            \* sunk[c]: currency the trades of card c removed from
                    \* balances, less what they put back (auxiliary)

vars == <<now, users, cards, holdings, transactions, events, sunk>>

-----------------------------------------------------------------------------
NoHolding == [shares |-> 0, avgCost |-> 0, firstBought |-> Never]

\* A seeded card: no creator, an open circuit breaker window at its price.
SeedRow(c) ==
    LET s == SeedCard[c]
    IN  [curve |-> s.curve, total |-> s.total, supply |-> s.supply,
         price |-> SpotPrice(s.curve, s.supply), creator |-> NoCreator,
         retained |-> 0, retainedSold |-> 0, createdAt |-> 0,
         windowAt |-> 0, windowPrice |-> SpotPrice(s.curve, s.supply),
         haltedUntil |-> NotHalted, status |-> "ACTIVE"]

\* The reserve some bots start with, at the seeded price; migration 000010 adds
\* first_bought_at without filling it in.
SeedHolding(u, c) ==
    IF c \in Seeded /\ SeedShares[u][c] > 0
    THEN [shares |-> SeedShares[u][c], avgCost |-> SeedRow(c).price,
          firstBought |-> Never]
    ELSE NoHolding

Init ==
    /\ now = 0
    /\ users = [u \in Users |->
                   [balance |-> SeedBalance[u], lastLogin |-> Never, streak |-> 0]]
    /\ cards = [c \in Seeded |-> SeedRow(c)]
    /\ holdings = [u \in Users |-> [c \in Cards |-> SeedHolding(u, c)]]
    /\ transactions = <<>>
    /\ events = <<>>
    /\ sunk = [c \in Cards |-> 0]

-----------------------------------------------------------------------------
(* Rows of the transaction log.  card is NoCard for a row without a card.  *)

NoCard == "none"

\* Mutant of Txn: records the balance before the row's delta.
TxnBefore(u, c, type, shares, delta, resulting, at) ==
    [user |-> u, card |-> c, type |-> type, shares |-> shares,
     delta |-> delta, resulting |-> resulting - delta, at |-> at]

Txn(u, c, type, shares, delta, resulting, at) ==
    [user |-> u, card |-> c, type |-> type, shares |-> shares,
     delta |-> delta, resulting |-> resulting, at |-> at]

\* The trades of the user on the card, each at its place in the log.
TradeRows(u, c) ==
    {i \in DOMAIN transactions : /\ transactions[i].user = u
                                 /\ transactions[i].card = c
                                 /\ transactions[i].type \in TradeTypes}

TradesOf(u, c) == [i \in TradeRows(u, c) |-> transactions[i]]

\* ORDER BY created_at DESC.  Rows of one tick of this clock are told apart by
\* the order they were written in.
LaterRow(rows, i, j) ==
    \/ rows[i].at > rows[j].at
    \/ rows[i].at = rows[j].at /\ i >= j

\* Mutant of LatestOf: sorted the other way around.
EarliestOf(rows) ==
    CHOOSE i \in DOMAIN rows : \A j \in DOMAIN rows : LaterRow(rows, j, i)

LatestOf(rows) ==
    CHOOSE i \in DOMAIN rows : \A j \in DOMAIN rows : LaterRow(rows, i, j)

\* GetLastTradeForUserCard, of the trades as TradesOf has them.
TypeAndTime(rows) ==
    IF DOMAIN rows = {} THEN NoTrade
    ELSE [type |-> rows[LatestOf(rows)].type, at |-> rows[LatestOf(rows)].at]

LastTrade(u, c) == TypeAndTime(TradesOf(u, c))

\* The clock readings an operation committing now may have made.
ClockReadings == {t \in 0..now : t + MaxLag >= now}

LogHasRoom == Len(transactions) < MaxLog

-----------------------------------------------------------------------------
Credit(u, amount) == [users EXCEPT ![u].balance = @ + amount]

TradeEvent(c, n, type, at) ==
    [card |-> c, price |-> cards'[c].price, previous |-> cards[c].price,
     volume |-> n, type |-> type, at |-> at]

\* executeTradeTx: a purchase or a sale of n shares, with its fee row and its
\* price tick.
ExecuteTrade(u, c, type, n, at) ==
    /\ c \in DOMAIN cards
    /\ LogHasRoom
    /\ LET balance == users[u].balance
           held    == holdings[u][c]
           last    == LastTrade(u, c)
           cost    == TradeCost(cards[c], type, n)
           charge  == TradeCharge(cards[c], type, n, last, at)
       IN  /\ TradeAllowed(cards[c], u, balance, held, last, type, n, at)
           /\ cards' = [cards EXCEPT ![c] = CardAfterTrade(@, u, type, n, at)]
           /\ users' = Credit(u, -charge)
           /\ holdings' = [holdings EXCEPT
                              ![u][c] = HoldingAfterTrade(@, type, n, charge, at)]
           /\ transactions' = transactions \o
                 << Txn(u, c, type, n, -cost, balance - cost, at),
                    Txn(u, c, "FEE", 0, cost - charge, balance - charge, at) >>
           /\ sunk' = [sunk EXCEPT ![c] = @ + charge]
    /\ events' = Append(events, TradeEvent(c, n, type, at))
    /\ UNCHANGED now

\* Shares minted for the creator of a card of the given total supply.
RetainedShares(total, percent) == RoundDiv(total * percent, 100)

\* Mutant of LaunchedRow: the retained shares are not in circulation.
LaunchedWithoutSupply(u, total, percent, at) ==
    [curve |-> LaunchCurve(total), total |-> total, supply |-> 0,
     price |-> SpotPrice(LaunchCurve(total), 0), creator |-> u,
     retained |-> RetainedShares(total, percent), retainedSold |-> 0,
     createdAt |-> at, windowAt |-> at, windowPrice |-> 0,
     haltedUntil |-> NotHalted, status |-> "ACTIVE"]

\* The row CreateUserCard inserts; the window columns take their defaults.
LaunchedRow(u, total, percent, at) ==
    LET retained == RetainedShares(total, percent)
    IN  [curve |-> LaunchCurve(total), total |-> total, supply |-> retained,
         price |-> SpotPrice(LaunchCurve(total), retained), creator |-> u,
         retained |-> retained, retainedSold |-> 0, createdAt |-> at,
         windowAt |-> at, windowPrice |-> 0,
         haltedUntil |-> NotHalted, status |-> "ACTIVE"]

\* The table of cards with a row inserted.
WithCard(c, row) ==
    [d \in DOMAIN cards \cup {c} |-> IF d = c THEN row ELSE cards[d]]

\* launchCardTx: a new card, the creator's retained shares, the launch cost.
LaunchCard(u, c, total, percent, at) ==
    /\ percent <= MaxRetainedPercent
    /\ c \notin DOMAIN cards
    /\ ValidSupply(RetainedShares(total, percent))
    /\ LogHasRoom
    /\ users[u].balance >= LaunchThreshold
    /\ users[u].balance - LaunchCost >= 0
    /\ cards' = WithCard(c, LaunchedRow(u, total, percent, at))
    /\ holdings' = [holdings EXCEPT ![u][c] =
          [shares      |-> RetainedShares(total, percent),
           avgCost     |-> 0,
           firstBought |-> FirstBoughtAfter(@, RetainedShares(total, percent), at)]]
    /\ users' = Credit(u, -LaunchCost)
    /\ transactions' = Append(transactions,
          Txn(u, c, "CARD_LAUNCH", RetainedShares(total, percent), -LaunchCost,
              users[u].balance - LaunchCost, at))
    /\ UNCHANGED <<now, events, sunk>>

-----------------------------------------------------------------------------
DayOf(t) == t \div DayLength

\* Granted on the day of lastLogin; one more on the day after; else start over.
AlreadyGranted(lastLogin, at) == lastLogin # Never /\ DayOf(lastLogin) = DayOf(at)

\* Mutant of NextStreak: a missed day does not start over.
NeverResetStreak(lastLogin, streak, at) == streak + 1

NextStreak(lastLogin, streak, at) ==
    IF lastLogin # Never /\ DayOf(lastLogin) = DayOf(at) - 1 THEN streak + 1 ELSE 1

\* The days u has a DAILY_REWARD row for: its idempotency key names the day.
RewardedDays(u) ==
    {DayOf(transactions[i].at) : i \in {j \in DOMAIN transactions :
        transactions[j].user = u /\ transactions[j].type = "DAILY_REWARD"}}

\* GrantDailyReward.  A key already in the log rolls everything back.
GrantDailyReward(u, at) ==
    /\ LogHasRoom
    /\ ~AlreadyGranted(users[u].lastLogin, at)
    /\ DayOf(at) \notin RewardedDays(u)
    /\ users' = [users EXCEPT ![u] =
          [balance   |-> @.balance + DailyRewardAmount,
           lastLogin |-> at,
           streak    |-> NextStreak(@.lastLogin, @.streak, at)]]
    /\ transactions' = Append(transactions,
          Txn(u, NoCard, "DAILY_REWARD", 0, DailyRewardAmount,
              users[u].balance + DailyRewardAmount, at))
    /\ UNCHANGED <<now, cards, holdings, events, sunk>>

\* RebalanceBotBalance: back to the target, whatever the direction.
RebalanceBotBalance(u, at) ==
    LET delta == BotStartingBalance - users[u].balance
    IN  /\ LogHasRoom
        /\ delta # 0
        /\ users' = Credit(u, delta)
        /\ transactions' = Append(transactions,
              Txn(u, NoCard, "REBALANCE", 0, delta, users[u].balance + delta, at))
        /\ UNCHANGED <<now, cards, holdings, events, sunk>>

\* Time passes.
Tick ==
    /\ now < MaxNow
    /\ now' = now + 1
    /\ UNCHANGED <<users, cards, holdings, transactions, events, sunk>>

Next ==
    \/ Tick
    \/ \E at \in ClockReadings :
          \/ \E u \in Users, c \in Cards, type \in TradeTypes, n \in TradeSizes :
                ExecuteTrade(u, c, type, n, at)
          \/ \E u \in Humans, c \in Launchable,
                total \in LaunchTotals, percent \in LaunchPercents :
                LaunchCard(u, c, total, percent, at)
          \/ \E u \in Humans : GrantDailyReward(u, at)
          \/ \E u \in Bots : RebalanceBotBalance(u, at)

Spec == Init /\ [][Next]_vars

-----------------------------------------------------------------------------
(* Correctness.                                                            *)

CardRow ==
    [curve : Curves, total : Int, supply : 0..MaxSupply, price : Nat,
     creator : Users \cup {NoCreator}, retained : 0..MaxSupply, retainedSold : Nat,
     createdAt : Nat, windowAt : Nat, windowPrice : Nat, haltedUntil : Nat,
     status : {"ACTIVE", "FROZEN", "DELISTED"}]

UserRow == [balance : Nat, lastLogin : Int, streak : Nat]

HoldingRow == [shares : Nat, avgCost : Int, firstBought : Int]

TxnRow == [user : Users, card : Cards \cup {NoCard},
           type : TradeTypes \cup {"FEE", "CARD_LAUNCH", "DAILY_REWARD", "REBALANCE"},
           shares : Nat, delta : Int, resulting : Int, at : Nat]

\* The rows have the types of their columns, and meet the CHECK constraints of
\* the schema: no balance, no position and no supply below zero.
TypeOK ==
    /\ now \in Nat
    /\ users \in [Users -> UserRow]
    /\ DOMAIN cards \subseteq Cards /\ Seeded \subseteq DOMAIN cards
    /\ cards \in [DOMAIN cards -> CardRow]
    /\ holdings \in [Users -> [Cards -> HoldingRow]]
    /\ transactions \in Seq(TxnRow)
    /\ sunk \in [Cards -> Int]

\* current_price, which trades and reads use without recomputing it, is the
\* spot price of the circulating supply stored beside it.
PriceIsSpot ==
    \A c \in DOMAIN cards :
        cards[c].price = SpotPrice(cards[c].curve, cards[c].supply)

\* A card never rests more than 15% away from the baseline of its circuit
\* breaker window: a trade that goes further trips the breaker, which moves the
\* baseline to where the price went, however old the clock readings are that open,
\* replace and trip windows (nextCircuitBreakerState).
PriceWithinBand ==
    \A c \in DOMAIN cards :
        ~MoveTooLarge(cards[c].windowPrice, cards[c].price)

\* At any time a creator still holds at least the retained shares that have not
\* vested, whatever the creator bought and sold in between (creatorSellLimit).
CreatorHoldsUnvested ==
    \A c \in DOMAIN cards :
        cards[c].creator # NoCreator =>
            holdings[cards[c].creator][c].shares >=
                cards[c].retained
                - UnlockedRetainedShares(cards[c].retained, cards[c].createdAt, now)

\* The supply a card started with.
OpeningSupply(c) ==
    IF c \in Seeded THEN SeedCard[c].supply ELSE cards[c].retained

\* No sequence of trades on a card pays out more than it took in, beyond what
\* the supply it ends with is worth on the curve: the fees cover the rounding
\* of every leg (ExecutionCost, computeFee).
NoFreeLunch ==
    \A c \in DOMAIN cards :
        Grain * sunk[c] >= Area[cards[c].curve][cards[c].supply]
                           - Area[cards[c].curve][OpeningSupply(c)]

\* With no share in circulation every purchase breaches the position cap, so a
\* card that reaches supply 0, or starts there, is never traded again.
EmptyCardStaysEmpty ==
    [][\A c \in DOMAIN cards : cards[c].supply = 0 => cards'[c] = cards[c]]_vars
=============================================================================
