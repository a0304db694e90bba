---------------------------- MODULE LedgerProps ----------------------------
(***************************************************************************)
(* Properties of the ledger that add up or search its log.                 *)
(***************************************************************************)
EXTENDS Ledger, Functions, FiniteSetsExt

\* The users are finitely many, so that their shares have a sum, and no migration
\* puts more of a card into circulation than there is of it.
ASSUME SharesAssumption ==
    /\ IsFiniteSet(Users)
    /\ \A c \in Seeded : SeedCard[c].total # Unlimited =>
                           SeedCard[c].supply <= SeedCard[c].total

OwnRows(u) == {i \in DOMAIN transactions : transactions[i].user = u}

RowsOn(u, c, types) ==
    {i \in OwnRows(u) : transactions[i].card = c /\ transactions[i].type \in types}

Deltas == [i \in DOMAIN transactions |-> transactions[i].delta]

SumOfDeltas(rows) == SumFunctionOnSet(Deltas, rows)

\* Every balance is its opening balance plus the deltas of the user's rows, and
\* every row's resulting_balance is that sum up to the row: the log alone
\* rebuilds the balances (the audit SumTransactionDeltasByUser is written for).
BalancesReconcile ==
    \A u \in Users :
        /\ users[u].balance = SeedBalance[u] + SumOfDeltas(OwnRows(u))
        /\ \A i \in OwnRows(u) :
              transactions[i].resulting =
                  SeedBalance[u] + SumOfDeltas({j \in OwnRows(u) : j <= i})

\* Shares of a card that no user holds: none of a launched card, and of a seeded
\* card what the migrations left in circulation.
PublicFloat(c) ==
    IF c \in Seeded
    THEN SeedCard[c].supply - SumFunctionOnSet([u \in Users |-> SeedShares[u][c]], Users)
    ELSE 0

HeldShares(c) == SumFunctionOnSet([u \in Users |-> holdings[u][c].shares], Users)

\* Shares are neither lost nor made: the circulating supply is the public float
\* plus the users' positions, within the total supply of the card.
SharesConserved ==
    \A c \in DOMAIN cards :
        /\ cards[c].supply = PublicFloat(c) + HeldShares(c)
        /\ cards[c].total # Unlimited => cards[c].supply <= cards[c].total

\* While a user only buys a card, shares times the average cost basis is the
\* currency spent on it, fees included, up to half a unit per share and purchase.
CostBasisTracksSpending ==
    \A u \in Users, c \in DOMAIN cards :
        LET held == holdings[u][c]
        IN  /\ RowsOn(u, c, {"SELL", "CARD_LAUNCH"}) = {}
            /\ SeedHolding(u, c) = NoHolding
            => 2 * Abs(held.shares * held.avgCost
                       + SumOfDeltas(RowsOn(u, c, {"BUY", "FEE"})))
                   <= held.shares * Cardinality(RowsOn(u, c, {"BUY"}))

\* The trade of the same user on the same card that the log has before row j.
PreviousTrade(i, j) ==
    /\ i < j
    /\ {i, j} \subseteq TradeRows(transactions[i].user, transactions[i].card)
    /\ \A k \in TradeRows(transactions[i].user, transactions[i].card) : k <= i \/ k >= j

\* Reversing one's own last trade on a card within WashTradeWindow costs five
\* times the fee, any other trade the plain fee (washTradeMultiplier).  The row
\* after a trade is its fee.
ReversalPaysFivefold ==
    \A i, j \in DOMAIN transactions :
        PreviousTrade(i, j) =>
            LET before == transactions[i]
                after  == transactions[j]
                quick  == after.type # before.type /\ after.at - before.at < WashTradeWindow
            IN  transactions[j + 1].delta =
                    -ComputeFee(after.delta) * (IF quick THEN 5 ELSE 1)

\* The streak is the number of days in a row, up to the last login, that the
\* log has a daily reward for (nextLoginState).
StreakCountsRewardedDays ==
    \A u \in Humans :
        LET last == DayOf(users[u].lastLogin)
            run  == {n \in 1..(MaxNow + 1) :
                        \A d \in (last - n + 1)..last : d \in RewardedDays(u)}
        IN  IF users[u].lastLogin = Never THEN users[u].streak = 0
            ELSE run # {} /\ users[u].streak = Max(run)

\* An UNLIMITED card is minted on demand: a user who holds none of it, and can
\* pay for one share, can buy one.
UnlimitedIsMintable ==
    \A c \in DOMAIN cards, u \in Users :
        LET last == LastTrade(u, c)
        IN  /\ cards[c].total = Unlimited
            /\ holdings[u][c].shares = 0
            /\ TradeOpen(cards[c], "BUY", now)
            /\ users[u].balance >= TradeCharge(cards[c], "BUY", 1, last, now)
            => TradeAllowed(cards[c], u, users[u].balance, holdings[u][c], last,
                            "BUY", 1, now)
=============================================================================
