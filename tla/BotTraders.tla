---------------------------- MODULE BotTraders ----------------------------
(***************************************************************************)
(* The market-making bots of backend/internal/bots, over the ledger.  Each *)
(* bot is a goroutine that repeats a tick: read the cards, read its own    *)
(* holdings, let its persona decide, read its balance, trade.  Everything  *)
(* the other users, the other bots and the jobs do may fall between two of *)
(* these reads.  The news-reactive persona also keeps a cursor into the    *)
(* news_events table and a queue of trades it has not made yet.            *)
(***************************************************************************)
EXTENDS Ledger, SequencesExt

CONSTANTS Persona,             \* Persona[b]
          CardOrder,           \* the cards, in the order of their symbols
          CardType, Sector,    \* columns of a card the ledger does not look at
          Weights,             \* Weights[c][d]: percents, of index components
          HistoryWindow,       \* prices a bot remembers of a card
          MinTradePermille, MaxTradePermille, MaxTradeShares,
          NewsPollLimit

\* Inputs and bounds of a model.
CONSTANTS BotLoads             \* [bots, people: those that trade, events: the
                               \*  types that come, news, restarts: how many may]

Personas == {"MOMENTUM", "CONTRARIAN", "RANDOM_WALKER", "NEWS_REACTIVE", "INDEX_TRACKER"}

SectorsByEvent ==
    [FLOOD     |-> {"FOOD", "AGRICULTURE"},
     DROUGHT   |-> {"AGRICULTURE", "FOOD"},
     WAR       |-> {"OIL_GAS", "METALS", "SHIPPING"},
     EMBARGO   |-> {"OIL_GAS", "METALS"},
     STRIKE    |-> {"SHIPPING", "UTILITIES"},
     DISCOVERY |-> {"SEMICONDUCTOR", "METALS", "MISC_COMMODITIES"}]

\* The stance on an event; none on a strike.
Direction ==
    [FLOOD |-> "SELL", DROUGHT |-> "SELL", WAR |-> "SELL", EMBARGO |-> "SELL",
     DISCOVERY |-> "BUY"]

ASSUME BotTradersAssumption ==
    /\ Persona \in [Bots -> Personas]
    /\ CardOrder \in Seq(Cards) /\ IsInjective(CardOrder) /\ Range(CardOrder) = Cards
    /\ DOMAIN CardType = Cards /\ DOMAIN Sector = Cards
    /\ HistoryWindow \in Nat \ {0, 1}
    /\ MinTradePermille \in Nat /\ MaxTradePermille \in Nat
    /\ MaxTradeShares \in Nat \ {0} /\ NewsPollLimit \in Nat \ {0}
    /\ BotLoads \subseteq [bots : SUBSET Bots, people : SUBSET Humans,
                            events : SUBSET DOMAIN SectorsByEvent,
                            news : Nat, restarts : Nat]

VARIABLES
    mem,        \* mem[b]: what the goroutine of bot b has in memory
    news,       \* the news_events rows, by created_at
    load        \* who trades, and the events and restarts that may still come

botVars == <<mem, news, load>>
allVars == <<vars, botVars>>

-----------------------------------------------------------------------------
NoOrder  == [card |-> NoCard, type |-> "NONE", shares |-> 0]
Unseeded == -1

\* A tick over, whatever its outcome; the local variables are gone.
Rested(m) ==
    [m EXCEPT !.pc = "idle", !.view = <<>>, !.owned = <<>>, !.order = NoOrder,
              !.balance = 0]

\* newBot.  seed and heard are auxiliary: where the cursor started, and the
\* events that were turned into trades or passed over on purpose.
NewBot ==
    [pc |-> "idle", view |-> <<>>, owned |-> <<>>, order |-> NoOrder, balance |-> 0,
     history |-> [c \in Cards |-> <<>>],
     cursor |-> Unseeded, queue |-> <<>>, seed |-> Unseeded, heard |-> <<>>]

BotInit ==
    /\ Init
    /\ mem = [b \in Bots |-> NewBot]
    /\ news = <<>>
    /\ load \in BotLoads

-----------------------------------------------------------------------------
(* What the bot sees: fetchSnapshots.                                      *)

ActiveCards == {c \in DOMAIN cards : cards[c].status = "ACTIVE"}

\* appendHistory.
Remembered(h, price) ==
    LET longer == Append(h, price)
    IN  IF Len(longer) > HistoryWindow THEN Tail(longer) ELSE longer

ReadCards(b) ==
    /\ mem[b].pc = "idle"
    /\ mem' = [mem EXCEPT ![b].pc   = "holdings",
                          ![b].view = [c \in ActiveCards |->
                             [price |-> cards[c].price, supply |-> cards[c].supply]]]
    /\ UNCHANGED <<vars, news, load>>

ReadHoldings(b) ==
    /\ mem[b].pc = "holdings"
    /\ LET view == mem[b].view
       IN  mem' = [mem EXCEPT
              ![b].pc      = "decide",
              ![b].owned   = [c \in DOMAIN view |-> holdings[b][c].shares],
              ![b].history = [c \in Cards |->
                 IF c \in DOMAIN view THEN Remembered(@[c], view[c].price) ELSE @[c]]]
    /\ UNCHANGED <<vars, news, load>>

-----------------------------------------------------------------------------
(* Orders and their sizes.                                                 *)

Smaller(a, b) == IF a < b THEN a ELSE b

\* clampShares.
ClampShares(n) == IF n < 1 THEN 1 ELSE Smaller(n, MaxTradeShares)

\* sizeTrade: any percentage between the two may be drawn.
OrderSizes(supply) ==
    {ClampShares(n) :
        n \in ((supply * MinTradePermille) \div 1000)..((supply * MaxTradePermille) \div 1000)}

\* Mutant of Order: a sale does not look at what is owned.
OrderUncapped(m, c, type, n) == [card |-> c, type |-> type, shares |-> n]

\* A sale asks for no more than the bot owns.
Order(m, c, type, n) ==
    [card |-> c, type |-> type,
     shares |-> IF type = "SELL" THEN Smaller(m.owned[c], n) ELSE n]

Orders(m, c, type) == {Order(m, c, type, n) : n \in OrderSizes(m.view[c].supply)}

\* The first card, by symbol, of those that satisfy a condition.
FirstOf(S) ==
    CardOrder[CHOOSE i \in DOMAIN CardOrder :
                 /\ CardOrder[i] \in S
                 /\ \A j \in 1..(i - 1) : CardOrder[j] \notin S]

-----------------------------------------------------------------------------
(* Personas that follow or oppose the trend: decideMomentum (dir = 1) and  *)
(* decideContrarian (dir = -1).                                            *)

\* trendPercent is Move / Head; momentumThreshold is 0.002.
Move(h, dir) == dir * (h[HistoryWindow] - h[1])

Moved(h, dir) ==
    Len(h) = HistoryWindow /\ h[1] # 0 /\ 1000 * Move(h, dir) > 2 * h[1]

MovedMore(g, h, dir) == Move(g, dir) * h[1] > Move(h, dir) * g[1]

Strongest(m, S, dir) ==
    FirstOf({c \in S : \A d \in S : ~MovedMore(m.history[d], m.history[c], dir)})

TrendOrders(m, dir) ==
    LET toBuy  == {c \in DOMAIN m.view : Moved(m.history[c], dir)}
        toSell == {c \in DOMAIN m.view : Moved(m.history[c], -dir) /\ m.owned[c] > 0}
    IN  IF toBuy # {} THEN Orders(m, Strongest(m, toBuy, dir), "BUY")
        ELSE IF toSell # {} THEN Orders(m, Strongest(m, toSell, -dir), "SELL")
        ELSE {}

\* decideRandomWalker: any card; a sale only of a card it owns.
AnyOrders(m, c) ==
    Orders(m, c, "BUY") \cup (IF m.owned[c] > 0 THEN Orders(m, c, "SELL") ELSE {})

RandomOrders(m) == UNION {AnyOrders(m, c) : c \in DOMAIN m.view}

\* computeDerivedPrices, from the live prices of the components.
DerivedPrice(c) ==
    RoundDiv(FoldFunctionOnSet(+, 0,
                 [d \in DOMAIN Weights[c] |-> Weights[c][d] * cards[d].price],
                 DOMAIN Weights[c]), 100)

\* indexTrackerThreshold is 0.02.
TrackerWants(m, c, type) ==
    LET diff == DerivedPrice(c) - m.view[c].price
    IN  /\ CardType[c] = "INDEX" /\ m.view[c].price # 0 /\ DOMAIN Weights[c] # {}
        /\ \/ type = "BUY"  /\ 100 * diff > 2 * m.view[c].price
           \/ type = "SELL" /\ 100 * diff < -2 * m.view[c].price /\ m.owned[c] > 0

\* decideIndexTracker: the first index, by symbol, that is off.
TrackerOrders(m) ==
    LET off == {c \in DOMAIN m.view : \E t \in TradeTypes : TrackerWants(m, c, t)}
    IN  IF off = {} THEN {}
        ELSE UNION {Orders(m, FirstOf(off), t) :
                       t \in {u \in TradeTypes : TrackerWants(m, FirstOf(off), u)}}

PersonaOrders(b) ==
    CASE Persona[b] = "MOMENTUM"      -> TrendOrders(mem[b], 1)
      [] Persona[b] = "CONTRARIAN"    -> TrendOrders(mem[b], -1)
      [] Persona[b] = "RANDOM_WALKER" -> RandomOrders(mem[b])
      [] Persona[b] = "INDEX_TRACKER" -> TrackerOrders(mem[b])

Decide(b) ==
    /\ mem[b].pc = "decide" /\ Persona[b] # "NEWS_REACTIVE"
    /\ \/ \E o \in PersonaOrders(b) :
             mem' = [mem EXCEPT ![b].pc = "budget", ![b].order = o]
       \/ /\ PersonaOrders(b) = {}
          /\ mem' = [mem EXCEPT ![b] = Rested(@)]
    /\ UNCHANGED <<vars, news, load>>

-----------------------------------------------------------------------------
(* The news-reactive persona: decideNewsReactive.                          *)

\* Mutant of FreshEvents: the event at the cursor is not After it.
FreshFromCursor(m) ==
    LET from == IF Len(news) - NewsPollLimit > m.cursor
                THEN Len(news) - NewsPollLimit + 1 ELSE m.cursor
    IN  IF from = 0 THEN <<>> ELSE [k \in 1..(Len(news) - from + 1) |-> from + k - 1]

\* pollNewNews: of the last NewsPollLimit rows those after the cursor, oldest
\* first.
FreshEvents(m) ==
    LET from == IF Len(news) - NewsPollLimit > m.cursor
                THEN Len(news) - NewsPollLimit ELSE m.cursor
    IN  [k \in 1..(Len(news) - from) |-> from + k]

\* Whether an event makes the bot trade a card of the snapshot.  A headline is
\* parsed back into the event and the sectors it was composed of.
Affected(m, event, c) ==
    /\ c \in DOMAIN m.view
    /\ CardType[c] = "SYSTEM_COMPANY" /\ Sector[c] \in SectorsByEvent[event]
    /\ event \in DOMAIN Direction
    /\ Direction[event] = "SELL" => m.owned[c] > 0

\* enqueueNewsTrades, of a batch of events: the trades, each as its place in the
\* batch and the place of its card in the snapshot.
Reactions(m, batch) ==
    {r \in (DOMAIN batch) \X (DOMAIN CardOrder) :
        Affected(m, news[batch[r[1]]], CardOrder[r[2]])}

\* Event by event, and for one event in the order of the snapshot.
Earlier(r, s) == r[1] < s[1] \/ (r[1] = s[1] /\ r[2] < s[2])

Arrangements(R) ==
    {e \in [1..Cardinality(R) -> R] : \A i, j \in DOMAIN e : i < j => Earlier(e[i], e[j])}

ReactionOrders(m, batch, r) ==
    Orders(m, CardOrder[r[2]], Direction[news[batch[r[1]]]])

\* The trades in a given order, with the sizes they may have.
Sized(m, batch, e) ==
    {q \in [DOMAIN e -> UNION {ReactionOrders(m, batch, r) : r \in Reactions(m, batch)}] :
        \A i \in DOMAIN e : q[i] \in ReactionOrders(m, batch, e[i])}

\* The queues a batch may lead to.
Queues(m, batch) == UNION {Sized(m, batch, e) : e \in Arrangements(Reactions(m, batch))}

\* Mutant of TakeNext: the trade stays in the queue.
TakeFirst(m, queue) ==
    IF queue = <<>> THEN Rested(m)
    ELSE [m EXCEPT !.pc = "budget", !.order = Head(queue), !.queue = queue]

\* One trade a tick, from the front of the queue.
TakeNext(m, queue) ==
    IF queue = <<>> THEN Rested(m)
    ELSE [m EXCEPT !.pc = "budget", !.order = Head(queue), !.queue = Tail(queue)]

\* The first poll only places the cursor.
SeedCursor(b) ==
    /\ mem[b].queue = <<>> /\ mem[b].cursor = Unseeded
    /\ mem' = [mem EXCEPT ![b] = Rested([@ EXCEPT !.cursor = Len(news), !.seed = Len(news)])]

PollNews(b) ==
    /\ mem[b].queue = <<>> /\ mem[b].cursor # Unseeded
    /\ LET m     == mem[b]
           batch == FreshEvents(m)
           told  == [m EXCEPT !.cursor = Len(news), !.heard = @ \o batch]
       IN  \E q \in Queues(m, batch) : mem' = [mem EXCEPT ![b] = TakeNext(told, q)]

DrainQueue(b) ==
    /\ mem[b].queue # <<>>
    /\ mem' = [mem EXCEPT ![b] = TakeNext(@, @.queue)]

DecideNewsReactive(b) ==
    /\ mem[b].pc = "decide" /\ Persona[b] = "NEWS_REACTIVE"
    /\ SeedCursor(b) \/ PollNews(b) \/ DrainQueue(b)
    /\ UNCHANGED <<vars, news, load>>

-----------------------------------------------------------------------------
(* The rest of a tick.                                                     *)

\* Mutant of AffordableBuyShares: the whole balance, without headroom.
WholeBalanceShares(balance, price) == IF price <= 0 THEN 0 ELSE balance \div price

\* affordableBuyShares: buyBudgetFraction is a quarter.
AffordableBuyShares(balance, price) ==
    IF price <= 0 THEN 0 ELSE balance \div (4 * price)

\* The price of a card in the snapshot; zero of one that was not there.
SeenPrice(m, c) == IF c \in DOMAIN m.view THEN m.view[c].price ELSE 0

\* capBuyToBalance, with the balance the bot has now.
CapBuyToBalance(b) ==
    /\ mem[b].pc = "budget"
    /\ LET o          == mem[b].order
           affordable == AffordableBuyShares(users[b].balance, SeenPrice(mem[b], o.card))
           capped     == IF o.type = "BUY" THEN Smaller(o.shares, affordable) ELSE o.shares
       IN  mem' = [mem EXCEPT ![b] =
              IF capped < 1 THEN Rested(@)
              ELSE [@ EXCEPT !.pc = "trade", !.order.shares = capped,
                             !.balance = users[b].balance]]
    /\ UNCHANGED <<vars, news, load>>

\* The ledger's verdict on the trade the bot asks for.
Accepted(b, at) ==
    LET o == mem[b].order
    IN  /\ LogHasRoom
        /\ TradeAllowed(cards[o.card], b, users[b].balance, holdings[b][o.card],
                        LastTrade(b, o.card), o.type, o.shares, at)

\* A rejection is skipped: the next tick decides afresh.
Trade(b) ==
    /\ mem[b].pc = "trade"
    /\ \E at \in ClockReadings :
          \/ ExecuteTrade(b, mem[b].order.card, mem[b].order.type, mem[b].order.shares, at)
          \/ ~Accepted(b, at) /\ UNCHANGED vars
    /\ mem' = [mem EXCEPT ![b] = Rested(@)]
    /\ UNCHANGED <<news, load>>

\* A read or the trade fails: logged, and the tick is over.
TickError(b) ==
    /\ \/ mem[b].pc \in {"holdings", "budget", "trade"}
       \/ mem[b].pc = "decide" /\ Persona[b] = "INDEX_TRACKER"
       \/ mem[b].pc = "decide" /\ Persona[b] = "NEWS_REACTIVE" /\ mem[b].queue = <<>>
    /\ mem' = [mem EXCEPT ![b] = Rested(@)]
    /\ UNCHANGED <<vars, news, load>>

\* generateOnce writes a headline.
GenerateNews ==
    /\ load.news > 0
    /\ \E event \in load.events : news' = Append(news, event)
    /\ load' = [load EXCEPT !.news = @ - 1]
    /\ UNCHANGED <<vars, mem>>

\* The server restarts; its bots start over with nothing in memory.
Restart ==
    /\ load.restarts > 0
    /\ load' = [load EXCEPT !.restarts = @ - 1]
    /\ mem' = [b \in Bots |-> NewBot]
    /\ UNCHANGED <<vars, news>>

BotStep(b) ==
    \/ ReadCards(b) \/ ReadHoldings(b)
    \/ Decide(b) \/ DecideNewsReactive(b)
    \/ CapBuyToBalance(b) \/ Trade(b)

\* Everybody else: people trade, the job rebalances, time passes.
OthersNext ==
    /\ \/ Tick
       \/ \E at \in ClockReadings :
             \/ \E u \in load.people, c \in Cards, type \in TradeTypes, n \in TradeSizes :
                   ExecuteTrade(u, c, type, n, at)
             \/ \E b \in Bots : RebalanceBotBalance(b, at)
    /\ UNCHANGED botVars

BotNext ==
    \/ OthersNext
    \/ \E b \in load.bots : BotStep(b) \/ TickError(b)
    \/ GenerateNews
    \/ Restart

BotSpec == BotInit /\ [][BotNext]_allVars

Readers == {b \in Bots : Persona[b] = "NEWS_REACTIVE"}

\* The tickers of the bots keep firing, and the reads that come before the
\* news-reactive persona decides do not fail every time.  (Stated of the bots a
\* liveness property is about.)
FairBotSpec ==
    /\ BotSpec
    /\ \A b \in Readers : /\ WF_allVars(b \in load.bots /\ BotStep(b))
                          /\ SF_allVars(b \in load.bots /\ ReadHoldings(b))
                          /\ SF_allVars(b \in load.bots /\ DecideNewsReactive(b))

-----------------------------------------------------------------------------
(* Correctness.                                                            *)

OrderRow == [card : Cards, type : TradeTypes, shares : Nat \ {0}]

\* A bot asks to sell only what it still owns, although it read its holdings
\* several statements before and others trade the card meanwhile: nobody else
\* moves its shares.  (The orders in the queue of the news-reactive persona are
\* older than the tick, and exempt; so is an account that two overlapping instances
\* of the server trade for, as a bot is one goroutine here.)
SalesAreCovered ==
    \A b \in Bots :
        Persona[b] # "NEWS_REACTIVE" /\ mem[b].order.type = "SELL" =>
            mem[b].order.shares <= holdings[b][mem[b].order.card].shares

\* The quarter of the balance that a purchase is capped to leaves room for its
\* fee, five times the fee too, and for what others did to the price since the
\* snapshot: it is not refused for want of balance, unless the balance was
\* rebalanced after it was read (buyBudgetFraction).
BuysAreAffordable ==
    \A b \in Bots :
        LET o == mem[b].order
        IN  /\ mem[b].pc = "trade" /\ o.type = "BUY"
            /\ users[b].balance = mem[b].balance
            /\ ValidSupply(cards[o.card].supply + o.shares)
            => TradeCharge(cards[o.card], "BUY", o.shares, LastTrade(b, o.card), now)
                  <= users[b].balance

\* The same for any curve, which BotTradersProofs proves: as long as the shares cost
\* no more than three times what they are worth at the price of the snapshot (and
\* that is 5 at least, the fee of a small trade within the window), the budget pays
\* for them.
BudgetHeadroom ==
    \A b \in Bots :
        LET o     == mem[b].order
            worth == o.shares * SeenPrice(mem[b], o.card)
        IN  /\ mem[b].pc = "trade" /\ o.type = "BUY"
            /\ users[b].balance = mem[b].balance
            /\ ValidSupply(cards[o.card].supply + o.shares)
            /\ worth >= 5
            /\ TradeCost(cards[o.card], "BUY", o.shares) <= 3 * worth
            => \A at \in ClockReadings :
                  TradeCharge(cards[o.card], "BUY", o.shares, LastTrade(b, o.card), at)
                      <= users[b].balance

\* A news-reactive bot takes up the events that follow its start in their order,
\* none twice, and passes some over only when NewsPollLimit newer ones had come
\* before it looked again, which it took up instead (pollNewNews).
OnlyOverflowIsSkipped ==
    \A b \in Bots :
        LET heard == mem[b].heard
            taken == {heard[k] : k \in DOMAIN heard}
        IN  /\ \A k \in 2..Len(heard) : heard[k - 1] < heard[k]
            /\ \A i \in (mem[b].seed + 1)..mem[b].cursor :
                  \/ i \in taken
                  \/ \E j \in i..mem[b].cursor : /\ (i..j) \cap taken = {}
                                                 /\ (j + 1)..(j + NewsPollLimit) \subseteq taken

\* Once the news stop, a news-reactive bot has taken up the last of them and made
\* all its trades: the queue, which keeps it from polling, always drains.
NewsCatchesUp ==
    \A b \in Readers :
        <>[](b \in load.bots => mem[b].cursor = Len(news) /\ mem[b].queue = <<>>)
=============================================================================
