-------------------------- MODULE BotTradersProofs --------------------------
(***************************************************************************)
(* Proofs about module BotTraders.  The bots, whatever their personas want *)
(* and however their reads and trades interleave with everything else, are *)
(* users of the ledger, so what is proved of the ledger holds with them;   *)
(* and what a bot has in memory when it trades still fits the ledger.      *)
(***************************************************************************)
EXTENDS BotTraders, LedgerProofs

-----------------------------------------------------------------------------
(* The inductive invariant.                                                *)

Stages == {"idle", "holdings", "decide", "budget", "trade"}

\* A function on some of the cards, as snapshots and the holdings read for them are.
OnCards(f, S) == DOMAIN f \subseteq Cards /\ f \in [DOMAIN f -> S]

\* Where in the news_events table a bot is.
Cursors == Nat \cup {Unseeded}

MemFields == {"pc", "view", "owned", "order", "balance", "history", "cursor", "queue",
              "seed", "heard"}

MemType(m) ==
    /\ DOMAIN m = MemFields /\ m = [f \in MemFields |-> m[f]]
    /\ m.pc \in Stages
    /\ OnCards(m.view, [price : Nat, supply : Nat])
    /\ OnCards(m.owned, Nat)
    /\ m.order \in OrderRow \cup {NoOrder}
    /\ m.balance \in Nat
    /\ m.history \in [Cards -> Seq(Nat)]
    /\ m.cursor \in Cursors /\ m.seed \in Cursors
    /\ m.queue \in Seq(OrderRow)
    /\ m.heard \in Seq(Nat)

\* There is an order exactly between the decision and the trade.
OrderFits(m) ==
    IF m.pc \in {"budget", "trade"} THEN m.order \in OrderRow ELSE m.order = NoOrder

\* At the decision, the bot still has what it read it has.  (A sale can only be
\* covered if it is decided on numbers that are still true.)
HoldingsFit(m, held) ==
    m.pc = "decide" =>
        DOMAIN m.owned = DOMAIN m.view /\ \A c \in DOMAIN m.view : m.owned[c] = held[c].shares

\* A sale that was not queued is of shares the bot has.
SaleFits(b, m, held) ==
    Persona[b] # "NEWS_REACTIVE" /\ m.order.type = "SELL" =>
        m.order.shares <= held[m.order.card].shares

\* A purchase is of at most a quarter of the balance that was read for it.
BudgetFits(m) ==
    m.pc = "trade" /\ m.order.type = "BUY" =>
        4 * (m.order.shares * SeenPrice(m, m.order.card)) <= m.balance

Values(s) == {s[k] : k \in DOMAIN s}
Taken(m)  == Values(m.heard)

\* The events up to j were overtaken by NewsPollLimit newer ones.
Overtaken(m, i, j) ==
    (i..j) \cap Taken(m) = {} /\ (j + 1)..(j + NewsPollLimit) \subseteq Taken(m)

\* The news taken up are in order, and all between the start and the cursor that
\* were not taken up were overtaken by newer ones.  None lies beyond the cursor,
\* and the cursor not beyond the last.
NewsFit(m, last) ==
    /\ m.seed = Unseeded <=> m.cursor = Unseeded
    /\ m.seed <= m.cursor /\ m.cursor <= last
    /\ \A k \in DOMAIN m.heard : m.heard[k] <= m.cursor
    /\ \A k \in 2..Len(m.heard) : m.heard[k - 1] < m.heard[k]
    /\ \A i \in (m.seed + 1)..m.cursor :
          i \in Taken(m) \/ \E j \in i..m.cursor : Overtaken(m, i, j)

\* The memory m of bot b fits the holdings and the number of events there are.
MemFits(b, m, held, last) ==
    /\ MemType(m)
    /\ OrderFits(m)
    /\ HoldingsFit(m, held)
    /\ SaleFits(b, m, held)
    /\ BudgetFits(m)
    /\ NewsFit(m, last)

LoadOK ==
    load \in [bots : SUBSET Bots, people : SUBSET Humans,
              events : SUBSET DOMAIN SectorsByEvent, news : Nat, restarts : Nat]

BotInv ==
    /\ TypeOK
    /\ LoadOK
    /\ news \in Seq(DOMAIN SectorsByEvent)
    /\ DOMAIN mem = Bots /\ mem = [b \in Bots |-> mem[b]]
    /\ \A b \in Bots : MemFits(b, mem[b], holdings[b], Len(news))

-----------------------------------------------------------------------------
(* Order and choice.                                                       *)

\* A set of numbers has a least one.
LEMMA LeastNumber ==
  ASSUME NEW T, T \subseteq Nat, T # {}
  PROVE  \E i \in T : \A j \in T : i <= j
<1> DEFINE Good == {n \in Nat : (\E j \in T : j <= n) => \E i \in T : \A j \in T : i <= j}
<1>1. 0 \in Good
  OBVIOUS
<1>2. ASSUME NEW n \in Nat, n \in Good PROVE n + 1 \in Good
  <2>1. SUFFICES ASSUME NEW j \in T, j <= n + 1, ~\E i \in T : i <= n
                 PROVE  \E i \in T : \A k \in T : i <= k
    BY <1>2
  <2>2. j = n + 1 /\ \A k \in T : j <= k
    BY <2>1
  <2> QED
    BY <2>2
<1> HIDE DEF Good
<1>3. Nat \subseteq Good
  BY <1>1, <1>2, NumberRule
<1>4. PICK t \in T : t \in Nat
  OBVIOUS
<1>5. t \in Good
  BY <1>3, <1>4
<1> QED
  BY <1>4, <1>5 DEF Good

\* There is a first card, by symbol, of those that satisfy a condition.
LEMMA FirstIsOne ==
  ASSUME NEW S, S \subseteq Cards, S # {}
  PROVE  FirstOf(S) \in S
<1> DEFINE Places == {i \in DOMAIN CardOrder : CardOrder[i] \in S}
           First(i) == /\ CardOrder[i] \in S
                       /\ \A j \in 1..(i - 1) : CardOrder[j] \notin S
<1>1. /\ CardOrder \in Seq(Cards)
      /\ \A c \in Cards : \E i \in DOMAIN CardOrder : CardOrder[i] = c
  BY BotTradersAssumption DEF Range
<1>2. Places \subseteq Nat /\ Places # {}
  BY <1>1
<1>3. PICK i \in Places : \A j \in Places : i <= j
  BY <1>2, LeastNumber
<1>4. i \in DOMAIN CardOrder /\ First(i)
  BY <1>1, <1>3
<1>5. First(CHOOSE k \in DOMAIN CardOrder : First(k))
  BY <1>4
<1> QED
  BY <1>5 DEF FirstOf

\* The cards are finitely many.
LEMMA CardsAreFinite == IsFiniteSet(Cards)
<1>1. CardOrder \in Seq(Cards) /\ Range(CardOrder) = Cards
  BY BotTradersAssumption
<1>2. /\ DOMAIN CardOrder = 1..Len(CardOrder) /\ Len(CardOrder) \in Nat
      /\ CardOrder \in [1..Len(CardOrder) -> Cards]
  BY <1>1
<1>3. CardOrder \in Surjection(1..Len(CardOrder), Cards)
  BY <1>1, <1>2 DEF Surjection, Range
<1> QED
  BY <1>2, <1>3, FS_Interval, FS_Surjection

-----------------------------------------------------------------------------
(* Orders.                                                                 *)

\* An order for a card of the snapshot, and if it is a sale for no more than was
\* owned.
FitOrder(m, o) ==
    /\ o \in OrderRow
    /\ o.card \in DOMAIN m.view
    /\ o.type = "SELL" => o.shares <= m.owned[o.card]

\* What a decision works on: all cards of the snapshot have a price and a supply,
\* a number of shares and a history.
Informed(m) ==
    /\ OnCards(m.view, [price : Nat, supply : Nat])
    /\ OnCards(m.owned, Nat)
    /\ DOMAIN m.owned = DOMAIN m.view
    /\ m.history \in [Cards -> Seq(Nat)]

\* Sizes are positive, and a sale is cut to what is owned.
LEMMA OrdersFit ==
  ASSUME NEW m, Informed(m), NEW c \in DOMAIN m.view, NEW type \in TradeTypes,
         type = "SELL" => m.owned[c] > 0,
         NEW o \in Orders(m, c, type)
  PROVE  FitOrder(m, o) /\ o.card = c /\ o.type = type
<1>1. /\ c \in Cards /\ m.view[c].supply \in Nat /\ m.owned[c] \in Nat
  BY DEF Informed, OnCards
<1>2. PICK n \in OrderSizes(m.view[c].supply) : o = Order(m, c, type, n)
  BY DEF Orders
<1>3. n \in Nat \ {0}
  <2>1. PICK k \in ((m.view[c].supply * MinTradePermille) \div 1000)
                      ..((m.view[c].supply * MaxTradePermille) \div 1000) :
               n = ClampShares(k)
    BY <1>2 DEF OrderSizes
  <2>2. k \in Int /\ MaxTradeShares \in Nat \ {0}
    BY <2>1, BotTradersAssumption
  <2> QED
    BY <2>1, <2>2 DEF ClampShares, Smaller
<1>4. o = [card |-> c, type |-> type,
           shares |-> IF type = "SELL" THEN Smaller(m.owned[c], n) ELSE n]
  BY <1>2 DEF Order
<1>5. /\ o.shares \in Nat \ {0}
      /\ type = "SELL" => o.shares <= m.owned[c]
  BY <1>1, <1>3, <1>4 DEF Smaller
<1> QED
  BY <1>1, <1>4, <1>5 DEF FitOrder, OrderRow

\* The moves of prices that differ are ordered by their share of the first price.
LEMMA MovesAreOrdered ==
  ASSUME NEW a \in Int, NEW b \in Int, NEW c \in Int,
         NEW p \in Nat \ {0}, NEW q \in Nat \ {0}, NEW r \in Nat \ {0},
         ~(a * q > b * p), c * q > b * r
  PROVE  ~(a * r > c * p)
<1>1. a * q * r <= b * p * r
  <2>1. a * q <= b * p /\ a * q \in Int /\ b * p \in Int
    OBVIOUS
  <2> QED
    BY <2>1
<1>2. b * p * r < c * q * p
  <2>1. b * r < c * q /\ b * r \in Int /\ c * q \in Int
    OBVIOUS
  <2>2. b * r * p < c * q * p
    BY <2>1
  <2>3. b * r * p = b * p * r
    OBVIOUS
  <2> QED
    BY <2>2, <2>3
<1>3. (a * r) * q < (c * p) * q
  BY <1>1, <1>2
<1>4. a * r \in Int /\ c * p \in Int
  OBVIOUS
<1> HIDE <1>1, <1>2
<1> QED
  BY <1>3, <1>4

\* Among cards whose prices moved there is one that no other outdid.
LEMMA StrongestIsOne ==
  ASSUME NEW m, m.history \in [Cards -> Seq(Nat)], NEW dir \in Int,
         NEW S, S \subseteq Cards, S # {}, \A c \in S : Moved(m.history[c], dir)
  PROVE  Strongest(m, S, dir) \in S
<1> DEFINE More(c, d) == MovedMore(m.history[c], m.history[d], dir)
           Best(T) == {c \in T : \A d \in T : ~More(d, c)}
           Good == {T \in SUBSET S : T = {} \/ Best(T) # {}}
<1>1. ASSUME NEW c \in S
      PROVE  Move(m.history[c], dir) \in Int /\ m.history[c][1] \in Nat \ {0}
  <2>1. m.history[c] \in Seq(Nat) /\ Len(m.history[c]) = HistoryWindow /\ m.history[c][1] # 0
    BY DEF Moved
  <2>2. HistoryWindow \in Nat /\ 1 \in 1..HistoryWindow /\ HistoryWindow \in 1..HistoryWindow
    BY BotTradersAssumption
  <2>3. m.history[c][1] \in Nat /\ m.history[c][HistoryWindow] \in Nat
    BY <2>1, <2>2
  <2> QED
    BY <2>1, <2>3 DEF Move
<1>2. ASSUME NEW c \in S PROVE ~More(c, c)
  <2>1. PICK a \in Int, p \in Nat \ {0} :
          a = Move(m.history[c], dir) /\ p = m.history[c][1]
    BY <1>1
  <2>2. ~(a * p > a * p)
    BY <2>1
  <2> QED
    BY <2>1, <2>2 DEF MovedMore
<1>3. ASSUME NEW c \in S, NEW d \in S, NEW e \in S, ~More(c, d), More(e, d)
      PROVE  ~More(c, e)
  <2>1. PICK a \in Int, b \in Int, x \in Int, p \in Nat \ {0}, q \in Nat \ {0}, r \in Nat \ {0} :
          /\ a = Move(m.history[c], dir) /\ p = m.history[c][1]
          /\ b = Move(m.history[d], dir) /\ q = m.history[d][1]
          /\ x = Move(m.history[e], dir) /\ r = m.history[e][1]
    BY <1>1
  <2>2. ~(a * q > b * p) /\ x * q > b * r
    BY <1>3, <2>1 DEF MovedMore
  <2>3. ~(a * r > x * p)
    BY <2>2, MovesAreOrdered
  <2> QED
    BY <2>1, <2>3 DEF MovedMore
<1> HIDE DEF More
<1>4. ASSUME NEW T \in SUBSET S, \A x \in T : T \ {x} \in Good
      PROVE  T \in Good
  <2>1. SUFFICES ASSUME NEW x \in T PROVE Best(T) # {}
    OBVIOUS
  <2>2. CASE T \ {x} = {}
    BY <1>2, <2>2
  <2>3. CASE T \ {x} # {}
    <3>1. PICK c \in T \ {x} : \A d \in T \ {x} : ~More(d, c)
      BY <1>4, <2>1, <2>3
    <3>2. CASE More(x, c)
      <4>1. \A d \in T : ~More(d, x)
        BY <1>2, <1>3, <3>1, <3>2
      <4> QED
        BY <4>1
    <3>3. CASE ~More(x, c)
      BY <3>1, <3>3
    <3> QED
      BY <3>2, <3>3
  <2> QED
    BY <2>2, <2>3
<1>5. IsFiniteSet(S)
  BY CardsAreFinite, FS_Subset
<1> HIDE DEF Good
<1>6. SUBSET S \subseteq Good
  BY <1>4, <1>5, SubsetRule
<1>7. Best(S) # {}
  BY <1>6 DEF Good
<1>8. FirstOf(Best(S)) \in Best(S)
  BY <1>7, FirstIsOne
<1> QED
  BY <1>8 DEF Strongest, More

\* What the random walker may do: buy any card, or sell one it owns.
LEMMA RandomOrdersAre ==
  ASSUME NEW m, NEW o \in RandomOrders(m)
  PROVE  \E c \in DOMAIN m.view :
            \/ o \in Orders(m, c, "BUY")
            \/ o \in Orders(m, c, "SELL") /\ m.owned[c] > 0
<1>1. PICK c \in DOMAIN m.view : o \in AnyOrders(m, c)
  BY DEF RandomOrders
<1> QED
  BY <1>1 DEF AnyOrders

\* Whatever its persona, a bot that does not wait for news decides on an order that
\* fits what it saw.
LEMMA PersonaOrdersFit ==
  ASSUME NEW b \in Bots, Informed(mem[b]), Persona[b] # "NEWS_REACTIVE",
         NEW o \in PersonaOrders(b)
  PROVE  FitOrder(mem[b], o)
<1> DEFINE m == mem[b]
<1>1. /\ m.history \in [Cards -> Seq(Nat)]
      /\ DOMAIN m.view \subseteq Cards /\ DOMAIN m.owned = DOMAIN m.view
      /\ "BUY" \in TradeTypes /\ "SELL" \in TradeTypes /\ "BUY" # "SELL"
  BY DEF Informed, OnCards, TradeTypes
<1>2. ASSUME NEW dir \in Int, o \in TrendOrders(m, dir) PROVE FitOrder(m, o)
  <2> DEFINE toBuy  == {c \in DOMAIN m.view : Moved(m.history[c], dir)}
             toSell == {c \in DOMAIN m.view : Moved(m.history[c], -dir) /\ m.owned[c] > 0}
  <2>1. CASE toBuy # {}
    <3>1. Strongest(m, toBuy, dir) \in toBuy
      BY <1>1, <2>1, StrongestIsOne
    <3>2. o \in Orders(m, Strongest(m, toBuy, dir), "BUY")
      BY <1>2, <2>1 DEF TrendOrders
    <3> QED
      BY <1>1, <3>1, <3>2, OrdersFit
  <2>2. CASE toBuy = {} /\ toSell # {}
    <3>1. Strongest(m, toSell, -dir) \in toSell
      <4>1. PICK opposite \in Int : opposite = -dir
        OBVIOUS
      <4>2. /\ toSell \subseteq Cards /\ toSell # {}
            /\ \A c \in toSell : Moved(m.history[c], opposite)
        BY <1>1, <2>2, <4>1
      <4> HIDE DEF toSell
      <4>3. Strongest(m, toSell, opposite) \in toSell
        BY <1>1, <4>2, StrongestIsOne
      <4> QED
        BY <4>1, <4>3
    <3>2. o \in Orders(m, Strongest(m, toSell, -dir), "SELL")
      BY <1>2, <2>2 DEF TrendOrders
    <3> QED
      <4>1. PICK c \in DOMAIN m.view :
              m.owned[c] > 0 /\ c = Strongest(m, toSell, -dir)
        BY <3>1
      <4>2. o \in Orders(m, c, "SELL")
        BY <3>2, <4>1
      <4>3. Informed(m) /\ "SELL" \in TradeTypes
        BY <1>1
      <4> HIDE DEF m, toBuy, toSell
      <4> QED
        BY <4>1, <4>2, <4>3, OrdersFit
  <2>3. ~(toBuy = {} /\ toSell = {})
    BY <1>2 DEF TrendOrders
  <2> QED
    BY <2>1, <2>2, <2>3
<1>3. ASSUME o \in RandomOrders(m) PROVE FitOrder(m, o)
  <2>1. PICK c \in DOMAIN m.view :
          \/ o \in Orders(m, c, "BUY")
          \/ o \in Orders(m, c, "SELL") /\ m.owned[c] > 0
    BY <1>3, RandomOrdersAre
  <2> QED
    BY <1>1, <2>1, OrdersFit
<1>4. ASSUME o \in TrackerOrders(m) PROVE FitOrder(m, o)
  <2> DEFINE off == {c \in DOMAIN m.view : \E t \in TradeTypes : TrackerWants(m, c, t)}
  <2>1. off # {}
    BY <1>4 DEF TrackerOrders
  <2>2. FirstOf(off) \in off
    BY <1>1, <2>1, FirstIsOne
  <2> DEFINE c == FirstOf(off)
  <2>3. PICK t \in TradeTypes : TrackerWants(m, c, t) /\ o \in Orders(m, c, t)
    BY <1>4, <2>1 DEF TrackerOrders
  <2>4. t = "SELL" => m.owned[c] > 0
    BY <1>1, <2>3 DEF TrackerWants
  <2>5. c \in DOMAIN m.view
    BY <2>2
  <2> HIDE DEF c
  <2> QED
    BY <2>3, <2>4, <2>5, OrdersFit
<1>5. \/ Persona[b] = "MOMENTUM" /\ o \in TrendOrders(m, 1)
      \/ Persona[b] = "CONTRARIAN" /\ o \in TrendOrders(m, -1)
      \/ Persona[b] = "RANDOM_WALKER" /\ o \in RandomOrders(m)
      \/ Persona[b] = "INDEX_TRACKER" /\ o \in TrackerOrders(m)
  BY BotTradersAssumption DEF Personas, PersonaOrders
<1> QED
  BY <1>2, <1>3, <1>4, <1>5

-----------------------------------------------------------------------------
(* The queue of the news-reactive persona.                                 *)

\* A batch of events leads to finitely many trades.
LEMMA ReactionsAreFinite ==
  ASSUME NEW m, NEW S, NEW batch \in Seq(S)
  PROVE  Cardinality(Reactions(m, batch)) \in Nat
<1>1. CardOrder \in Seq(Cards)
  BY BotTradersAssumption
<1>2. /\ Len(batch) \in Nat /\ DOMAIN batch = 1..Len(batch)
      /\ Len(CardOrder) \in Nat /\ DOMAIN CardOrder = 1..Len(CardOrder)
  BY <1>1
<1>3. IsFiniteSet(DOMAIN batch) /\ IsFiniteSet(DOMAIN CardOrder)
  BY <1>2, FS_Interval
<1>4. IsFiniteSet((DOMAIN batch) \X (DOMAIN CardOrder))
  BY <1>3, FS_Product
<1>5. Reactions(m, batch) \subseteq (DOMAIN batch) \X (DOMAIN CardOrder)
  BY DEF Reactions
<1>6. IsFiniteSet(Reactions(m, batch))
  BY <1>4, <1>5, FS_Subset
<1> QED
  BY <1>6, FS_CardinalityType

\* Each is an order that fits what the bot saw.
LEMMA ReactionOrdersFit ==
  ASSUME NEW m, Informed(m), NEW S, NEW batch \in Seq(S),
         NEW r \in Reactions(m, batch), NEW o \in ReactionOrders(m, batch, r)
  PROVE  o \in OrderRow
<1> DEFINE event == news[batch[r[1]]]
           c     == CardOrder[r[2]]
<1>1. Affected(m, event, c)
  BY DEF Reactions
<1>2. /\ c \in DOMAIN m.view
      /\ event \in DOMAIN Direction
      /\ Direction[event] = "SELL" => m.owned[c] > 0
  BY <1>1 DEF Affected
<1>3. Direction[event] \in TradeTypes
  BY <1>2 DEF Direction, TradeTypes
<1>4. o \in Orders(m, c, Direction[event])
  BY DEF ReactionOrders
<1> HIDE DEF event, c
<1>5. PICK type \in TradeTypes : type = Direction[event]
  BY <1>3
<1>6. FitOrder(m, o)
  BY <1>2, <1>4, <1>5, OrdersFit
<1> QED
  BY <1>6 DEF FitOrder

\* The queue is a sequence of orders.
LEMMA QueueFits ==
  ASSUME NEW m, Informed(m), NEW S, NEW batch \in Seq(S), NEW q \in Queues(m, batch)
  PROVE  q \in Seq(OrderRow)
<1> DEFINE R == Reactions(m, batch)
           O == UNION {ReactionOrders(m, batch, r) : r \in R}
<1>1. PICK e \in Arrangements(R) : q \in Sized(m, batch, e)
  BY DEF Queues
<1>2. e \in [1..Cardinality(R) -> R]
  BY DEF Arrangements
<1>3. Cardinality(R) \in Nat
  BY ReactionsAreFinite
<1>4. \A r \in R : \A o \in ReactionOrders(m, batch, r) : o \in OrderRow
  BY ReactionOrdersFit
<1>5. O \subseteq OrderRow
  BY <1>4
<1>6. q \in [1..Cardinality(R) -> OrderRow]
  <2>1. q \in [DOMAIN e -> O] /\ DOMAIN e = 1..Cardinality(R)
    BY <1>1, <1>2 DEF Sized
  <2> HIDE DEF O, R
  <2> QED
    BY <1>5, <2>1
<1> HIDE DEF R
<1> QED
  BY <1>3, <1>6

-----------------------------------------------------------------------------
(* What a bot has in memory keeps fitting.                                 *)

\* Nothing of it depends on what others do: on other holdings, or on news to come.
LEMMA StillFits ==
  ASSUME NEW b, NEW m, NEW held, NEW last \in Nat, MemFits(b, m, held, last),
         NEW held2, \A c \in Cards : held2[c].shares = held[c].shares,
         NEW last2 \in Nat, last <= last2
  PROVE  MemFits(b, m, held2, last2)
<1>1. /\ MemType(m) /\ OrderFits(m) /\ BudgetFits(m)
      /\ HoldingsFit(m, held) /\ SaleFits(b, m, held) /\ NewsFit(m, last)
  BY DEF MemFits
<1>2. HoldingsFit(m, held2)
  <2>1. DOMAIN m.view \subseteq Cards
    BY <1>1 DEF MemType, OnCards
  <2> QED
    BY <1>1, <2>1 DEF HoldingsFit
<1>3. SaleFits(b, m, held2)
  <2>1. m.order.type = "SELL" => m.order.card \in Cards
    BY <1>1 DEF MemType, OrderRow, NoOrder
  <2> QED
    BY <1>1, <2>1 DEF SaleFits
<1>4. NewsFit(m, last2)
  <2>1. m.cursor \in Int
    BY <1>1 DEF MemType, Cursors, Unseeded
  <2> QED
    BY <1>1, <2>1 DEF NewsFit
<1> QED
  BY <1>1, <1>2, <1>3, <1>4 DEF MemFits

\* A bot that starts has nothing in memory.
LEMMA NewBotFits ==
  ASSUME NEW b, NEW held, NEW last \in Nat
  PROVE  MemFits(b, NewBot, held, last)
<1>1. MemType(NewBot)
  BY DEF MemType, MemFields, NewBot, Stages, OnCards, NoOrder, Cursors, Unseeded
<1>2. /\ OrderFits(NewBot) /\ HoldingsFit(NewBot, held) /\ SaleFits(b, NewBot, held)
      /\ BudgetFits(NewBot)
  BY DEF OrderFits, HoldingsFit, SaleFits, BudgetFits, NewBot, NoOrder
<1>3. NewsFit(NewBot, last)
  BY DEF NewsFit, NewBot, Unseeded
<1> QED
  BY <1>1, <1>2, <1>3 DEF MemFits

\* Memories that agree about the news fit it alike.
LEMMA SameNews ==
  ASSUME NEW m, NEW n, NEW last, NewsFit(m, last),
         n.cursor = m.cursor, n.seed = m.seed, n.heard = m.heard
  PROVE  NewsFit(n, last)
BY DEF NewsFit, Taken, Overtaken

\* At the end of a tick a bot keeps only what it remembers.
LEMMA RestedFits ==
  ASSUME NEW b, NEW m, MemType(m), NEW held, NEW last, NewsFit(m, last)
  PROVE  MemFits(b, Rested(m), held, last)
<1> DEFINE n == Rested(m)
<1>1. /\ DOMAIN n = MemFields /\ n = [f \in MemFields |-> n[f]]
      /\ n.pc = "idle" /\ n.view = <<>> /\ n.owned = <<>> /\ n.order = NoOrder
      /\ n.balance = 0 /\ n.history = m.history /\ n.cursor = m.cursor
      /\ n.queue = m.queue /\ n.seed = m.seed /\ n.heard = m.heard
  BY DEF Rested, MemType, MemFields
<1> HIDE DEF n
<1>2. MemType(n)
  <2>1. OnCards(n.view, [price : Nat, supply : Nat]) /\ OnCards(n.owned, Nat)
    <3>1. OnCards(<<>>, [price : Nat, supply : Nat]) /\ OnCards(<<>>, Nat)
      BY DEF OnCards
    <3> QED
      BY <1>1, <3>1
  <2> QED
    BY <1>1, <2>1 DEF MemType, Stages
<1>3. /\ OrderFits(n) /\ HoldingsFit(n, held) /\ SaleFits(b, n, held) /\ BudgetFits(n)
  BY <1>1 DEF OrderFits, HoldingsFit, SaleFits, BudgetFits, NoOrder
<1>4. NewsFit(n, last)
  BY <1>1, SameNews
<1>5. MemFits(b, n, held, last)
  BY <1>2, <1>3, <1>4 DEF MemFits
<1> QED
  BY <1>5 DEF n

\* The next trade of the queue is an order as any other.
LEMMA TakeNextFits ==
  ASSUME NEW b, Persona[b] = "NEWS_REACTIVE", NEW m, MemType(m),
         NEW held, NEW last, NewsFit(m, last), NEW q \in Seq(OrderRow)
  PROVE  MemFits(b, TakeNext(m, q), held, last)
<1>1. CASE q = <<>>
  BY <1>1, RestedFits DEF TakeNext
<1>2. CASE q # <<>>
  <2> DEFINE n == [m EXCEPT !.pc = "budget", !.order = Head(q), !.queue = Tail(q)]
  <2>1. Head(q) \in OrderRow /\ Tail(q) \in Seq(OrderRow)
    BY <1>2
  <2>2. /\ DOMAIN n = MemFields /\ n = [f \in MemFields |-> n[f]]
        /\ n.pc = "budget" /\ n.view = m.view /\ n.owned = m.owned /\ n.order = Head(q)
        /\ n.balance = m.balance /\ n.history = m.history /\ n.cursor = m.cursor
        /\ n.queue = Tail(q) /\ n.seed = m.seed /\ n.heard = m.heard
    BY DEF MemType, MemFields
  <2> HIDE DEF n
  <2>3. MemType(n)
    BY <2>1, <2>2 DEF MemType, Stages
  <2>4. OrderFits(n) /\ HoldingsFit(n, held) /\ SaleFits(b, n, held) /\ BudgetFits(n)
    BY <2>1, <2>2 DEF OrderFits, HoldingsFit, SaleFits, BudgetFits
  <2>5. NewsFit(n, last)
    BY <2>2, SameNews
  <2>6. MemFits(b, n, held, last)
    BY <2>3, <2>4, <2>5 DEF MemFits
  <2> QED
    BY <1>2, <2>6 DEF TakeNext, n
<1> QED
  BY <1>1, <1>2

-----------------------------------------------------------------------------
(* The cursor of the news-reactive persona.                                *)

\* Where a poll starts reading.
PollFrom(m) ==
    IF Len(news) - NewsPollLimit > m.cursor THEN Len(news) - NewsPollLimit ELSE m.cursor

\* What a poll reads: the events after that place.
LEMMA FreshFacts ==
  ASSUME NEW m, MemType(m), m.cursor # Unseeded, Len(news) \in Nat, m.cursor <= Len(news)
  PROVE  /\ PollFrom(m) \in Nat /\ m.cursor <= PollFrom(m) /\ PollFrom(m) <= Len(news)
         /\ PollFrom(m) # m.cursor => PollFrom(m) + NewsPollLimit = Len(news)
         /\ FreshEvents(m) \in Seq(Nat)
         /\ Len(FreshEvents(m)) = Len(news) - PollFrom(m)
         /\ \A k \in 1..(Len(news) - PollFrom(m)) : FreshEvents(m)[k] = PollFrom(m) + k
<1>1. m.cursor \in Nat /\ NewsPollLimit \in Nat \ {0}
  BY BotTradersAssumption DEF MemType, Cursors
<1>2. PICK from \in Nat : from = PollFrom(m)
  BY <1>1 DEF PollFrom
<1>3. /\ m.cursor <= from /\ from <= Len(news)
      /\ from # m.cursor => from + NewsPollLimit = Len(news)
  BY <1>1, <1>2 DEF PollFrom
<1>4. FreshEvents(m) = [k \in 1..(Len(news) - from) |-> from + k]
  BY <1>2 DEF FreshEvents, PollFrom
<1>5. Len(news) - from \in Nat
  BY <1>3
<1>6. /\ FreshEvents(m) \in [1..(Len(news) - from) -> Nat]
      /\ FreshEvents(m) \in Seq(Nat) /\ Len(FreshEvents(m)) = Len(news) - from
  BY <1>4, <1>5
<1> QED
  BY <1>2, <1>3, <1>4, <1>6

\* What the concatenation of two sequences of numbers is.
LEMMA JoinedFacts ==
  ASSUME NEW s \in Seq(Nat), NEW t \in Seq(Nat)
  PROVE  /\ s \o t \in Seq(Nat) /\ Len(s \o t) = Len(s) + Len(t)
         /\ DOMAIN (s \o t) = 1..(Len(s) + Len(t))
         /\ \A k \in 1..Len(s) : (s \o t)[k] = s[k]
         /\ \A k \in 1..Len(t) : (s \o t)[Len(s) + k] = t[k]
OBVIOUS

\* The sequence r is s and then the numbers after from up to last.
Continues(r, s, from, last) ==
    /\ Len(r) = Len(s) + (last - from)
    /\ DOMAIN r = 1..(Len(s) + (last - from))
    /\ \A k \in 1..Len(s) : r[k] = s[k]
    /\ \A k \in 1..(last - from) : r[Len(s) + k] = from + k
    /\ Values(r) = Values(s) \cup (from + 1)..last

\* After a poll the events taken up are those before and those it read.
LEMMA PollTakes ==
  ASSUME NEW s \in Seq(Nat), NEW from \in Nat, NEW last \in Nat, from <= last,
         NEW t \in Seq(Nat), Len(t) = last - from,
         \A k \in 1..(last - from) : t[k] = from + k,
         NEW r \in Seq(Nat), r = s \o t
  PROVE  Continues(r, s, from, last)
<1>1. PICK size \in Nat : size = Len(s)
  OBVIOUS
<1>2. /\ r \in Seq(Nat) /\ Len(r) = size + (last - from)
      /\ DOMAIN r = 1..(size + (last - from)) /\ DOMAIN s = 1..size
      /\ \A k \in 1..size : r[k] = s[k]
      /\ \A k \in 1..(last - from) : r[size + k] = t[k]
  <2>1. PICK both : both = s \o t
    OBVIOUS
  <2>2. /\ both \in Seq(Nat) /\ Len(both) = Len(s) + Len(t)
        /\ DOMAIN both = 1..(Len(s) + Len(t))
        /\ \A k \in 1..Len(s) : both[k] = s[k]
        /\ \A k \in 1..Len(t) : both[Len(s) + k] = t[k]
    BY <2>1, JoinedFacts
  <2> QED
    BY <1>1, <2>1, <2>2
<1>3. \A k \in 1..(last - from) : r[size + k] = from + k
  BY <1>2
<1>4. ASSUME NEW x \in Values(s) PROVE x \in Values(r)
  BY <1>2, <1>4 DEF Values
<1>5. ASSUME NEW x \in (from + 1)..last PROVE x \in Values(r)
  <2>1. PICK k \in 1..(last - from) : x = from + k
    <3>1. x - from \in 1..(last - from) /\ x = from + (x - from)
      OBVIOUS
    <3> QED
      BY <3>1
  <2>2. x = r[size + k] /\ size + k \in DOMAIN r
    BY <1>2, <1>3, <2>1
  <2> QED
    BY <2>2 DEF Values
<1>6. ASSUME NEW x \in Values(r) PROVE x \in Values(s) \cup (from + 1)..last
  <2>1. PICK k \in 1..(size + (last - from)) : x = r[k]
    BY <1>2, <1>6 DEF Values
  <2>2. CASE k <= size
    <3>1. k \in DOMAIN s /\ x = s[k]
      BY <1>2, <2>1, <2>2
    <3> QED
      BY <3>1 DEF Values
  <2>3. CASE k > size
    <3>1. PICK j \in 1..(last - from) : k = size + j
      <4>1. k - size \in 1..(last - from) /\ k = size + (k - size)
        BY <2>3
      <4> QED
        BY <4>1
    <3>2. x = from + j
      BY <1>3, <2>1, <3>1
    <3> QED
      BY <3>2
  <2> QED
    BY <2>2, <2>3
<1>7. Values(r) = Values(s) \cup (from + 1)..last
  BY <1>4, <1>5, <1>6
<1> QED
  BY <1>1, <1>2, <1>3, <1>7 DEF Continues

\* A poll keeps the news that were taken up in order, and passes over only what
\* newer events overtook.
LEMMA PollFits ==
  ASSUME NEW m, MemType(m), m.cursor # Unseeded, Len(news) \in Nat, NewsFit(m, Len(news)),
         NEW n, n.cursor = Len(news), n.seed = m.seed, n.heard = m.heard \o FreshEvents(m)
  PROVE  NewsFit(n, Len(news))
<1>1. /\ m.heard \in Seq(Nat) /\ Len(m.heard) \in Nat /\ DOMAIN m.heard = 1..Len(m.heard)
      /\ m.cursor \in Nat /\ m.seed \in Nat /\ m.cursor <= Len(news) /\ m.seed <= m.cursor
  BY DEF MemType, Cursors, NewsFit
<1>2. PICK from \in Nat, last \in Nat, cursor \in Nat, seed \in Nat, size \in Nat :
        /\ from = PollFrom(m) /\ last = Len(news) /\ cursor = m.cursor /\ seed = m.seed
        /\ size = Len(m.heard)
  BY <1>1, FreshFacts
<1>3. /\ cursor <= from /\ from <= last /\ seed <= cursor
      /\ from # cursor => from + NewsPollLimit = last
      /\ NewsPollLimit \in Nat \ {0}
  BY <1>1, <1>2, FreshFacts, BotTradersAssumption
<1>4. PICK heard \in Seq(Nat), batch \in Seq(Nat) :
        /\ heard = m.heard /\ batch = FreshEvents(m) /\ n.heard = heard \o batch
        /\ size = Len(heard) /\ Len(batch) = last - from
        /\ \A k \in 1..(last - from) : batch[k] = from + k
  BY <1>1, <1>2, FreshFacts
<1>5. PICK all \in Seq(Nat) : all = n.heard
  BY <1>4, JoinedFacts
<1>6. /\ Len(all) = size + (last - from)
      /\ DOMAIN all = 1..(size + (last - from))
      /\ \A k \in 1..size : all[k] = heard[k]
      /\ \A k \in 1..(last - from) : all[size + k] = from + k
      /\ Values(all) = Values(heard) \cup (from + 1)..last
  <2>1. /\ from \in Nat /\ last \in Nat
        /\ heard \in Seq(Nat) /\ batch \in Seq(Nat) /\ all \in Seq(Nat)
    BY <1>5, <1>2, <1>4
  <2>2. all = heard \o batch /\ Len(batch) = last - from /\ from <= last
        /\ \A k \in 1..(last - from) : batch[k] = from + k
    BY <1>5, <1>3, <1>4
  <2>3. Continues(all, heard, from, last)
    BY <2>1, <2>2, PollTakes
  <2> QED
    BY <1>4, <2>3 DEF Continues
<1>7. /\ \A k \in 1..size : heard[k] \in Nat /\ heard[k] <= cursor
      /\ \A k \in 2..size : heard[k - 1] < heard[k]
      /\ \A i \in (seed + 1)..cursor :
            i \in Taken(m) \/ \E j \in i..cursor : Overtaken(m, i, j)
  <2>1. \A k \in 1..size : heard[k] \in Nat /\ heard[k] <= cursor
    <3>1. DOMAIN heard = 1..size
      BY <1>4
    <3>2. \A k \in DOMAIN m.heard : m.heard[k] <= cursor
      BY <1>2 DEF NewsFit
    <3>3. \A k \in 1..size : heard[k] \in Nat
      <4>1. heard \in Seq(Nat)
        BY <1>4
      <4> QED
        BY <3>1, <4>1
    <3> QED
      BY <1>4, <3>1, <3>2, <3>3
  <2>2. \A k \in 2..size : heard[k - 1] < heard[k]
    BY <1>1, <1>2, <1>4 DEF NewsFit
  <2>3. \A i \in (seed + 1)..cursor :
           i \in Taken(m) \/ \E j \in i..cursor : Overtaken(m, i, j)
    BY <1>2 DEF NewsFit
  <2> QED
    BY <2>1, <2>2, <2>3
<1>8. Taken(m) \subseteq 0..cursor /\ Taken(n) = Taken(m) \cup (from + 1)..last
  <2>1. Values(heard) \subseteq 0..cursor
    BY <1>4, <1>7 DEF Values
  <2> QED
    BY <1>5, <1>4, <1>6, <2>1 DEF Taken
<1>9. ASSUME NEW k \in 1..(size + (last - from))
      PROVE  \/ k \in 1..size /\ all[k] = heard[k]
             \/ k > size /\ all[k] = from + (k - size)
  <2>1. CASE k > size
    <3>1. PICK j \in 1..(last - from) : k = size + j
      <4>1. k - size \in 1..(last - from) /\ k = size + (k - size)
        BY <2>1
      <4> QED
        BY <4>1
    <3>2. all[k] = from + j
      BY <1>6, <3>1
    <3> QED
      BY <2>1, <3>1, <3>2
  <2>2. CASE k <= size
    BY <1>6, <2>2
  <2> QED
    BY <2>1, <2>2
<1>10. \A k \in DOMAIN all : all[k] <= last
  <2>1. SUFFICES ASSUME NEW k \in 1..(size + (last - from)) PROVE all[k] <= last
    BY <1>6
  <2>2. CASE k \in 1..size /\ all[k] = heard[k]
    BY <1>3, <1>7, <2>2
  <2>3. CASE k > size /\ all[k] = from + (k - size)
    BY <1>3, <2>3
  <2> QED
    BY <1>9, <2>2, <2>3
<1>11. \A k \in 2..Len(all) : all[k - 1] < all[k]
  <2>1. SUFFICES ASSUME NEW k \in 2..(size + (last - from)) PROVE all[k - 1] < all[k]
    BY <1>6
  <2>2. PICK j \in 1..(size + (last - from)) : j = k - 1
    BY <1>3
  <2>3. CASE k \in 1..size /\ all[k] = heard[k]
    <3>1. k \in 2..size /\ j \in 1..size
      <4>1. size \in Nat
        BY <1>2
      <4>2. k \in Int /\ 2 <= k /\ k <= size
        BY <2>1, <2>3, <4>1
      <4> QED
        BY <2>2, <4>1, <4>2
    <3>2. all[j] = heard[j] /\ heard[k - 1] < heard[k]
      BY <1>6, <1>7, <3>1
    <3> QED
      BY <2>2, <2>3, <3>2
  <2>4. CASE j = size /\ k > size /\ all[k] = from + (k - size)
    <3>1. k = size + 1 /\ all[k] = from + 1
      <4>1. k \in Nat /\ size \in Nat /\ from \in Nat
        BY <1>2, <2>1
      <4>2. k = size + 1
        BY <2>2, <2>4, <4>1
      <4>3. all[k] = from + (k - size)
        BY <2>4
      <4> QED
        BY <4>1, <4>2, <4>3
    <3>2. all[j] = heard[j] /\ heard[j] <= cursor /\ heard[j] \in Nat
      <4>1. j \in 1..size
        BY <1>2, <2>2, <2>4
      <4> QED
        BY <1>6, <1>7, <4>1
    <3>3. all[j] < all[k]
      <4>1. PICK x \in Nat : x = heard[j]
        BY <3>2
      <4>2. cursor \in Nat /\ from \in Nat /\ cursor <= from /\ x <= cursor
        BY <1>2, <1>3, <3>2, <4>1
      <4>3. x < from + 1
        BY <4>2
      <4> QED
        BY <3>1, <3>2, <4>1, <4>3
    <3> QED
      BY <2>2, <3>3
  <2>5. CASE j > size /\ all[k] = from + (k - size) /\ all[j] = from + (j - size)
    <3>1. from \in Nat /\ size \in Nat /\ k \in Int /\ j \in Int /\ j = k - 1
      BY <1>2, <2>1, <2>2
    <3>2. from + (j - size) < from + (k - size)
      BY <3>1
    <3>3. all[j] < all[k]
      BY <2>5, <3>2
    <3> QED
      BY <2>2, <3>3
  <2> QED
    BY <1>9, <2>2, <2>3, <2>4, <2>5
<1>12. ASSUME NEW i \in (seed + 1)..last
      PROVE  i \in Taken(n) \/ \E j \in i..last : Overtaken(n, i, j)
  <2>1. CASE i \in (from + 1)..last
    BY <1>8, <2>1
  <2>2. CASE i \in (cursor + 1)..from
    <3>1. Overtaken(n, i, from)
      <4>1. from + NewsPollLimit = last
        BY <1>3, <2>2
      <4> QED
        BY <1>3, <1>8, <2>2, <4>1 DEF Overtaken
    <3>2. from \in i..last
      BY <1>3, <2>2
    <3> QED
      BY <3>1, <3>2
  <2>3. CASE i \in (seed + 1)..cursor /\ i \notin Taken(m)
    <3>1. PICK j \in i..cursor : Overtaken(m, i, j)
      BY <1>7, <2>3
    <3>2. Overtaken(n, i, j) /\ j \in i..last
      <4>1. (i..j) \cap Taken(n) = {}
        BY <1>3, <1>8, <2>3, <3>1 DEF Overtaken
      <4>2. (j + 1)..(j + NewsPollLimit) \subseteq Taken(n)
        BY <1>8, <3>1 DEF Overtaken
      <4> QED
        BY <1>3, <3>1, <4>1, <4>2 DEF Overtaken
    <3> QED
      BY <3>2
  <2>4. CASE i \in Taken(m)
    BY <1>8, <2>4
  <2> QED
    BY <1>3, <2>1, <2>2, <2>3, <2>4
<1>13. n.seed = Unseeded <=> n.cursor = Unseeded
  BY <1>1, <1>2 DEF Unseeded
<1>14. /\ n.seed <= n.cursor /\ n.cursor <= Len(news)
       /\ \A k \in DOMAIN n.heard : n.heard[k] <= n.cursor
       /\ \A k \in 2..Len(n.heard) : n.heard[k - 1] < n.heard[k]
  <2>1. n.heard = all /\ n.cursor = last /\ n.seed = seed
    BY <1>5, <1>2
  <2> QED
    BY <1>2, <1>3, <1>10, <1>11, <2>1
<1>15. \A i \in (n.seed + 1)..n.cursor :
          i \in Taken(n) \/ \E j \in i..n.cursor : Overtaken(n, i, j)
  BY <1>2, <1>12
<1> QED
  BY <1>13, <1>14, <1>15 DEF NewsFit

-----------------------------------------------------------------------------
(* The steps of a bot.                                                     *)

\* What a bot has in memory, and what the ledger has of it, at any time.
LEMMA MemoryFacts ==
  ASSUME BotInv, NEW b \in Bots
  PROVE  /\ MemType(mem[b]) /\ OrderFits(mem[b]) /\ HoldingsFit(mem[b], holdings[b])
         /\ SaleFits(b, mem[b], holdings[b]) /\ BudgetFits(mem[b])
         /\ NewsFit(mem[b], Len(news))
         /\ MemFits(b, mem[b], holdings[b], Len(news))
         /\ Len(news) \in Nat
         /\ holdings[b] \in [Cards -> HoldingRow]
         /\ users[b].balance \in Nat
<1>1. b \in Users
  BY DEF Users
<1>2. holdings[b] \in [Cards -> HoldingRow] /\ users[b].balance \in Nat
  BY <1>1 DEF BotInv, TypeOK, UserRow
<1>3. Len(news) \in Nat
  BY DEF BotInv
<1>4. MemFits(b, mem[b], holdings[b], Len(news))
  BY DEF BotInv
<1> QED
  BY <1>2, <1>3, <1>4 DEF MemFits

\* A step is right if what it leaves in the memory of the bot that takes it fits,
\* and it moves no shares of other bots.
LEMMA OneBotSteps ==
  ASSUME BotInv, [AnySizeNext]_vars, NEW b \in Bots,
         DOMAIN mem' = Bots, mem' = [d \in Bots |-> mem'[d]],
         \A d \in Bots : d # b => mem'[d] = mem[d],
         \A d \in Bots : d # b =>
            \A c \in Cards : holdings'[d][c].shares = holdings[d][c].shares,
         MemFits(b, mem'[b], holdings'[b], Len(news)),
         UNCHANGED <<news, load>>
  PROVE  BotInv'
<1>1. TypeOK' /\ LoadOK' /\ (news \in Seq(DOMAIN SectorsByEvent))'
  BY NextType DEF BotInv, LoadOK
<1>2. ASSUME NEW d \in Bots PROVE MemFits(d, mem'[d], holdings'[d], Len(news)')
  <2>1. CASE d = b
    BY <2>1
  <2>2. CASE d # b
    <3>1. MemFits(d, mem[d], holdings[d], Len(news)) /\ Len(news) \in Nat
      BY MemoryFacts
    <3>0. PICK last \in Nat : last = Len(news)
      BY <3>1
    <3>2. PICK m, held, held2 : m = mem[d] /\ held = holdings[d] /\ held2 = holdings'[d]
      OBVIOUS
    <3>3. MemFits(d, m, held, last) /\ last <= last
          /\ \A c \in Cards : held2[c].shares = held[c].shares
      BY <2>2, <3>0, <3>1, <3>2
    <3>4. MemFits(d, m, held2, last)
      BY <3>3, StillFits
    <3>5. mem'[d] = m /\ Len(news)' = last
      BY <2>2, <3>0, <3>2
    <3> QED
      BY <3>2, <3>4, <3>5
  <2> QED
    BY <2>1, <2>2
<1> QED
  BY <1>1, <1>2 DEF BotInv

\* A step inside a bot leaves the ledger alone.
LEMMA QuietBotSteps ==
  ASSUME BotInv, NEW b \in Bots,
         DOMAIN mem' = Bots, mem' = [d \in Bots |-> mem'[d]],
         \A d \in Bots : d # b => mem'[d] = mem[d],
         MemFits(b, mem'[b], holdings[b], Len(news)),
         UNCHANGED <<vars, news, load>>
  PROVE  BotInv'
<1>1. [AnySizeNext]_vars /\ holdings' = holdings
  BY DEF vars
<1>2. MemFits(b, mem'[b], holdings'[b], Len(news))
  BY <1>1
<1>3. \A d \in Bots : d # b =>
         \A c \in Cards : holdings'[d][c].shares = holdings[d][c].shares
  BY <1>1
<1> QED
  BY <1>1, <1>2, <1>3, OneBotSteps

\* So does one that ends the tick.
LEMMA TickEnds ==
  ASSUME BotInv, NEW b \in Bots, mem' = [mem EXCEPT ![b] = Rested(@)],
         UNCHANGED <<vars, news, load>>
  PROVE  BotInv'
<1>1. /\ DOMAIN mem' = Bots /\ mem' = [d \in Bots |-> mem'[d]]
      /\ \A d \in Bots : d # b => mem'[d] = mem[d]
      /\ mem'[b] = Rested(mem[b])
  BY DEF BotInv
<1>2. MemFits(b, Rested(mem[b]), holdings[b], Len(news))
  <2>1. PICK m, held, last : m = mem[b] /\ held = holdings[b] /\ last = Len(news)
    OBVIOUS
  <2>2. MemType(m) /\ NewsFit(m, last)
    BY <2>1, MemoryFacts
  <2> QED
    BY <2>1, <2>2, RestedFits
<1> QED
  BY <1>1, <1>2, QuietBotSteps

\* What the bot sees of the cards.
LEMMA ReadCardsStep ==
  ASSUME BotInv, NEW b \in Bots, ReadCards(b)
  PROVE  BotInv'
<1> DEFINE m == mem[b]
           n == mem'[b]
           view == [c \in ActiveCards |->
                      [price |-> cards[c].price, supply |-> cards[c].supply]]
<1>1. MemType(m) /\ OrderFits(m) /\ NewsFit(m, Len(news)) /\ m.pc = "idle"
  BY MemoryFacts DEF ReadCards
<1>2. /\ DOMAIN mem' = Bots /\ mem' = [d \in Bots |-> mem'[d]]
      /\ \A d \in Bots : d # b => mem'[d] = mem[d]
  BY DEF BotInv, ReadCards
<1>3. /\ DOMAIN n = MemFields /\ n = [f \in MemFields |-> n[f]]
      /\ n.pc = "holdings" /\ n.view = view /\ n.owned = m.owned /\ n.order = m.order
      /\ n.balance = m.balance /\ n.history = m.history /\ n.cursor = m.cursor
      /\ n.queue = m.queue /\ n.seed = m.seed /\ n.heard = m.heard
  BY <1>1 DEF BotInv, ReadCards, MemType, MemFields
<1>4. OnCards(view, [price : Nat, supply : Nat])
  <2>1. \A c \in DOMAIN cards : cards[c].price \in Nat /\ cards[c].supply \in Nat
    <3>1. \A c \in DOMAIN cards : cards[c] \in CardRow
      BY DEF BotInv, TypeOK
    <3>2. \A row \in CardRow : row.price \in Nat /\ row.supply \in Nat
      BY PricingAssumption DEF CardRow
    <3> QED
      BY <3>1, <3>2
  <2>2. ActiveCards \subseteq Cards /\ ActiveCards \subseteq DOMAIN cards
    BY DEF BotInv, TypeOK, ActiveCards
  <2> QED
    BY <2>1, <2>2 DEF OnCards
<1>5. m.order = NoOrder
  BY <1>1 DEF OrderFits
<1> HIDE DEF m, n, view
<1>6. MemType(n)
  BY <1>1, <1>3, <1>4 DEF MemType, Stages
<1>7. OrderFits(n) /\ HoldingsFit(n, holdings[b]) /\ SaleFits(b, n, holdings[b])
      /\ BudgetFits(n)
  BY <1>3, <1>5 DEF OrderFits, HoldingsFit, SaleFits, BudgetFits, NoOrder
<1>8. NewsFit(n, Len(news))
  BY <1>1, <1>3, SameNews
<1>9. MemFits(b, n, holdings[b], Len(news))
  BY <1>6, <1>7, <1>8 DEF MemFits
<1>10. UNCHANGED <<vars, news, load>>
  BY DEF ReadCards
<1> QED
  BY <1>2, <1>9, <1>10, QuietBotSteps DEF n

\* A history of prices stays one.
LEMMA RememberedType ==
  ASSUME NEW h \in Seq(Nat), NEW price \in Nat
  PROVE  Remembered(h, price) \in Seq(Nat)
<1>1. Append(h, price) \in Seq(Nat) /\ Len(Append(h, price)) = Len(h) + 1
  OBVIOUS
<1>2. PICK s \in Seq(Nat) : s = Append(h, price)
  BY <1>1
<1>3. s # <<>>
  <2>1. Len(h) \in Nat /\ Len(<<>>) = 0
    OBVIOUS
  <2> QED
    BY <1>1, <1>2, <2>1
<1>4. Tail(s) \in Seq(Nat)
  BY <1>3
<1> QED
  BY <1>2, <1>4 DEF Remembered

\* What it owns of them, and their prices added to what it remembers.
LEMMA ReadHoldingsStep ==
  ASSUME BotInv, NEW b \in Bots, ReadHoldings(b)
  PROVE  BotInv'
<1> DEFINE m == mem[b]
           n == mem'[b]
           owned   == [c \in DOMAIN m.view |-> holdings[b][c].shares]
           history == [c \in Cards |->
                         IF c \in DOMAIN m.view THEN Remembered(m.history[c], m.view[c].price)
                         ELSE m.history[c]]
<1>1. MemType(m) /\ OrderFits(m) /\ NewsFit(m, Len(news)) /\ m.pc = "holdings"
  BY MemoryFacts DEF ReadHoldings
<1>2. /\ DOMAIN mem' = Bots /\ mem' = [d \in Bots |-> mem'[d]]
      /\ \A d \in Bots : d # b => mem'[d] = mem[d]
  BY DEF BotInv, ReadHoldings
<1>3. /\ DOMAIN n = MemFields /\ n = [f \in MemFields |-> n[f]]
      /\ n.pc = "decide" /\ n.view = m.view /\ n.owned = owned /\ n.order = m.order
      /\ n.balance = m.balance /\ n.history = history /\ n.cursor = m.cursor
      /\ n.queue = m.queue /\ n.seed = m.seed /\ n.heard = m.heard
  BY <1>1 DEF BotInv, ReadHoldings, MemType, MemFields
<1>4. /\ DOMAIN m.view \subseteq Cards
      /\ \A c \in DOMAIN m.view : m.view[c].price \in Nat
      /\ \A c \in Cards : m.history[c] \in Seq(Nat)
  BY <1>1 DEF MemType, OnCards
<1>5. OnCards(owned, Nat) /\ DOMAIN owned = DOMAIN m.view
      /\ \A c \in DOMAIN m.view : owned[c] = holdings[b][c].shares
  <2>1. \A c \in Cards : holdings[b][c].shares \in Nat
    BY MemoryFacts DEF HoldingRow
  <2> QED
    BY <1>4, <2>1 DEF OnCards
<1>6. history \in [Cards -> Seq(Nat)]
  <2>2. ASSUME NEW c \in DOMAIN m.view
        PROVE  Remembered(m.history[c], m.view[c].price) \in Seq(Nat)
    BY <1>4, RememberedType
  <2> QED
    BY <1>4, <2>2
<1>7. m.order = NoOrder
  BY <1>1 DEF OrderFits
<1> HIDE DEF m, n, owned, history
<1>8. MemType(n)
  BY <1>1, <1>3, <1>5, <1>6 DEF MemType, Stages
<1>9. OrderFits(n) /\ HoldingsFit(n, holdings[b]) /\ SaleFits(b, n, holdings[b])
      /\ BudgetFits(n)
  BY <1>3, <1>5, <1>7 DEF OrderFits, HoldingsFit, SaleFits, BudgetFits, NoOrder
<1>10. NewsFit(n, Len(news))
  BY <1>1, <1>3, SameNews
<1>11. MemFits(b, n, holdings[b], Len(news))
  BY <1>8, <1>9, <1>10 DEF MemFits
<1>12. UNCHANGED <<vars, news, load>>
  BY DEF ReadHoldings
<1> QED
  BY <1>2, <1>11, <1>12, QuietBotSteps DEF n

\* At a decision, the bot knows of all cards of the snapshot what it needs to.
LEMMA DecisionIsInformed ==
  ASSUME BotInv, NEW b \in Bots, mem[b].pc = "decide"
  PROVE  Informed(mem[b])
BY MemoryFacts DEF MemType, HoldingsFit, Informed

\* The order it decides on is one it can fill.
LEMMA DecideStep ==
  ASSUME BotInv, NEW b \in Bots, Decide(b)
  PROVE  BotInv'
<1>1. mem[b].pc = "decide" /\ Persona[b] # "NEWS_REACTIVE" /\ UNCHANGED <<vars, news, load>>
  BY DEF Decide
<1>2. CASE mem' = [mem EXCEPT ![b] = Rested(@)]
  BY <1>1, <1>2, TickEnds
<1>3. ASSUME NEW o \in PersonaOrders(b),
             mem' = [mem EXCEPT ![b].pc = "budget", ![b].order = o]
      PROVE  BotInv'
  <2> DEFINE m == mem[b]
             n == mem'[b]
  <2>1. /\ MemType(m) /\ HoldingsFit(m, holdings[b]) /\ NewsFit(m, Len(news))
        /\ m.pc = "decide"
    BY <1>1, MemoryFacts
  <2>2. /\ DOMAIN mem' = Bots /\ mem' = [d \in Bots |-> mem'[d]]
        /\ \A d \in Bots : d # b => mem'[d] = mem[d]
    BY <1>3 DEF BotInv
  <2>3. /\ DOMAIN n = MemFields /\ n = [f \in MemFields |-> n[f]]
        /\ n.pc = "budget" /\ n.view = m.view /\ n.owned = m.owned /\ n.order = o
        /\ n.balance = m.balance /\ n.history = m.history /\ n.cursor = m.cursor
        /\ n.queue = m.queue /\ n.seed = m.seed /\ n.heard = m.heard
    BY <1>3, <2>1 DEF BotInv, MemType, MemFields
  <2>4. FitOrder(m, o)
    BY <1>1, DecisionIsInformed, PersonaOrdersFit
  <2>5. o \in OrderRow /\ (o.type = "SELL" => o.shares <= holdings[b][o.card].shares)
    BY <2>1, <2>4 DEF FitOrder, HoldingsFit
  <2> HIDE DEF m, n
  <2>6. MemType(n)
    BY <2>1, <2>3, <2>5 DEF MemType, Stages
  <2>7. OrderFits(n) /\ HoldingsFit(n, holdings[b]) /\ SaleFits(b, n, holdings[b])
        /\ BudgetFits(n)
    BY <2>3, <2>5 DEF OrderFits, HoldingsFit, SaleFits, BudgetFits
  <2>8. NewsFit(n, Len(news))
    BY <2>1, <2>3, SameNews
  <2>9. MemFits(b, n, holdings[b], Len(news))
    BY <2>6, <2>7, <2>8 DEF MemFits
  <2> QED
    BY <1>1, <2>2, <2>9, QuietBotSteps DEF n
<1> QED
  BY <1>2, <1>3 DEF Decide

\* The first poll.
LEMMA SeedStep ==
  ASSUME BotInv, NEW b \in Bots, SeedCursor(b), mem[b].pc = "decide",
         UNCHANGED <<vars, news, load>>
  PROVE  BotInv'
<1> DEFINE m == mem[b]
           n == [m EXCEPT !.cursor = Len(news), !.seed = Len(news)]
<1>1. MemType(m) /\ NewsFit(m, Len(news)) /\ Len(news) \in Nat /\ m.cursor = Unseeded
  BY MemoryFacts DEF SeedCursor
<1>2. /\ DOMAIN mem' = Bots /\ mem' = [d \in Bots |-> mem'[d]]
      /\ \A d \in Bots : d # b => mem'[d] = mem[d]
      /\ mem'[b] = Rested(n)
  BY DEF BotInv, SeedCursor
<1>3. /\ DOMAIN n = MemFields /\ n = [f \in MemFields |-> n[f]]
      /\ n.pc = m.pc /\ n.view = m.view /\ n.owned = m.owned /\ n.order = m.order
      /\ n.balance = m.balance /\ n.history = m.history /\ n.cursor = Len(news)
      /\ n.queue = m.queue /\ n.seed = Len(news) /\ n.heard = m.heard
  BY <1>1 DEF MemType, MemFields
<1> HIDE DEF m, n
<1>4. MemType(n)
  BY <1>1, <1>3 DEF MemType, Cursors
<1>5. NewsFit(n, Len(news))
  <2>0. \A k \in DOMAIN m.heard : m.heard[k] <= m.cursor
    BY <1>1 DEF NewsFit
  <2>1. \A k \in DOMAIN m.heard : m.heard[k] \in Nat
    BY <1>1 DEF MemType
  <2>2. \A k \in DOMAIN m.heard : FALSE
    BY <1>1, <2>0, <2>1 DEF Unseeded
  <2>3. \A k \in 2..Len(m.heard) : m.heard[k - 1] < m.heard[k]
    BY <1>1 DEF NewsFit
  <2>4. (n.seed + 1)..n.cursor = {}
    BY <1>1, <1>3
  <2> QED
    BY <1>1, <1>3, <2>2, <2>3, <2>4 DEF NewsFit, Unseeded
<1>6. MemFits(b, Rested(n), holdings[b], Len(news))
  BY <1>4, <1>5, RestedFits
<1> QED
  BY <1>2, <1>6, QuietBotSteps

\* A later one.
LEMMA PollStep ==
  ASSUME BotInv, NEW b \in Bots, PollNews(b), mem[b].pc = "decide",
         Persona[b] = "NEWS_REACTIVE", UNCHANGED <<vars, news, load>>
  PROVE  BotInv'
<1> DEFINE m == mem[b]
           batch == FreshEvents(m)
           n == [m EXCEPT !.cursor = Len(news), !.heard = @ \o batch]
<1>1. /\ MemType(m) /\ NewsFit(m, Len(news)) /\ Len(news) \in Nat /\ m.cursor # Unseeded
      /\ m.cursor <= Len(news)
  BY MemoryFacts DEF PollNews, NewsFit
<1>2. PICK q \in Queues(m, batch) : mem' = [mem EXCEPT ![b] = TakeNext(n, q)]
  BY DEF PollNews
<1>3. /\ DOMAIN mem' = Bots /\ mem' = [d \in Bots |-> mem'[d]]
      /\ \A d \in Bots : d # b => mem'[d] = mem[d]
      /\ mem'[b] = TakeNext(n, q)
  BY <1>2 DEF BotInv
<1>4. batch \in Seq(Nat)
  BY <1>1, FreshFacts
<1>5. q \in Seq(OrderRow)
  <2>1. Informed(m)
    BY DecisionIsInformed
  <2> HIDE DEF m, batch
  <2> QED
    BY <1>4, <2>1, QueueFits
<1> HIDE DEF batch
<1>6. /\ DOMAIN n = MemFields /\ n = [f \in MemFields |-> n[f]]
      /\ n.pc = m.pc /\ n.view = m.view /\ n.owned = m.owned /\ n.order = m.order
      /\ n.balance = m.balance /\ n.history = m.history /\ n.cursor = Len(news)
      /\ n.queue = m.queue /\ n.seed = m.seed /\ n.heard = m.heard \o batch
  BY <1>1 DEF MemType, MemFields
<1> HIDE DEF m, n
<1>7. m.heard \o batch \in Seq(Nat)
  BY <1>1, <1>4 DEF MemType
<1>8. MemType(n)
  BY <1>1, <1>6, <1>7 DEF MemType, Cursors
<1>9. NewsFit(n, Len(news))
  <2>1. n.heard = m.heard \o FreshEvents(m)
    BY <1>6 DEF batch
  <2> QED
    BY <1>1, <1>6, <2>1, PollFits
<1>10. MemFits(b, TakeNext(n, q), holdings[b], Len(news))
  BY <1>5, <1>8, <1>9, TakeNextFits
<1> QED
  BY <1>3, <1>10, QuietBotSteps

\* And a tick that finds trades in the queue.
LEMMA DrainStep ==
  ASSUME BotInv, NEW b \in Bots, DrainQueue(b), Persona[b] = "NEWS_REACTIVE",
         UNCHANGED <<vars, news, load>>
  PROVE  BotInv'
<1> DEFINE m == mem[b]
<1>1. MemType(m) /\ NewsFit(m, Len(news)) /\ m.queue \in Seq(OrderRow)
  BY MemoryFacts DEF MemType
<1>2. /\ DOMAIN mem' = Bots /\ mem' = [d \in Bots |-> mem'[d]]
      /\ \A d \in Bots : d # b => mem'[d] = mem[d]
      /\ mem'[b] = TakeNext(m, m.queue)
  BY DEF BotInv, DrainQueue
<1>3. PICK q \in Seq(OrderRow) : q = m.queue
  BY <1>1
<1> HIDE DEF m
<1>4. MemFits(b, TakeNext(m, q), holdings[b], Len(news))
  BY <1>1, TakeNextFits
<1> QED
  BY <1>2, <1>3, <1>4, QuietBotSteps

\* What a quarter of the balance pays for.
LEMMA QuarterPays ==
  ASSUME NEW balance \in Nat, NEW price \in Nat, NEW n \in Nat \ {0},
         n <= AffordableBuyShares(balance, price)
  PROVE  4 * (n * price) <= balance
<1>1. price > 0 /\ n <= balance \div (4 * price)
  BY DEF AffordableBuyShares
<1>2. PICK d \in Nat \ {0} : d = 4 * price
  BY <1>1
<1>3. PICK q \in Int : q = balance \div d
  BY <1>2
<1>4. d * q <= balance /\ n <= q
  BY <1>1, <1>2, <1>3
<1>5. n * d <= d * q
  BY <1>4
<1>6. 4 * (n * price) = n * d
  BY <1>2
<1> QED
  BY <1>4, <1>5, <1>6

\* The order is cut to what a quarter of the balance pays for.
LEMMA CapStep ==
  ASSUME BotInv, NEW b \in Bots, CapBuyToBalance(b)
  PROVE  BotInv'
<1> DEFINE m == mem[b]
           o == m.order
           n == mem'[b]
           affordable == AffordableBuyShares(users[b].balance, SeenPrice(m, o.card))
           capped     == IF o.type = "BUY" THEN Smaller(o.shares, affordable) ELSE o.shares
<1>1. /\ MemType(m) /\ SaleFits(b, m, holdings[b]) /\ NewsFit(m, Len(news))
      /\ users[b].balance \in Nat /\ m.pc = "budget" /\ o \in OrderRow
      /\ UNCHANGED <<vars, news, load>>
  BY MemoryFacts DEF CapBuyToBalance, OrderFits
<1>2. CASE capped < 1
  <2>1. mem' = [mem EXCEPT ![b] = Rested(@)]
    BY <1>2 DEF CapBuyToBalance
  <2> QED
    BY <1>1, <2>1, TickEnds
<1>3. CASE ~(capped < 1)
  <2>1. mem' = [mem EXCEPT ![b] =
                  [@ EXCEPT !.pc = "trade", !.order.shares = capped,
                            !.balance = users[b].balance]]
    BY <1>3 DEF CapBuyToBalance
  <2>2. SeenPrice(m, o.card) \in Nat /\ o.shares \in Nat \ {0} /\ o.type \in TradeTypes
        /\ o.card \in Cards
    BY <1>1 DEF SeenPrice, MemType, OnCards, OrderRow
  <2>3. affordable \in Int
    BY <1>1, <2>2 DEF AffordableBuyShares
  <2>4. PICK k \in Nat \ {0} : k = capped
    BY <1>3, <2>2, <2>3 DEF Smaller
  <2>5. /\ o.type = "BUY" => k <= affordable
        /\ o.type # "BUY" => k = o.shares
    BY <2>2, <2>3, <2>4 DEF Smaller
  <2> HIDE DEF affordable, capped
  <2>6. /\ DOMAIN mem' = Bots /\ mem' = [d \in Bots |-> mem'[d]]
        /\ \A d \in Bots : d # b => mem'[d] = mem[d]
    BY <2>1 DEF BotInv
  <2>7. /\ DOMAIN n = MemFields /\ n = [f \in MemFields |-> n[f]]
        /\ n.pc = "trade" /\ n.view = m.view /\ n.owned = m.owned
        /\ n.order = [card |-> o.card, type |-> o.type, shares |-> k]
        /\ n.balance = users[b].balance /\ n.history = m.history /\ n.cursor = m.cursor
        /\ n.queue = m.queue /\ n.seed = m.seed /\ n.heard = m.heard
    BY <1>1, <2>1, <2>4 DEF BotInv, MemType, MemFields, OrderRow
  <2> HIDE DEF n, m, o
  <2>8. n.order \in OrderRow
    BY <2>2, <2>7 DEF OrderRow
  <2>9. MemType(n)
    BY <1>1, <2>7, <2>8 DEF MemType, Stages
  <2>10. OrderFits(n) /\ HoldingsFit(n, holdings[b])
    BY <2>7, <2>8 DEF OrderFits, HoldingsFit
  <2>11. SaleFits(b, n, holdings[b])
    BY <1>1, <2>5, <2>7 DEF SaleFits, o
  <2>12. BudgetFits(n)
    <3>1. SeenPrice(n, o.card) = SeenPrice(m, o.card)
      BY <2>7 DEF SeenPrice
    <3>2. PICK price \in Nat, balance \in Nat :
            price = SeenPrice(m, o.card) /\ balance = users[b].balance
      BY <1>1, <2>2
    <3>3. o.type = "BUY" => 4 * (k * price) <= balance
      BY <2>5, <3>2, QuarterPays DEF affordable
    <3> QED
      BY <2>7, <3>1, <3>2, <3>3 DEF BudgetFits
  <2>13. NewsFit(n, Len(news))
    BY <1>1, <2>7, SameNews
  <2>14. MemFits(b, n, holdings[b], Len(news))
    BY <2>9, <2>10, <2>11, <2>12, <2>13 DEF MemFits
  <2> QED
    BY <1>1, <2>6, <2>14, QuietBotSteps DEF n
<1> QED
  BY <1>2, <1>3

\* The trade, if the ledger makes it, is one of the ledger's, and moves the shares of
\* no other bot.
LEMMA TradeStepKeeps ==
  ASSUME BotInv, NEW b \in Bots, Trade(b)
  PROVE  BotInv' /\ [AnySizeNext]_vars
<1> DEFINE m == mem[b]
           o == m.order
<1>1. /\ MemType(m) /\ NewsFit(m, Len(news)) /\ m.pc = "trade" /\ o \in OrderRow
      /\ mem' = [mem EXCEPT ![b] = Rested(@)] /\ UNCHANGED <<news, load>>
  BY MemoryFacts DEF Trade, OrderFits
<1>2. PICK at \in ClockReadings :
         \/ ExecuteTrade(b, o.card, o.type, o.shares, at)
         \/ UNCHANGED vars
  BY DEF Trade
<1>3. CASE UNCHANGED vars
  BY <1>1, <1>3, TickEnds
<1>4. CASE ExecuteTrade(b, o.card, o.type, o.shares, at)
  <2>1. PICK c \in Cards, type \in TradeTypes, n \in Nat \ {0} :
          c = o.card /\ type = o.type /\ n = o.shares
    BY <1>1 DEF OrderRow
  <2>2. ExecuteTrade(b, c, type, n, at) /\ b \in Users
    BY <1>4, <2>1 DEF Users
  <2>3. [AnySizeNext]_vars
    BY <2>2 DEF AnySizeNext
  <2>4. PICK row : holdings' = [holdings EXCEPT ![b][c] = row]
    <3>1. TypeOK
      BY DEF BotInv
    <3>2. PICK charge \in Int :
            holdings' = [holdings EXCEPT ![b][c] =
                           HoldingAfterTrade(holdings[b][c], type, n, charge, at)]
      BY <2>2, <3>1, TradeStep
    <3>3. PICK row : row = HoldingAfterTrade(holdings[b][c], type, n, charge, at)
      OBVIOUS
    <3> QED
      BY <3>2, <3>3
  <2>5. \A d \in Bots : d # b =>
           \A e \in Cards : holdings'[d][e].shares = holdings[d][e].shares
    BY <2>4
  <2>6. /\ DOMAIN mem' = Bots /\ mem' = [d \in Bots |-> mem'[d]]
        /\ \A d \in Bots : d # b => mem'[d] = mem[d]
        /\ mem'[b] = Rested(m)
    BY <1>1 DEF BotInv
  <2> HIDE DEF m
  <2>7. MemFits(b, Rested(m), holdings'[b], Len(news))
    BY <1>1, RestedFits
  <2>8. BotInv'
    BY <1>1, <2>3, <2>5, <2>6, <2>7, OneBotSteps
  <2> QED
    BY <2>3, <2>8
<1> QED
  BY <1>2, <1>3, <1>4

-----------------------------------------------------------------------------
(* The other steps, and all of them.                                       *)

\* What the others do: it moves no shares of a bot.
LEMMA OthersStep ==
  ASSUME BotInv, OthersNext
  PROVE  BotInv' /\ [AnySizeNext]_vars
<1>1. /\ load.people \subseteq Humans /\ UNCHANGED botVars
      /\ TradeSizes \subseteq Nat \ {0} /\ Humans \cap Bots = {} /\ TypeOK
  BY LedgerAssumption DEF BotInv, LoadOK, OthersNext
<1>2. /\ [AnySizeNext]_vars
      /\ \A d \in Bots : \A e \in Cards : holdings'[d][e].shares = holdings[d][e].shares
  <2>1. CASE Tick
    BY <2>1 DEF Tick, AnySizeNext
  <2>2. ASSUME NEW at \in ClockReadings, NEW b \in Bots, RebalanceBotBalance(b, at)
        PROVE  <1>2!1 /\ <1>2!2
    BY <2>2 DEF RebalanceBotBalance, AnySizeNext
  <2>3. ASSUME NEW at \in ClockReadings, NEW u \in load.people, NEW c \in Cards,
               NEW type \in TradeTypes, NEW n \in TradeSizes,
               ExecuteTrade(u, c, type, n, at)
        PROVE  <1>2!1 /\ <1>2!2
    <3>1. u \in Users /\ u \notin Bots /\ n \in Nat \ {0}
      BY <1>1 DEF Users
    <3>2. [AnySizeNext]_vars
      BY <2>3, <3>1 DEF AnySizeNext
    <3>3. PICK charge \in Int :
            holdings' = [holdings EXCEPT ![u][c] =
                           HoldingAfterTrade(holdings[u][c], type, n, charge, at)]
      BY <1>1, <2>3, <3>1, TradeStep
    <3>4. PICK row : row = HoldingAfterTrade(holdings[u][c], type, n, charge, at)
      OBVIOUS
    <3>5. holdings' = [holdings EXCEPT ![u][c] = row]
      BY <3>3, <3>4
    <3> QED
      BY <3>1, <3>2, <3>5
  <2> QED
    BY <2>1, <2>2, <2>3 DEF OthersNext
<1>3. TypeOK' /\ LoadOK' /\ (news \in Seq(DOMAIN SectorsByEvent))'
  BY <1>1, <1>2, NextType DEF BotInv, LoadOK, botVars
<1>4. ASSUME NEW d \in Bots PROVE MemFits(d, mem[d], holdings'[d], Len(news))
  <2>1. MemFits(d, mem[d], holdings[d], Len(news)) /\ Len(news) \in Nat
    BY MemoryFacts
  <2>2. PICK last \in Nat : last = Len(news)
    BY <2>1
  <2>3. PICK m, held, held2 : m = mem[d] /\ held = holdings[d] /\ held2 = holdings'[d]
    OBVIOUS
  <2>4. MemFits(d, m, held, last) /\ last <= last
        /\ \A c \in Cards : held2[c].shares = held[c].shares
    BY <1>2, <2>1, <2>2, <2>3
  <2>5. MemFits(d, m, held2, last)
    BY <2>4, StillFits
  <2> QED
    BY <2>2, <2>3, <2>5
<1> QED
  BY <1>1, <1>2, <1>3, <1>4 DEF BotInv, botVars

\* A headline is news for later.
LEMMA NewsStep ==
  ASSUME BotInv, GenerateNews
  PROVE  BotInv'
<1>1. PICK event \in load.events : news' = Append(news, event)
  BY DEF GenerateNews
<1>2. event \in DOMAIN SectorsByEvent /\ news \in Seq(DOMAIN SectorsByEvent) /\ load.news > 0
  BY DEF BotInv, LoadOK, GenerateNews
<1>3. /\ UNCHANGED <<vars, mem>> /\ TypeOK
      /\ load' = [load EXCEPT !.news = @ - 1]
  BY DEF BotInv, GenerateNews
<1>4. TypeOK' /\ holdings' = holdings
  BY <1>3, NextType DEF vars
<1>5. LoadOK'
  BY <1>2, <1>3 DEF BotInv, LoadOK
<1>6. /\ news' \in Seq(DOMAIN SectorsByEvent)
      /\ Len(news) \in Nat /\ Len(news') = Len(news) + 1
  BY <1>1, <1>2
<1>7. ASSUME NEW d \in Bots PROVE MemFits(d, mem[d], holdings[d], Len(news'))
  <2>1. PICK last \in Nat, next \in Nat : last = Len(news) /\ next = Len(news')
    BY <1>6
  <2>2. MemFits(d, mem[d], holdings[d], last) /\ last <= next
    BY <1>6, <2>1, MemoryFacts
  <2>3. PICK m, held : m = mem[d] /\ held = holdings[d]
    OBVIOUS
  <2>4. MemFits(d, m, held, next)
    BY <2>2, <2>3, StillFits
  <2> QED
    BY <2>1, <2>3, <2>4
<1> QED
  BY <1>3, <1>4, <1>5, <1>6, <1>7 DEF BotInv

\* The bots of a server that restarts are new.
LEMMA RestartStep ==
  ASSUME BotInv, Restart
  PROVE  BotInv'
<1>1. /\ UNCHANGED <<vars, news>> /\ mem' = [b \in Bots |-> NewBot] /\ TypeOK
      /\ Len(news) \in Nat
  BY DEF BotInv, Restart
<1>2. TypeOK'
  BY <1>1, NextType DEF vars
<1>3. LoadOK'
  BY DEF BotInv, LoadOK, Restart
<1>4. ASSUME NEW d \in Bots PROVE MemFits(d, mem'[d], holdings'[d], Len(news'))
  <2>1. PICK last \in Nat : last = Len(news')
    BY <1>1
  <2>2. PICK held : held = holdings'[d]
    OBVIOUS
  <2>3. MemFits(d, NewBot, held, last)
    BY NewBotFits
  <2> QED
    BY <1>1, <2>1, <2>2, <2>3
<1> QED
  BY <1>1, <1>2, <1>3, <1>4 DEF BotInv

\* The server starts with new bots and no news.
LEMMA InitBots == BotInit => BotInv
<1> SUFFICES ASSUME BotInit PROVE BotInv
  OBVIOUS
<1>1. TypeOK /\ mem = [b \in Bots |-> NewBot] /\ news = <<>>
  BY InitType DEF BotInit
<1>2. LoadOK
  BY BotTradersAssumption DEF BotInit, LoadOK
<1>3. ASSUME NEW d \in Bots PROVE MemFits(d, mem[d], holdings[d], Len(news))
  <2>1. PICK held : held = holdings[d]
    OBVIOUS
  <2>2. MemFits(d, NewBot, held, 0)
    BY NewBotFits
  <2>3. Len(news) = 0
    BY <1>1
  <2> QED
    BY <1>1, <2>1, <2>2, <2>3
<1> QED
  BY <1>1, <1>2, <1>3 DEF BotInv

\* Every step keeps the invariant, and is one of the ledger's or none to it.
LEMMA BotNextKeeps == BotInv /\ [BotNext]_allVars => BotInv' /\ [AnySizeNext]_vars
<1> SUFFICES ASSUME BotInv, [BotNext]_allVars PROVE BotInv' /\ [AnySizeNext]_vars
  OBVIOUS
<1>1. CASE UNCHANGED allVars
  BY <1>1 DEF allVars, botVars, vars, BotInv, TypeOK, LoadOK
<1>2. CASE OthersNext
  BY <1>2, OthersStep
<1>3. CASE GenerateNews
  BY <1>3, NewsStep DEF GenerateNews
<1>4. CASE Restart
  BY <1>4, RestartStep DEF Restart
<1>5. ASSUME NEW b \in Bots, BotStep(b) \/ TickError(b)
      PROVE  BotInv' /\ [AnySizeNext]_vars
  <2>1. CASE ReadCards(b)
    BY <2>1, ReadCardsStep DEF ReadCards
  <2>2. CASE ReadHoldings(b)
    BY <2>2, ReadHoldingsStep DEF ReadHoldings
  <2>3. CASE Decide(b)
    BY <2>3, DecideStep DEF Decide
  <2>4. CASE DecideNewsReactive(b)
    BY <2>4, SeedStep, PollStep, DrainStep DEF DecideNewsReactive
  <2>5. CASE CapBuyToBalance(b)
    BY <2>5, CapStep DEF CapBuyToBalance
  <2>6. CASE Trade(b)
    BY <2>6, TradeStepKeeps
  <2>7. CASE TickError(b)
    BY <2>7, TickEnds DEF TickError
  <2> QED
    BY <1>5, <2>1, <2>2, <2>3, <2>4, <2>5, <2>6, <2>7 DEF BotStep
<1>6. load.bots \subseteq Bots
  BY DEF BotInv, LoadOK
<1> QED
  BY <1>1, <1>2, <1>3, <1>4, <1>5, <1>6 DEF BotNext

\* A card never goes.
LEMMA CardsStay ==
  ASSUME TypeOK, [AnySizeNext]_vars
  PROVE  DOMAIN cards \subseteq DOMAIN cards'
<1>1. \A at, u, c, type, n : ExecuteTrade(u, c, type, n, at) => DOMAIN cards' = DOMAIN cards
  BY DEF ExecuteTrade
<1>2. \A at, u, c, total, percent :
         LaunchCard(u, c, total, percent, at) => DOMAIN cards \subseteq DOMAIN cards'
  BY DEF LaunchCard, WithCard
<1>3. \A at, u : GrantDailyReward(u, at) \/ RebalanceBotBalance(u, at) => cards' = cards
  BY DEF GrantDailyReward, RebalanceBotBalance
<1>4. UNCHANGED vars \/ Tick => cards' = cards
  BY DEF vars, Tick
<1> QED
  BY <1>1, <1>2, <1>3, <1>4 DEF AnySizeNext

\* The cards a bot saw exist.
SeenExist == \A b \in Bots : DOMAIN mem[b].view \subseteq DOMAIN cards

\* What a bot sees is replaced by what exists, or forgotten.
LEMMA SeenStep == BotInv /\ SeenExist /\ [BotNext]_allVars => SeenExist'
<1> SUFFICES ASSUME BotInv, SeenExist, [BotNext]_allVars PROVE SeenExist'
  OBVIOUS
<1>1. DOMAIN cards \subseteq DOMAIN cards'
  BY BotNextKeeps, CardsStay DEF BotInv
<1>2. ASSUME mem' = mem PROVE SeenExist'
  BY <1>1, <1>2 DEF SeenExist
<1>3. ASSUME NEW b \in Bots, BotStep(b) \/ TickError(b) PROVE SeenExist'
  <2>1. /\ MemType(mem[b]) /\ DOMAIN mem = Bots
        /\ DOMAIN mem[b].view \subseteq DOMAIN cards
    BY MemoryFacts DEF BotInv, SeenExist
  <2>2. ASSUME NEW m, mem' = [mem EXCEPT ![b] = m], DOMAIN m.view \subseteq DOMAIN cards
        PROVE  SeenExist'
    BY <1>1, <2>1, <2>2 DEF SeenExist
  <2>3. ASSUME NEW m, MemType(m) PROVE DOMAIN Rested(m).view = {}
    BY <2>3 DEF MemType, MemFields, Rested
  <2>4. ASSUME NEW m, MemType(m), NEW q
        PROVE  DOMAIN TakeNext(m, q).view \subseteq DOMAIN m.view
    BY <2>3, <2>4 DEF TakeNext, MemType, MemFields
  <2> DEFINE Ends == mem' = [mem EXCEPT ![b] = Rested(@)]
  <2>5. CASE Ends
    <3>1. PICK m : m = Rested(mem[b])
      OBVIOUS
    <3>2. mem' = [mem EXCEPT ![b] = m] /\ DOMAIN m.view = {}
      BY <2>1, <2>3, <2>5, <3>1
    <3> QED
      BY <2>2, <3>2
  <2>6. CASE ReadCards(b)
    BY <1>1, <2>1, <2>6 DEF ReadCards, SeenExist, ActiveCards, MemType, MemFields
  <2>7. CASE ReadHoldings(b)
    BY <1>1, <2>1, <2>7 DEF ReadHoldings, SeenExist, MemType, MemFields
  <2>8. CASE Decide(b) /\ ~Ends
    <3>1. PICK o : mem' = [mem EXCEPT ![b].pc = "budget", ![b].order = o]
      BY <2>8 DEF Decide
    <3> QED
      BY <1>1, <2>1, <3>1 DEF SeenExist, MemType, MemFields
  <2>9. CASE CapBuyToBalance(b) /\ ~Ends
    <3>1. PICK k, a :
            mem' = [mem EXCEPT ![b] =
                      [@ EXCEPT !.pc = "trade", !.order.shares = k, !.balance = a]]
      BY <2>9 DEF CapBuyToBalance
    <3> QED
      BY <1>1, <2>1, <3>1 DEF SeenExist, MemType, MemFields
  <2>10. CASE Trade(b)
    BY <2>5, <2>10 DEF Trade
  <2>11. CASE TickError(b)
    BY <2>5, <2>11 DEF TickError
  <2>12. CASE DecideNewsReactive(b)
    <3> DEFINE m == mem[b]
               told == [m EXCEPT !.cursor = Len(news), !.heard = @ \o FreshEvents(m)]
    <3>1. CASE SeedCursor(b)
      <4> DEFINE n == [m EXCEPT !.cursor = Len(news), !.seed = Len(news)]
      <4>1. mem' = [mem EXCEPT ![b] = Rested(n)]
        BY <3>1 DEF SeedCursor
      <4>2. DOMAIN Rested(n).view = {}
        BY <2>1 DEF MemType, MemFields, Rested
      <4> QED
        BY <2>2, <4>1, <4>2
    <3>2. CASE PollNews(b)
      <4>1. PICK q : mem' = [mem EXCEPT ![b] = TakeNext(told, q)]
        BY <3>2 DEF PollNews
      <4>2. DOMAIN told = MemFields /\ told.view = m.view
        BY <2>1 DEF MemType, MemFields
      <4> HIDE DEF told
      <4>3. DOMAIN TakeNext(told, q).view \subseteq DOMAIN told.view
        BY <4>2 DEF TakeNext, Rested, MemFields
      <4> QED
        BY <2>1, <2>2, <4>1, <4>2, <4>3
    <3>3. CASE DrainQueue(b)
      <4>1. mem' = [mem EXCEPT ![b] = TakeNext(m, m.queue)]
        BY <3>3 DEF DrainQueue
      <4>2. DOMAIN TakeNext(m, m.queue).view \subseteq DOMAIN m.view
        BY <2>1, <2>4
      <4> QED
        BY <2>1, <2>2, <4>1, <4>2
    <3> QED
      BY <2>12, <3>1, <3>2, <3>3 DEF DecideNewsReactive
  <2> QED
    BY <1>3, <2>5, <2>6, <2>7, <2>8, <2>9, <2>10, <2>11, <2>12 DEF BotStep
<1>4. CASE UNCHANGED allVars
  BY <1>2, <1>4 DEF allVars, botVars
<1>5. CASE OthersNext
  BY <1>2, <1>5 DEF OthersNext, botVars
<1>6. CASE GenerateNews
  BY <1>2, <1>6 DEF GenerateNews
<1>7. CASE Restart
  BY <1>7 DEF Restart, SeenExist, NewBot
<1>8. load.bots \subseteq Bots
  BY DEF BotInv, LoadOK
<1> QED
  BY <1>3, <1>4, <1>5, <1>6, <1>7, <1>8 DEF BotNext

-----------------------------------------------------------------------------
(* The theorems.                                                           *)

\* The memories fit, always.
LEMMA BotsFit == BotSpec => []BotInv
  BY InitBots, BotNextKeeps, PTL DEF BotSpec

\* The bots are users of the ledger like any other.  Whatever their personas draw,
\* the sizes they ask for are positive, and everything they and the jobs do is an
\* operation of the ledger.
THEOREM BotsAreTraders == BotSpec => AnySizeSpec
<1>1. BotInit => Init
  BY DEF BotInit
<1> QED
  BY <1>1, BotsFit, BotNextKeeps, PTL DEF BotSpec, AnySizeSpec

\* So the market they make is as safe as the ledger without them: rows keep their
\* types and CHECKs, prices and bands, creators what has not vested, every card what
\* was paid for its shares.
THEOREM BotsKeepLedgerSafe ==
  BotSpec => [](TypeOK /\ PriceIsSpot /\ PriceWithinBand /\ CreatorHoldsUnvested
                /\ NoFreeLunch)
  BY BotsAreTraders, TypeAnySize, PricesAnySize, VestingAnySize, LunchAnySize, PTL

\* And its books stay balanced, with what the rebalancing job does to the bots in
\* them.
THEOREM BotsKeepBooks ==
  BotSpec => [](BalancesReconcile /\ SharesConserved /\ CostBasisTracksSpending)
  BY BotsAreTraders, BooksAnySize, SharesAnySize, CostAnySize, PTL

\* A bot sells only what it has: nobody else moves its shares between the read and
\* the trade.
THEOREM BotsSellWhatTheyHave == BotSpec => []SalesAreCovered
<1>1. BotInv => SalesAreCovered
  BY MemoryFacts DEF SaleFits, SalesAreCovered
<1> QED
  BY <1>1, BotsFit, PTL

\* The bot that follows the news takes them up in order, none twice, and misses only
\* those that NewsPollLimit newer ones overtook.
THEOREM BotsReadTheNews == BotSpec => []OnlyOverflowIsSkipped
<1>1. BotInv => OnlyOverflowIsSkipped
  <2> SUFFICES ASSUME BotInv, NEW b \in Bots
               PROVE  LET heard == mem[b].heard
                          taken == {heard[k] : k \in DOMAIN heard}
                      IN  /\ \A k \in 2..Len(heard) : heard[k - 1] < heard[k]
                          /\ \A i \in (mem[b].seed + 1)..mem[b].cursor :
                                \/ i \in taken
                                \/ \E j \in i..mem[b].cursor :
                                      /\ (i..j) \cap taken = {}
                                      /\ (j + 1)..(j + NewsPollLimit) \subseteq taken
    BY DEF OnlyOverflowIsSkipped
  <2>1. NewsFit(mem[b], Len(news))
    BY MemoryFacts
  <2> QED
    BY <2>1 DEF NewsFit, Taken, Values, Overtaken
<1> QED
  BY <1>1, BotsFit, PTL

\* Three quarters of a budget of 20 and more pay for a trade and the quarter for its
\* fee, even five times.
LEMMA BudgetPays ==
  ASSUME NEW cost \in Int, NEW worth \in Nat, worth >= 5, cost <= 3 * worth,
         NEW balance \in Nat, 4 * worth <= balance, NEW last, NEW type, NEW at \in Int
  PROVE  cost + ComputeFee(cost) * WashTradeMultiplier(last, type, at) <= balance
<1>1. PICK value \in Nat : value = Abs(cost) /\ (value = cost \/ value = -cost)
  BY DEF Abs
<1>2. PICK percent \in Int : /\ percent = RoundDiv(value, 100)
                             /\ 200 * percent <= 2 * value + 100
  BY RoundDivBounds
<1>3. PICK fee \in Int : fee = ComputeFee(cost)
  BY <1>1, <1>2 DEF ComputeFee, MinFee
<1>4. fee = 1 \/ fee = percent
  BY <1>1, <1>2, <1>3 DEF ComputeFee, MinFee
<1>5. fee >= 1
  BY <1>1, <1>2, <1>3 DEF ComputeFee, MinFee
<1>6. cost + 5 * fee <= balance
  <2>1. CASE fee = 1
    BY <2>1
  <2>2. CASE fee = percent /\ value = cost
    BY <1>2, <2>2
  <2>3. CASE fee = percent /\ value = -cost
    BY <1>2, <2>3
  <2> QED
    BY <1>1, <1>4, <2>1, <2>2, <2>3
<1>7. PICK times \in {1, 5} : times = WashTradeMultiplier(last, type, at)
  BY DEF WashTradeMultiplier
<1>8. fee * times <= 5 * fee /\ fee * times \in Int
  BY <1>5, <1>7
<1>9. cost + fee * times <= balance
  BY <1>6, <1>8
<1> QED
  BY <1>3, <1>7, <1>9

\* The budget of a bot pays for what it is about to buy, fee and all, as long as the
\* shares cost no more than three times what they were worth when it looked.
THEOREM BudgetsHaveHeadroom == BotSpec => []BudgetHeadroom
<1>1. BotInv /\ SeenExist => BudgetHeadroom
  <2> SUFFICES ASSUME BotInv, SeenExist, NEW b \in Bots,
                      mem[b].pc = "trade", mem[b].order.type = "BUY",
                      users[b].balance = mem[b].balance,
                      ValidSupply(cards[mem[b].order.card].supply + mem[b].order.shares),
                      mem[b].order.shares * SeenPrice(mem[b], mem[b].order.card) >= 5,
                      TradeCost(cards[mem[b].order.card], "BUY", mem[b].order.shares)
                          <= 3 * (mem[b].order.shares * SeenPrice(mem[b], mem[b].order.card)),
                      NEW at \in ClockReadings
               PROVE  TradeCharge(cards[mem[b].order.card], "BUY", mem[b].order.shares,
                                  LastTrade(b, mem[b].order.card), at) <= users[b].balance
    BY DEF BudgetHeadroom
  <2>1. /\ mem[b].order \in OrderRow /\ BudgetFits(mem[b]) /\ users[b].balance \in Nat
        /\ MemType(mem[b])
    BY MemoryFacts DEF OrderFits
  <2>2. PICK c \in Cards, n \in Nat \ {0} : c = mem[b].order.card /\ n = mem[b].order.shares
    BY <2>1 DEF OrderRow
  <2>3. SeenPrice(mem[b], c) \in Nat
    BY <2>1 DEF SeenPrice, MemType, OnCards
  <2>4. PICK price \in Nat, balance \in Nat :
          price = SeenPrice(mem[b], c) /\ balance = users[b].balance
    BY <2>1, <2>3
  <2>5. c \in DOMAIN cards
    <3>1. price # 0
      BY <2>2, <2>4
    <3>2. c \in DOMAIN mem[b].view
      BY <2>4, <3>1 DEF SeenPrice
    <3> QED
      BY <3>2 DEF SeenExist
  <2>6. PICK worth \in Nat : worth = n * price
    OBVIOUS
  <2>7. worth >= 5 /\ 4 * worth <= balance
    BY <2>1, <2>2, <2>4, <2>6 DEF BudgetFits
  <2>8. TradeCost(cards[c], "BUY", n) \in Int
    <3>1. cards[c] \in CardRow
      BY <2>5 DEF BotInv, TypeOK
    <3>2. ValidSupply(NewSupply(cards[c], "BUY", n))
      BY <2>2 DEF NewSupply, DeltaSharesFor
    <3> QED
      BY <3>1, <3>2, PriceTypes DEF CardRow, ValidSupply, TradeCost
  <2>9. PICK cost \in Int : cost = TradeCost(cards[c], "BUY", n)
    BY <2>8
  <2>10. cost <= 3 * worth
    BY <2>2, <2>4, <2>6, <2>9
  <2>11. at \in Int
    BY ClockReadingType DEF BotInv
  <2>12. PICK last : last = LastTrade(b, c)
    OBVIOUS
  <2>13. cost + ComputeFee(cost) * WashTradeMultiplier(last, "BUY", at) <= balance
    BY <2>7, <2>10, <2>11, BudgetPays
  <2> QED
    BY <2>2, <2>4, <2>9, <2>12, <2>13 DEF TradeCharge, TradeFee
<1>2. BotInit => SeenExist
  BY DEF BotInit, SeenExist, NewBot
<1> QED
  BY <1>1, <1>2, BotsFit, SeenStep, PTL DEF BotSpec

=============================================================================
