# NavXchange: a verification project

NavXchange (`backend/`, Go; `frontend/`, React) is a trading game. Users and
bots trade shares of cards whose price follows a bonding curve; creators launch
cards of their own; daily rewards, quests and a leaderboard hang off the same
ledger, and every trade is pushed to the connected browsers. This directory
holds TLA+ models of the parts in which money and shares move, of the server's
life from boot to shutdown, of the way news reach bots and browsers and of what a
browser does with a session, a quote and a trade; TLC configurations that check
them on small instances; and proofs for every value of the constants.

Paths below are relative to `src/backend/internal/` unless they say otherwise.

## 1. The system

### Components, their state and their operations

| Component | State | Operations | What makes it correct |
|---|---|---|---|
| Pricing engine (`engine/curve.go`, `execution.go`) | none | spot price, execution cost, over a square-root curve | cost does not depend on how an order is split; no round trip pays |
| Trade execution (`ledger/trade.go`) | rows of users, cards, holdings, transactions | `Quote`, `ExecuteTrade`, replay of an idempotency key | balances and shares are conserved, all or nothing, a key trades once |
| Guardrails (`ledger/antiexploit.go`) | circuit breaker columns of a card | position cap, wash-trade fee, circuit breaker | the price never leaves the band of its window unnoticed; reversals pay fivefold |
| Vesting (`ledger/vesting.go`) | retained columns of a card | sell limit of a creator | unvested shares are never sold, whatever was traded before |
| Card launch (`ledger/cardlaunch.go`) | a new card row, the creator's holding | `LaunchCard`, replay | a symbol and a key are used once; the creator's shares are in circulation |
| Daily reward (`ledger/ledger.go`) | `last_login_at`, `login_streak` | `GrantDailyReward` | one reward a day; the streak counts days in a row |
| Bot rebalancing (`ledger/rebalance.go`) | balance of a bot | `RebalanceBotBalance` | the delta is taken from the balance it is applied to |
| Quests (`quests/*.go`, hook in `api/trades.go`) | `user_quests` rows, QUEST_REWARD rows | progress, reward, bulk and lazy reset, hold job, rank job | a quest is paid exactly once for the day it was completed on; no trade is lost; nobody can tell when the bulk reset came by |
| Leaderboard (`leaderboard/`) | one Redis key | refresh, cached read | changes are relative to the refresh before |
| WebSocket hub (`ws/`) | clients per topic, a bounded queue each | `Publish`, `ServeWS` | a slow client delays nobody; no frame is lost to a client that had room; nobody stays who is gone |
| News (`news/`) and bots (`bots/`) | `news_events` rows; cursor, queue and random source of a bot | generation, polling, decisions | a bot takes up once each event that follows its start and that its polls reach; its orders fit what it owns and has |
| Auth (`auth/`, `api/middleware.go`) | users, tokens | register, login (which grants the daily reward), `RequireAuth` | one account per name; a session belongs to who typed the account's password |
| Server (`cmd/server/main.go`, `migrate/`, `safety/`) | phase of the process, listener, pool, jobs; `schema_migrations` | boot, migrate, serve, recover, drain, exit | nobody serves on an old schema; a signal ends the process and cuts off nothing the grace covers; jobs outlive panics |
| Store (`store/`, `migrations/`) | Postgres schema, generated queries | `SELECT ... FOR UPDATE`, inserts into unique indexes | CHECK constraints and unique indexes |
| Frontend feeds (`src/frontend/src/ws`, `hooks`) | news and leaderboard stores, query cache, reconnecting sockets | receive, reconnect, fetch | the stores converge to what the server has |
| Frontend trading (`components/card-detail/OrderPanel.tsx`, `hooks/useTradeQuote.ts`, `useExecuteTrade.ts`, `useHoldings.ts`, `stores/authStore.ts`) | inputs, quote, pending trade, cached holdings, session | type, debounce, quote, count down, submit, log in and out | the quote is that of the inputs; the holdings contain the trades; the session is its owner's |
| Frontend tick store | latest tick and session history per card | receive, seed | what arrived last is shown |

### How they interact

- The HTTP handlers (`api/`) and the bots call the ledger concurrently, one
  goroutine per request or bot. Each ledger operation is one Postgres
  transaction at READ COMMITTED that locks the rows it changes.
- `ExecuteTrade` hands every committed trade to an observer, which publishes a
  price tick to the hub; the news and leaderboard jobs publish likewise.
- The trade handler calls `quests.RecordTrade` after `ExecuteTrade` answered
  with success. Two jobs complete quests from the holdings and from the cached
  leaderboard, a third resets rows whose day is over.
- Logins grant the daily reward. The rebalancing job moves bot balances while
  the bots trade.
- `main` starts all of this in one process, and on a deploy two processes run side
  by side on one database: migrations, rows and quests are shared, the hub, the
  jobs and the pool of connections are each process's own.
- The browser calls the API over HTTP. A call is sent, served and answered while
  the user types on, trades, logs out or logs in as somebody else; calls may be
  lost on the way there or back.

### What is hard to get right

Row locks taken in different orders by different operations; inserts that wait
in a unique index for another transaction; clock readings taken before a lock is
waited for; requests retried while their first attempt is still running; commits
whose acknowledgement is lost; work done after the lock is gone (the observer,
the quest hook); bulk statements among row-by-row ones; rounding in every leg of
a trade; a schema migrated by one process while another serves on it; a pool in
which a request needs a connection twice; answers that come back to a page, a
panel or a session other than the one that asked. `PROJECT.json` lists each of them
at its line, with the property that would catch it.

## 2. Modules

```
Pricing ── Walk ── MCCurve                 Curve: the tables of MCCurve, MCLedger,
   │         └──── WalkProofs                     MCLedgerTx and MCBotTraders
   │  Guards
   └──┬──┘
    Trade
      │
    Ledger ──┬── LedgerProps ──┬── MCLedger
             │                 └── LedgerProofs ──┬── LedgerTxProofs
             │                                    └── BotTradersProofs
             ├── LedgerTx ─────┬── MCLedgerTx
             │                 └── LedgerTxProofs
             └── BotTraders ───┬── MCBotTraders
                               └── BotTradersProofs

QuestBook ◁── Quests ── MCQuests                       (◁── implements)
                └────── QuestsProofs

Server ── MCServer                 OrderPanel  Accounts
   └───── ServerProofs                  └────┬────┘
                                          Browser ── MCBrowser
Hub ── Feeds ── MCFeeds                      └────── BrowserProofs
          └──── FeedsProofs
```

**Curve** computes the square-root curve in integers: a spot price is the
integer nearest to an exact root, and the antiderivative whose differences are
execution costs is tabulated in *grains*, hundredths of a currency unit. The
code uses float64 and rounds; the integers keep the rounding of every leg, and
the scale of the instances is chosen so that it matters.

**Pricing** takes the tables as parameters and defines the execution cost, the
fee and the quote over them. Nothing proved depends on the curve's shape.

**Walk** lets a card start at any supply and trades of any direction and size move it
up and down its curve, each for what the engine quotes, and adds up what they paid.

**Guards** and **Trade** are pure: position cap, wash-trade multiplier, circuit
breaker, vesting; then the checks of `executeTradeTx`, in its order, and the rows
it writes as functions of the rows it read.

**Ledger** is the abstract specification: each operation that commits is one
action. `ExecuteTrade`, `LaunchCard`, `GrantDailyReward` and
`RebalanceBotBalance` are `executeTradeTx`, `launchCardTx`, `GrantDailyReward`
and `RebalanceBotBalance`; rejected calls change nothing and are not actions. The
clock reading of an operation may be older than its commit, by at most `MaxLag`,
because the code reads the clock before it waits for locks. Two variables are
auxiliary: `events` (the trades in the order of their commits) and `sunk` (what
the trades of a card took from balances, less what they put back).

**LedgerTx** opens the operations up: a call looks its key up, begins, locks the
card, locks the user, reads the holding, inserts under the unique indexes,
commits, and notifies the observer, one step each, interleaved with all other
calls. What it writes is computed from what it *read*, as the Go code does, so a
missing lock shows as a lost update. A call may fail at any statement, a commit
may succeed without its acknowledgement, and the server may crash. Requests are
a constant set; a retry is another request with the same key. A waiting
statement is a disabled action. Holding rows are not lockable in the model: in
the code whoever locks one already holds the lock of its card. Each step of a
call is one SQL statement, or, for `ReadHolding`, the statements that follow the
last contended lock and read nothing another transaction can change.

**Quests** is at the same grain: the upsert that locks a progress row, the
foreign-key share lock an inserted row takes on its user, the exclusive lock of
`grantReward`, the commit. Locks are not variables but follow from the stage a
transaction has reached. The bulk reset is the single UPDATE that Postgres
executes as scan, lock-and-recheck row by row, commit. The trade is one step
here, and of the ledger only the position of each user in one card is kept.

**QuestBook** is what quests promise, without rows, locks or resets: a standing per
user and quest that is empty every morning, advances one by one, and is paid when
it reaches its target, once for its day. Quests implements it
(`ImplementsQuestBook`): `Standing` is what `ListUserQuests` shows at the moment,
`Paid` the days of the reward rows. A payment whose transaction read the clock before
midnight and commits after it is `PayLate`; whatever the bulk reset does is a stutter.

**BotTraders** puts the bots of `bots/` on top of Ledger. A bot's tick is its
statements: read the cards, read its holdings, decide, read its balance, trade,
and the operations of Ledger (people, other bots, the rebalancing job) fall
between them. `mem[b]` is what the goroutine has in memory; a restart clears it,
and the rows stay. The personas are functions of that memory; where the code
draws a random size or card, the model allows all of them. The news-reactive
persona has its cursor into the news rows and its queue of orders. A trade the
ledger refuses is the step that changes nothing but the bot's memory.

**Hub** is the hub of `ws/hub.go` with the reconnecting socket of the frontend.
A publication visits its subscribers one at a time under the read lock, in any
order; connections join and leave only while no publication is under way; each
has a bounded queue and a goroutine that writes from it. The two ends see a break
at different times. `conn[k]` keeps, for as long as a connection is served, what
was sent to it, dropped and received (auxiliary). The network's own buffers are
not separate: a frame in them counts as still being written.

**Feeds** adds the producers and consumers of two topics. On the server, the news
job inserts and then publishes, the leaderboard job caches and then publishes. In
the browser, an entry of the query cache is changed both by fetches, in three
steps, and by pushes; the leaderboard's store is changed by pushes and by the
effect of `useLeaderboard`. A board is the order of the players and an edition,
which stands for their net worths.

**Server** is the life of the processes. An instance takes golang-migrate's advisory
lock, reads the version, marks each migration dirty, runs its file, marks it clean,
starts its jobs, listens; on a signal it stops listening, drains its requests until
the grace of ten seconds is over, closes the pool and exits, and its jobs see the
context done. A file is one statement to Postgres and is applied whole or not at
all. Two instances with different sets of migrations do so at once, any of them may
fail or be killed at any step, and a binary that finds a dirty version, or one newer
than it knows, ends as `migrate.Up` makes it. A request reads its body, takes a
connection of the pool for the trade, gives it back and takes one for its quests. Its
body may break off, its wait for a connection be given up, its trade and its hook fail;
a hook that fails is only logged (`api/trades.go:76-78`), and what the trade and the
hook do to rows is LedgerTx's and Quests' matter. `denied` is auxiliary: the requests
that asked a pool already closed. A job's tick takes a connection, may panic, and is
recovered from.

**OrderPanel** is the panel of a card's page with the effect of `useTradeQuote`:
inputs, the debounce, the requests under way with their `cancelled` flag, the quote
shown with its countdown, which asks again with a second left and every second after
that until an answer comes. **Accounts** is what the server knows of users: the
unique index on names, passwords, tokens issued and valid, the trades of each user.
**Browser** composes the two: session, forms, order mutation, the holdings query of
TanStack Query (cancelled, refetched, joined, marked stale), and every call in the
steps sent, served, delivered or lost. A quote is served at the moment it is
answered, which only leaves out that prices move; a request's serial number (`Ids`)
tells those under way from each other and is reused. The page is a card's page: it is
there or not. `strayed` is auxiliary and marks the case named in section 3.

**LedgerProps** holds the properties that add up or search the log. Sums are folds
over finite sets of rows or users, which TLC evaluates and of which the proofs
use that an element more adds its value.
The modules named **...Proofs** hold the proofs. The **MC** modules
define seeds, curves and requests of the instances, no behaviour, with one
exception: MCLedger's `LaunchSpec` leaves the rewards out of the launch instance.

`PROJECT.json` maps every definition to the lines it models.

## 3. Runs

| Run | Question | Answer |
|---|---|---|
| `curve` | Do splitting an order, or going there and back, change what it costs? | No, up to the stated rounding; walks of 3 trades of up to 4 shares from every supply to 18, on three curves |
| `market` | Do trades, rewards and rebalancing keep the books, the fees, the streaks and the worth of a card right over sequences? | Yes |
| `launch` | Do the circuit breaker's band, vesting, shares and cost basis hold for a launched card when clock readings are late? | Yes |
| `calls` | Do concurrent calls that cross each other's users, cards and keys, with retries, failures and a crash, amount to atomic operations? Do they answer truthfully, leave one row per key and the ticks of their trades, and does nobody wait for good? | Yes (`ImplementsLedger` is refinement of Ledger's `Spec`) |
| `quests` | Do rows, locks, jobs and resets amount to the book of quests, is every trade counted, and does who holds a card get the quest? | Yes (`ImplementsQuestBook` is refinement of QuestBook's `Spec`) |
| `bots` | Is what a bot asks for still covered and affordable when its trade comes, and does the news-reactive one take up all the news it can see? | Yes |
| `feeds` | With slow, broken and reconnecting sockets and fetches among pushes: does no publisher wait, no frame go astray, and does each page end on what the server has? | Yes |
| `server` | Through a rolling deploy with a failure or crash anywhere: does nobody serve on an old schema, do requests and jobs get on with a pool of one connection, and does a signal end the process without cutting off, or closing the pool on, what the grace covers? | Yes |
| `browser` | With calls served, answered and lost in any order while the user types, trades, logs out and in: is the quote that of the inputs and does it come, do the holdings contain the trades, is the session its owner's? | Yes, but for a user shown after a trade that was answered to a later session (below) |
| `index_mint` | Can a user mint the UNLIMITED index card? | No: at supply 0 the position cap rejects everyone |
| `late_retry` | Is a retry that races its first attempt answered with that attempt's trade? | No: the checks come before the key |
| `quest_retry` | Is a trade counted once for its quest? | No: replays are counted again |

The last three are expected violations. Each checks one sentence of the
repository's own comments or documentation, quoted under `findings`, and TLC
finds a behaviour of the code that contradicts it.

Other things were met that no run states, because nothing in the repository says
otherwise, or because what is said is not about this case:

In the backend:

- `market` checks `StreakCountsRewardedDays` with `MaxLag = 0`. With a lag of 1 it
  fails: of two logins around midnight, whose
  clock readings precede their locks (`ledger/ledger.go:74`, `84`), the later may
  commit first, and the earlier then finds a last login of tomorrow and starts the
  streak over. `ReversalPaysFivefold` fails likewise: the code compares a trade with
  the latest one by the clock, read before the locks (`ledger/trade.go:174`), which
  need not be the last that was committed. So `market` shows both for exact readings
  only, and says nothing of late ones.
- The quest hook of a trade may fail after the trade has committed: a deadlock victim,
  a failed statement, a client that left and took the context along. The request is
  answered with success all the same and the trade stays uncounted, as the comment at
  `api/trades.go:71-75` has it. It also stays uncounted if its commit was not
  acknowledged: the handler then never gets to the hook.
- While two instances overlap in a deploy (`migrate/migrate.go:24`), each runs every
  bot (`bots/bots.go:38`). What one goroutine read, the other may have sold or spent;
  its order is then refused and logged. BotTraders has one goroutine per account, and
  `SalesAreCovered` and `BuysAreAffordable` are about that.
- A launch that races its own retry inserts the symbol before the key
  (`ledger/cardlaunch.go:95-113`), so the retry is told that the symbol is taken.
  LedgerTx has this behaviour (`InsertCard`).
- Queued sales of the news-reactive bot can add up to more than it owns
  (`bots/news_reactive.go:115`; `decide.go:71-72` says sales are "already bounded by
  shares owned"). `SalesAreCovered` excepts the queue.
- Ticks of one card may leave in another order than its trades committed
  (`ledger/trade.go:378` runs after the commit and without the lock), and the
  frontend's tick store keeps whatever came last
  (`frontend/src/ws/priceTickStore.ts:64`, `74`). `TicksMatchCommits` says
  that the ticks are those of the trades, and nothing of their order.
- The list of `CheckHoldCardQuests` is read once and gone through user by user
  (`quests/holdcheck.go:23`): who sold meanwhile is rewarded all the same.
- A bot whose user can not be looked up at boot is left out for good
  (`bots/bots.go:28`).
- A crash between marking a version and marking it clean leaves the schema dirty,
  and every later boot ends until somebody repairs the row
  (`cmd/server/main.go:133-136`, `migrate/migrate.go:48`).
- The hub is in the process (`cmd/server/main.go:166`): while two instances run, a
  browser gets the ticks of the one it is connected to.
- The observer of the leaderboard runs outside `safety.Recover`
  (`leaderboard/leaderboard.go:80-101`).

In the frontend:

- After a push, the effect of `useLeaderboard` sets the same entries a second time,
  and the rank changes the push worked out are empty at once.
- A news fetch that was answered before an item was inserted replaces the list the
  item was pushed into; it is missing until the next fetch (`Finish` after
  `ReceiveNews`).
- Every press of the button makes a key of its own
  (`hooks/useExecuteTrade.ts:25`): who presses again after a lost answer trades
  twice, and the server can not tell (`Submit` after `Lose`).
- A trade answered after its user has logged out sets the user shown, whoever's
  session there is by then (`hooks/useExecuteTrade.ts:28`); a 401 to a call of an
  earlier session ends the later one (`api/client.ts:64`). `SessionIsOwners`
  excepts the former (`strayed`), and the latter only logs out.
- With a second left, the quote is asked for every second until it is answered
  (`hooks/useTradeQuote.ts:54-66`), although the comment there says "exactly once".
  After a refresh that failed, it is not asked for again until the inputs change.
- The quote of the inputs before can be submitted until the answer to the new
  ones is there (`components/card-detail/OrderPanel.tsx:40`): the trade is of the new
  inputs, the price the user saw is not.
- Invalidating the holdings while they are loaded for the first time joins that
  load, served perhaps before the trade; and the cache is not cleared at a logout, so
  that the next user sees the last one's holdings until the fetch. `HoldingsCoverTrades`
  is about holdings that were shown.
- A sign-up repeated after its answer was lost is told that the name is taken.

### What the properties say

- *Books*: `BalancesReconcile` rebuilds every balance from the log,
  `SharesConserved` every supply from the positions, `CostBasisTracksSpending`
  the cost basis from the purchases. `NoFreeLunch` bounds what any sequence of
  trades can take out of a card by the area under its curve: the minimum fee
  outweighs every rounding.
- *Guardrails*: `PriceWithinBand`, `CreatorHoldsUnvested`,
  `ReversalPaysFivefold` and `EmptyCardStaysEmpty` look at sequences of trades,
  where a test looks at one.
- *Concurrency*: `ImplementsLedger` is the strongest property here; with it the
  safety of Ledger carries over to the interleaved calls. `OneRowPerKey`,
  `TradeAnswerIsTrade` and `TicksMatchCommits` concern what Ledger does not have:
  keys, answers and ticks.
- *Bots*: `SalesAreCovered` and `BuysAreAffordable` relate an order, decided on
  a snapshot, to the rows as they are when it is made. Whether what is affordable stays
  so depends on how steep the curve is where others trade. How steep it may be,
  `BudgetHeadroom` says; it is proved for any curve, and no run checks it, as in the
  instance of `bots` it follows from `BuysAreAffordable`. `OnlyOverflowIsSkipped` and
  `NewsCatchesUp` say what the cursor and the queue, which blocks polling, add up to:
  a headline that was passed over was followed by `NewsPollLimit` newer ones that were
  taken up, and what lies between the two was passed over as well.
- *Push*: `EveryFrameAccounted` relates the publications that began while a
  connection was served to what its browser received. `PublishersAreNotStalled`
  fails as soon as a send waits: a connection that ends with a full queue needs the
  lock that the waiting publisher holds. `NewsNewestFirst` and
  `LeaderboardCatchesUp` are about pushes and fetches racing into one cache.
- *Quests*: `ImplementsQuestBook` relates what users see and what they were paid at
  every moment to the book: a lost update, a reward paid twice or not at all, or a
  reset that takes back the progress of a new day is a step the book does not have.
  `NoDuplicateReward` shows that a branch of `grantReward` whose commit would fail is
  never reached, and `TradesAreCounted` relates progress to the trades counted.
- *Server*: `ServesMigratedSchema` relates a process that serves to what the schema
  has been through, whoever migrated. `GraceIsEnough` says what a shutdown may cut off
  and whom it may close the pool on: nobody the grace covers, whether it is the trade
  or its hook that waits for a connection. It does not say that an answered trade has
  been counted, for the hook may fail for other reasons. `RequestsGetThrough` fails as
  soon as a request keeps its connection while it asks for another; `SignalledEnds`
  and `JobsOutlivePanics` say that processes end and jobs do not.
- *Browser*: `QuoteIsOfInputs` fails if the answers of effects that are over count,
  `InputsAreQuoted` if the refresh of each second outdates the one before (then
  answers slower than a second never come to count), `HoldingsCoverTrades` if a trade
  joins the fetch under way. `SessionIsOwners` relates the session to the password that
  was typed and to the account, through racing sign-ups, lost answers and late 401s.

### Bounds, and why they are enough

- *Time* counts ticks. A cooldown is 1 tick, a circuit breaker window and a day
  are 2, a wash-trade window is 3, so that operations happen before, at and past
  each boundary. `MaxNow` lets each elapse (`market`: two day changes and
  a wash-trade window; `launch`: a circuit breaker window with its cooldown, and the
  whole vesting period).
- `MaxLog` bounds the log: an operation starts only while the log is shorter, and
  a trade writes two rows. 7 in `market` allows four trades, or a mix with rewards
  and rebalancings; 9 in `launch` a launch and four trades. In LedgerTx it is set
  so high that it never binds.
- `MaxLag` is 0 in `market` and `bots`, whose properties of fees and streaks fail
  with a lag (above) or are not about lateness, 1 in `launch`, and covers the whole
  clock in LedgerTx.
- *Users and cards*: one buyer and one seller per card; two cards only where
  locks cross. All row updates are per user and card, so that a third would
  repeat what two do.
- *Loads* are the sets of requests, or workers, that run together. They pick the
  combinations that share a row, a key or a symbol: a purchase with its retry and
  a sale; a trade with a rebalancing of its user; two launches of one symbol; and
  so on. What a load leaves out touches other rows, or the same rows in the way
  another load has it.
- `MaxFailures = 1`: a failure or crash of any kind at any point. The proofs hold
  for any number.
- *Quests*: one user, because progress rows, locks and rewards are all per user.
  Days of 2 ticks and a clock to 2: a period, its end and the next. Boards that
  may rank the user well or not.
- *Bots*: loads of one or two bots that trade against a person, one that tracks
  the index over a restart, and one that reads four headlines, or two over a restart:
  with polls of two rows, four are the fewest of which two in a row can be missed
  at one poll. A
  history of 2 prices, polls of 2 rows, and trades of 20% to 45% of a supply of
  some ten shares, so that a move, an overflow and a full range of sizes occur. In
  the code these are 5 prices, 10 rows and 0.1% to 0.8%.
- *Push*: queues of one frame; two connections and two publications at once, or
  one socket with three publications and a second connection, or with a break and a
  restart; two headlines; two refreshes of a board of two players. Frames, not
  their contents, matter to the hub, and connections of other topics share nothing
  but the lock. `NewsLimits` is more than the headlines under way, as a page of 15
  is.
- *Server*: an old instance and a new one with one more migration, two requests, a bot
  and a loop; a pool of one connection, the smallest, in which every second use of it
  waits; two starts of each process and one failure of any kind. The loads are a deploy
  with a request, two requests at one process with its old binary, and jobs beside a
  request.
- *Browser*: loads of two orders with one press, of one order with two presses, of one
  press across two sessions, and of three forms of two names, one of them signed up from
  elsewhere and one seeded without a password. At most two disturbances (calls lost or
  refused, tokens expired, refetches), as a query gives up after a third failure.
  `QuoteTTL` is 1, so that every second refreshes; up to `MaxAsked` = 2 refreshes may be
  under way together with the debounced request.
- *Shares*: supplies of 8 to 30 and sizes 1 to 3 (12 where vesting needs it) reach
  the cap, the band, the total supply and an empty balance.

Deadlock is checked in the LedgerTx runs, where `Finished` lets a behaviour end
only when every call has returned. The other runs say `CHECK_DEADLOCK FALSE`: their clock, log,
walk or load ends at its bound.

### Fairness

- `FairTxSpec`: weak fairness of each call's next step. A goroutine runs on, and
  a lock, once free, goes to a waiter. Failures, crashes and clock ticks are not
  fair. `EveryCallReturns` needs no more, as each call waits for a lock only
  while another call holds it and every holder goes on.
- Quests' `FairSpec`: weak fairness of each worker and of the reset, since
  tickers fire again and again, and strong fairness of `GrantReward(w)`, for the
  lock of the user's row, which others may take again and again: Postgres serves
  a row lock in the order of its waiters. Postgres also ends deadlocks
  (`BreakDeadlock` is part of the worker's step): two calls that inserted rows of
  one user and both complete a quest do deadlock, one is rolled back, and
  `HoldersAreRewarded` shows that the hold job makes up for it.
- `FairBotSpec`: weak fairness of a news-reactive bot's tick, and strong fairness
  of reading holdings and of its decision: any statement may fail (`TickError`),
  but not every time. Trades, news and restarts are not fair.
- `FairFeedSpec`: goroutines run on (publications, connection handlers, and writes,
  which `writeTimeout` ends), strongly for the writers of `sync.RWMutex`, which
  keeps new readers out while a writer waits. For the open leaderboard page, the
  interval of `useLeaderboard` asks again and again, and not every fetch fails.
  Sockets, breaks and pages are not fair: `LeaderboardCatchesUp` holds without a
  socket.
- Server's `FairSpec`: weak fairness of booting, listening, stopping and of the steps
  of jobs and requests, and strong fairness of getting a connection, which pgxpool
  hands out in the order of asking. Starts, signals, failures, bodies and giving up
  (`GiveUp`) are not fair: a client may never send its body, and `GraceIsEnough`
  excepts what the grace ran out on.
- Browser's `FairSpec`: timers fire, and each quote asked for is answered or fails in
  the end. Nothing else is fair: the user may stop at any point and calls of other
  kinds may take for ever.

## 4. Proofs

All theorems hold for every value of the constants that satisfies the named
assumptions: `PricingAssumption` (the curve tables are functions into the right sets),
`GuardsAssumption` (durations are positive), `LedgerAssumption` (disjoint ids,
well-typed seeds, `LaunchCost <= LaunchThreshold`), `LedgerTxAssumption` (requests
have passed validation), `QuestsAssumption` (two jobs that are no handlers, finitely
many handlers, a day and a target that are at least 1), `ServerAssumption` (bots are
no loops, a pool has a connection), `SharesAssumption` (finitely many users; no
migration puts more of a card into circulation than there is of it), `HubAssumption`
and `FeedsAssumption` (the news and the leaderboard are two of the topics, buffers and
pages have room), `WalkAssumption` (sizes and lengths of walks are natural numbers),
`BotTradersAssumption` (each bot has a persona, the cards have an order without
repetition, polls and histories have room), `AccountsAssumption`, `OrderPanelAssumption`
and `BrowserAssumption`
(seeded accounts have names, the token the browser starts with is of one that can log
in, nobody is called like the absence of a session). The curve, the seeds, the number
of users, cards, requests, instances, migrations, jobs, topics, connections, calls,
sessions, bots and their personas, headlines and restarts, the lengths of walks, the lag
and the failures are arbitrary. Nothing is assumed of the curve's
monotonicity. Three theorems have a hypothesis besides; it is said below why it is
needed, and when it holds.

| Theorem | Statement | Argument |
|---|---|---|
| `TypeCorrect` | `Spec => []TypeOK` | TypeOK includes the CHECK constraints (balances, positions and supplies are natural numbers) and is inductive: the checks of `TradeAllowed` are what makes each new row legal |
| `PricesCorrect` | `Spec => [](PriceIsSpot /\ PriceWithinBand)` | with TypeOK; the stored price is the spot price of the stored supply, which no run checks, as the proof says it; a trip moves the baseline to the new price, any other trade stays within 15% of its own baseline |
| `EmptyCardIsDead` | `Spec => EmptyCardStaysEmpty` | a buyer of the first n shares would hold n of n, and a seller needs shares that cannot leave a negative supply |
| `VestingCorrect` | `Spec => []CreatorHoldsUnvested` | not inductive: needs `VestingInv`, that the creator holds the retained shares not counted as sold, and that no more are counted as sold than have vested by now (`VestingOK`); vesting is monotone in time, so late clock readings only make it stricter |
| `NoFreeLunchEver` | `Spec => []NoFreeLunch` | `LunchInv` adds that a card that does not exist has sunk nothing; one charge exceeds the difference of areas, as the minimum fee is more than half a unit of rounding; a launch opens a card at its own supply |
| `CallsImplementLedger` | `TxSpec => ImplementsLedger` | `TxInv`: what a transaction read is what the rows still say as long as it holds their locks; so a commit is Ledger's action, and every other step a stutter |
| `KeysAreUnique` | `TxSpec => []OneRowPerKey` | part of `TxInv`: who is about to commit finds its key neither in the log nor in another open transaction that has inserted it |
| `CallsKeepLedgerSafe` | Ledger's invariants under `TxSpec` | from the refinement |
| `BooksAreKept` | `Spec => []BalancesReconcile` | inductive with TypeOK: a row's resulting balance is the one before plus its delta, and a sum over one row more is the sum plus its delta |
| `SharesAreKept` | `Spec => []SharesConserved` | `SharesInv` adds that nobody holds a card that does not exist, so that a launch finds no shares to explain; one position and the supply change by the same number |
| `CostBasisIsTrue` | `Spec => []CostBasisTracksSpending` | `CostInv` says it of every card; the average is rounded once per purchase, by half a unit at most, and the error of the average before counts once per share |
| `ReversalsPay` | `Spec /\ []TradesInOrder => []ReversalPaysFivefold` | with `FeesFollow` (a trade's row is followed by its fee's); the latest trade the code reads is then the one before in the log |
| `StreaksCountDays` | `Spec /\ LoginsInOrder => []StreakCountsRewardedDays` | `StreakInv`: the streak reaches back from the last login, over days that are all rewarded, to one that is not |
| `CallsKeepBooks` | books, shares and cost bases under `TxSpec` | from the refinement |
| `TradeAnswersAreTrades` | `TxSpec => []TradeAnswerIsTrade` | with `TxInv` and `AnswerInv`: an answer given is that of the log's row with the request's key, and rows and keys only grow |
| `TicksAreTrades` | `TxSpec => []TicksMatchCommits` | `PushInv` counts: the ticks of a trade, and the calls that have committed it and are about to push, are no more than its commits, and as many if nothing failed |
| `RoundingDoesNotAddUp` | `Spec => []PathIndependent` of Walk | `WalkInv` says in hundredths what was paid: the area between the two ends, up to half a unit per trade |
| `RoundTripsAlwaysLose` | `Spec => []RoundTripsLose` of Walk | with `WalkInv`, which adds that every trade paid a unit of fee; a round trip spans no area |
| `BotsAreTraders` | `BotSpec => AnySizeSpec` | with `BotInv`: an order that has got as far as the trade is of a card, and of at least one share; so it is an operation of the ledger, and every other step of a bot a stutter |
| `BotsKeepLedgerSafe` | Ledger's invariants under `BotSpec` | from `BotsAreTraders` and the theorems on Ledger |
| `BotsKeepBooks` | books, shares and cost bases under `BotSpec` | likewise |
| `BotsSellWhatTheyHave` | `BotSpec => []SalesAreCovered` | part of `BotInv`, with what was read and is not decided yet: only a bot's own trade moves its shares |
| `BudgetsHaveHeadroom` | `BotSpec => []BudgetHeadroom` | with `BotInv` (an order is at most a quarter of the balance read) and `SeenExist` (cards seen exist); the fee is 1%, at most 5 times and rounded, and the fourth quarter covers it |
| `BotsReadTheNews` | `BotSpec => []OnlyOverflowIsSkipped` | part of `BotInv`: a poll appends the rows after the cursor, or the last `NewsPollLimit`, to what was heard, and all of it is newer |
| `QuestsTypeCorrect` | `Spec => []TypeOK` of Quests | with `Inv`; a sale finds a share. No run checks it, as it is proved |
| `NoRewardTwice` | `Spec => []NoDuplicateReward` | from `Inv`: what a transaction holds is newer than every reward of its quest, or of a period that is not completed |
| `ImplementsTheBook` | `Spec => ImplementsQuestBook` | with `Inv` and `BookInv`; commits are `Advance` or `PayLate`, a tick past midnight is `NewDay`, everything else a stutter |
| `NoTradeLost` | `Spec => []TradesAreCounted` | with `Inv` and `TradeInv` |
| `SchemaServed` | `Spec => []ServesMigratedSchema` | with the invariant of Server |
| `GraceHolds` | `Spec => []GraceIsEnough` | with the invariant of Server |
| `ServerTypeCorrect` | `Spec => []TypeOK` of Server | with the invariant of Server |
| `FramesAreAccounted` | `FeedSpec => []EveryFrameAccounted` | with `HubInv` |
| `NewsStayInOrder` | `FeedSpec /\ []PagesCoverFrames => []NewsNewestFirst` | with `FeedInv` |
| `QuotesAreOfInputs` | `Spec => []QuoteIsOfInputs` of Browser | with `IInv`: whoever asked for other inputs than those shown is cancelled |
| `SessionsAreTheirOwners` | `Spec => []SessionIsOwners` | with `IInv`: it holds of the sessions in answers under way already |
| `HoldingsAreCurrent` | `Spec => []HoldingsCoverTrades` | with `IInv`: holdings that lack a confirmed trade are stale, and stale ones are being fetched by a request the server answers later |

`TxInv` is a conjunction of `TxShape` (types), `KeyLog` (keys are as long as the
log, and rewards' keys name their row's user and day), `OneRowPerKey`,
`ReadsHold` (the reads under locks are current) and `KeysAreFree`. There is one
lemma per action, and under a commit one per kind of call.

The invariant of Quests (`Inv`, QuestsProofs) is the argument of the row lock. Nobody
else holds the row a transaction holds (`LockInv`; locks are stages here, so this has
to be shown), nor does the bulk reset, and the rows it holds stay due (`ResetInv`). So
what a transaction read is what the row still says (`TxInv`, and `InsertInv` for a row
about to be inserted), its row is of a later period or of one not completed, and
every reward is of a period before the row's or of the row's own, which is then
completed (`RewardInv`). Types come with it because row locks are told from users and
times that were read.

On top of that, `BookInv` knows that periods end at midnights that
have begun, hence at multiples of a day, and that a row not completed is short of its
target. A step of the clock past midnight is then a new day for all rows at once,
because what is shown of a row is empty from the end of its period on; and a commit
advances the standing if its period still goes on, and pays late if not. `TradeInv`
counts handlers: none counted yet is counted anywhere, none is
counted in a period later than the row's, and the row's progress is the number of those
counted in its period; so a fresh period has none, and a commit adds one element to a
finite set.

The invariant of Server (ServerProofs) has five parts: types; `SchemaInv`, that the
schema has been through the migrations up to the version, in order, whoever is in the
middle of one holds the advisory lock, and a clean version is an applied one;
`KnownInv`, that who is past the migrations finds all of its own applied; `WorkInv`,
that jobs and listeners exist only in the phases that start and stop them; and
`RequestInv`, that the pool of its instance is open as long as a request the grace
covers is active, so that it is neither denied a connection nor cut off.

What LedgerProofs shows of Ledger it shows of `AnySizeSpec`, in which a trade may have
any size, and `SpecIsAnySize` says that Ledger's `Spec`, whose sizes are those of a
model, is a case of it. Nothing in the ledger depends on the sizes it is asked for, and
the bots compute theirs.

The second part of LedgerProofs needs sums over sets of any finite size. The library's induction
over finite sets takes a predicate as a parameter, which the provers cannot instantiate;
`SubsetRule` says the same of a *set* of sets, and follows from the well-foundedness of
proper inclusion among the subsets of a finite set. With it a sum is an integer, does
not depend on what lies outside its set, and grows by the value of an element that is
added, whatever order the fold takes. Above that, each property is restated of a log
(`Books`, `DaysIn`, `Fivefold`, `CostTracked`) and shown to survive one appended row, and
the operations are reduced to the rows they append (`TradeLog`, `LogStep`).

Two of its theorems have a hypothesis on the clock readings of Ledger, which may be
older than the commit. `TradesInOrder` says of the log that the trades of a user on a
card are in the order of their readings, `LoginsInOrder` of the steps that a login is
not older than the one before it. Both can fail in the code when readings are late,
and then the property does too (section 3; a trade older than the one before it in the
log is not the one the next is compared with). With exact readings (`MaxLag = 0`, as
in `market`) they hold, which the corollaries `ReversalsPayOnTime` and
`StreaksCountDaysOnTime` prove.

`HubInv` (FeedsProofs) has, beside types, `PublishInv` (who is still to be visited is
subscribed, to the topic of the publication), `ConnInv` (a handler holds a frame
exactly while it writes, and what was sent to a connection was published while it was
served) and `AccountedInv`, which says with `EveryFrameAccounted` that what was
published to a connection and has not been sent to it is what is still to visit it. It
holds for any buffer, topics and number of connections. `FeedInv` adds that rows are
numbered and but for the last have been published (`RowsInv`), that the frames of a
connection of the news are in the order of their rows (`QueueInv`), and that the list
of a browser and the answers it awaits are newest first, and what is under way to it is
in them already or newer than all of them (`NewsInv`).

A frame can arrive so late that the page fetched meanwhile no longer has its row; the
browser then takes an old item for a new one and puts it on top, which TLC shows with
a page shorter than the news. `PagesCoverFrames` excludes that: while a frame is under
way, fewer headlines come than a page has. In the code a page has 15 and a write that
takes longer than `writeTimeout` ends the connection; the corollary
`NewsStayInOrderOnLongPages` proves that pages as long as the news there are, as in
`feeds`, satisfy it.

`BotInv` (BotTradersProofs) has, beside the types of a bot's memory, what that memory
owes to the rows at each stage of a tick: before the decision, the holdings read are
still those of the rows (`HoldingsFit`); after it, a sale is of no more than they are
(`SaleFits`); at the trade, a purchase is of at most a quarter of the balance read, at
the price seen (`BudgetFits`). `SalesAreCovered` is not inductive without the first. Of
the cursor it says that it lies between the start and the last row, that what was taken
up is in order and not beyond it, and that what lies before it was taken up or overtaken
(`NewsFit`). The personas enter only through `PersonaOrdersFit` and
`QueueFits`: whatever they want is of a card seen and of at least one share, and a sale
is of no more than is owned when it is decided.

`OnlyOverflowIsSkipped` once said that a headline passed over is older than
`NewsPollLimit` headlines right after it. That holds while no two in a row are missed, as
with three headlines, and TLC refuted it with four: the first two are missed at one poll,
and what follows the first directly is the second. What the code does is what the
property says now.

The invariant of Browser (`IInv`, BrowserProofs) has the types; `PanelInv`, that a
request not cancelled asked for the inputs shown; `AccountsInv`, that seeded accounts
keep their passwords; `SessionInv` and `HoldingsInv`, the properties of the session
and of the holdings with what they need between two steps; and `CallsInv`, that every
call under way is `Sound`: a session in an answer is that of the account whose
password was typed, a confirmed trade has been executed, and fetched holdings cover
the trades confirmed so far or are of a request that was dropped.

Only model-checked, and not proved:

- `BuysAreAffordable` of BotTraders: that others do not make a purchase dearer than its
  buyer can pay is a matter of the curve's slope and of how many trades fit between two
  statements, and is false of a curve that is steep enough. `BudgetHeadroom` is what holds
  of every curve, and is proved.
- That Curve's tables are those of an integer square root, and what they are: Curve uses
  RECURSIVE operators, which are out of the prover's reach. The theorems hold for any
  tables.
- That the news-reactive bot's queued sales are covered: they need not be (section 3).
- All liveness (`EveryCallReturns`, `HoldersAreRewarded`, `NewsCatchesUp`,
  `PublishersAreNotStalled`, `DeadConnectionsLeave`, `LeaderboardCatchesUp`,
  `SignalledEnds`, `RequestsGetThrough`, `JobsOutlivePanics`, `InputsAreQuoted`), which is
  out of the prover's reach, as is what a recursive definition computes.

## 5. What is not modelled

- float64: the integer curve rounds where the code rounds, but cannot show an
  error of the floating-point root itself.
- The demand and drift modifiers of the engine: every caller passes 1.
- Cards that are FROZEN or DELISTED: no code sets these states. `TradeOpen` has
  the check for them, and the proofs cover rows in any status.
- Hold times across sales: `first_bought_at` is kept as the code keeps it, but
  nothing states how long a position has really been held.
- Reads for display (the list of cards, the trade history, Me), validation of requests,
  configuration, CORS, DTOs, generated query code outside the ledger, quests and news,
  views: no state changes there. Validation is an assumption on the requests.
- Hashing of passwords and signing of tokens: library calls, of which only the result
  matters.
- What a migration's SQL does to the tables: a file is a number that has been applied.
- The change of a net worth since the last refresh and the arrows of the
  leaderboard; the wording and parsing of headlines; toasts; the length of the
  reconnection's backoff; the garbage collection of the query cache.
- In the browser: reloading the page in the middle of a call, several tabs, the page of
  the portfolio, and retries of queries beyond the second, after which a query gives up.
- The tick store of the frontend keeps what arrives in the order of arrival. LedgerTx says
  in which order ticks leave, Hub which of them arrive; the store adds no behaviour to
  check.

## 6. Plan

1. **Done**: Curve, Pricing, Walk, Guards, Trade, Ledger, LedgerTx, Quests and QuestBook,
   BotTraders, Hub and Feeds, Server, and OrderPanel, Accounts and Browser, each with its
   proofs. Every safety property of the runs is proved but `BuysAreAffordable`, which is
   about the curves of its instance; three of them under the hypotheses of section 4.
2. **Bots**: a limit on the number of trades that others make between a bot's statements,
   with which `BuysAreAffordable` follows for every curve of bounded slope.
3. **Ledger**: the quest reward as an operation of its own, in place of the
   reward rows that Quests keeps; boards of Feeds from the ledger's rows; the daily
   reward as a step of Accounts' login.
