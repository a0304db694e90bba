SPECIFICATION TxSpec
CONSTANTS
    ann = ann
    bob = bob
    bot = bot
    acme = acme
    nova = nova
    coin = coin
    k1 = k1
    k2 = k2
    k3 = k3
    k4 = k4
    k5 = k5
    q1 = q1
    q2 = q2
    q3 = q3
    q4 = q4
    q5 = q5
    q6 = q6
    q7 = q7
    q8 = q8
    q9 = q9
    q10 = q10
    Humans = {ann}
    Bots = {bot}
    Seeded = {acme}
    Launchable = {}
    NoCreator = NoCreator
    SeedCard <- AcmeCard
    SeedShares <- BotShares
    SeedBalance <- Purses
    Curves <- MCCurves
    Spot <- MCSpot
    Area <- MCArea
    MaxSupply = 12
    WashTradeWindow = 3
    CircuitBreakerWindow = 2
    CircuitBreakerCooldown = 1
    VestingPeriod = 4
    LaunchBase = 10
    LaunchThreshold = 20
    LaunchCost = 10
    DailyRewardAmount = 5
    BotStartingBalance = 45
    DayLength = 2
    TradeSizes = {1, 2}
    LaunchTotals = {10}
    LaunchPercents = {40}
    MaxNow = 0
    MaxLag = 0
    MaxLog = 20
    Requests = {q1, q2}
    Ask <- RetryCalls
    Loads <- AllTogether
    MaxFailures = 0
INVARIANTS
    TradeRetryIsReplayed
