SPECIFICATION FairBotSpec
CONSTANTS
    ann = ann
    trend = trend
    against = against
    walker = walker
    reader = reader
    tracker = tracker
    acme = acme
    index = index
    Humans = {ann}
    Bots = {trend, against, walker, reader, tracker}
    Seeded = {acme, index}
    Launchable = {}
    NoCreator = NoCreator
    SeedCard <- MarketCards
    SeedShares <- MarketShares
    SeedBalance <- Purses
    Curves <- MCCurves
    Spot <- MCSpot
    Area <- MCArea
    MaxSupply = 14
    WashTradeWindow = 3
    CircuitBreakerWindow = 2
    CircuitBreakerCooldown = 1
    VestingPeriod = 4
    LaunchBase = 10
    LaunchThreshold = 50
    LaunchCost = 10
    DailyRewardAmount = 5
    BotStartingBalance = 66
    DayLength = 2
    TradeSizes = {1}
    LaunchTotals = {}
    LaunchPercents = {}
    MaxNow = 1
    MaxLag = 0
    MaxLog = 5
    Persona <- MCPersona
    CardOrder <- MCCardOrder
    CardType <- MCCardType
    Sector <- MCSector
    Weights <- MCWeights
    HistoryWindow = 2
    MinTradePermille = 200
    MaxTradePermille = 450
    MaxTradeShares = 4
    NewsPollLimit = 2
    BotLoads <- Loads
INVARIANTS
    SalesAreCovered
    BuysAreAffordable
    OnlyOverflowIsSkipped
PROPERTIES
    NewsCatchesUp
CHECK_DEADLOCK FALSE
