SPECIFICATION Spec
CONSTANTS
    ann = ann
    bob = bob
    bot = bot
    acme = acme
    index = index
    card = card
    Humans = {ann}
    Bots = {bot}
    Seeded = {acme, index}
    Launchable = {}
    NoCreator = NoCreator
    SeedCard <- MarketCards
    SeedShares <- MarketShares
    SeedBalance <- Purse100
    Curves <- MCCurves
    Spot <- MCSpot
    Area <- MCArea
    MaxSupply = 14
    WashTradeWindow = 3
    CircuitBreakerWindow = 2
    CircuitBreakerCooldown = 1
    VestingPeriod = 4
    LaunchBase = 10
    LaunchThreshold = 50
    LaunchCost = 10
    DailyRewardAmount = 5
    BotStartingBalance = 100
    DayLength = 2
    TradeSizes = {1, 2}
    LaunchTotals = {10}
    LaunchPercents = {}
    MaxNow = 3
    MaxLag = 0
    MaxLog = 6
INVARIANTS
    UnlimitedIsMintable
CHECK_DEADLOCK FALSE
