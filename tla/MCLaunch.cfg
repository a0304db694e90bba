SPECIFICATION LaunchSpec
CONSTANTS
    ann = ann
    bob = bob
    bot = bot
    acme = acme
    index = index
    card = card
    Humans = {ann, bob}
    Bots = {}
    Seeded = {}
    Launchable = {card}
    NoCreator = NoCreator
    SeedCard <- NoSeeds
    SeedShares <- NoShares
    SeedBalance <- Purse100
    Curves <- MCCurves
    Spot <- MCSpot
    Area <- MCArea
    MaxSupply = 30
    WashTradeWindow = 3
    CircuitBreakerWindow = 2
    CircuitBreakerCooldown = 1
    VestingPeriod = 3
    LaunchBase = 10
    LaunchThreshold = 50
    LaunchCost = 10
    DailyRewardAmount = 5
    BotStartingBalance = 100
    DayLength = 2
    TradeSizes = {1, 3, 12}
    LaunchTotals = {30}
    LaunchPercents = {40, 50}
    MaxNow = 3
    MaxLag = 1
    MaxLog = 9
INVARIANTS
    PriceWithinBand
    CreatorHoldsUnvested
    SharesConserved
    CostBasisTracksSpending
CHECK_DEADLOCK FALSE
