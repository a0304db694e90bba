SPECIFICATION FairFeedSpec
CONSTANTS
    Prices = Prices
    News = News
    Leaderboard = Leaderboard
    left = left
    right = right
    Topics = {Prices, News, Leaderboard}
    Browsers = {left, right}
    Players = {"ann", "bob"}
    SendBuffer = 1
    HubLoads <- Loads
    MaxPublications = 3
    MaxConns = 2
    NewsLimits = {3}
INVARIANTS
    EveryFrameAccounted
    NewsNewestFirst
PROPERTIES
    PublishersAreNotStalled
    DeadConnectionsLeave
    LeaderboardCatchesUp
CHECK_DEADLOCK FALSE
