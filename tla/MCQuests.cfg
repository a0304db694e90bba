SPECIFICATION FairSpec
CONSTANTS
    ann = ann
    bob = bob
    k1 = k1
    k2 = k2
    k3 = k3
    h1 = h1
    h2 = h2
    h3 = h3
    HoldJob = HoldJob
    RankJob = RankJob
    Users = {ann}
    Handlers = {h1, h2, h3}
    Ask <- AnnTrades
    TradesTarget = 2
    Position <- AnnHolds
    HoldTime = 1
    DayLength = 2
    Boards = {{ann}, {}}
    Loads <- QuestLoads
    MaxNow = 2
    MaxFailures = 1
INVARIANTS
    NoDuplicateReward
    TradesAreCounted
PROPERTIES
    ImplementsQuestBook
    HoldersAreRewarded
CHECK_DEADLOCK FALSE
