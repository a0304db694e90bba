SPECIFICATION Spec
CONSTANTS
    ann = ann
    bob = bob
    k1 = k1
    k2 = k2
    k3 = k3
    h1 = h1
    h2 = h2
    h3 = h3
    HoldJob = HoldJob
    RankJob = RankJob
    Users = {ann}
    Handlers = {h1, h2}
    Ask <- AnnRetries
    TradesTarget = 2
    Position <- AnnHolds
    HoldTime = 1
    DayLength = 2
    Boards = {{ann}, {}}
    Loads <- RetryLoads
    MaxNow = 1
    MaxFailures = 0
INVARIANTS
    TradesCountOnce
CHECK_DEADLOCK FALSE
