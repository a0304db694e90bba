SPECIFICATION FairSpec
CONSTANTS
    old = old
    new = new
    momentum = momentum
    news = news
    r1 = r1
    r2 = r2
    Instances = {old, new}
    Knows <- OneMoreMigration
    OldVersion = 0
    Bots = {momentum}
    Loops = {news}
    Requests = {r1, r2}
    MaxConns = 1
    Loads <- ServerLoads
    MaxStarts = 2
    MaxFailures = 1
INVARIANTS
    ServesMigratedSchema
    GraceIsEnough
PROPERTIES
    SignalledEnds
    RequestsGetThrough
    JobsOutlivePanics
CHECK_DEADLOCK FALSE
