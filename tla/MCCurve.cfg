SPECIFICATION Spec
CONSTANTS
    MaxSupply = 18
    MaxTrade = 4
    MaxTrades = 3
    Curves <- MCCurves
    Spot <- MCSpot
    Area <- MCArea
INVARIANTS
    PathIndependent
    RoundTripsLose
CHECK_DEADLOCK FALSE
