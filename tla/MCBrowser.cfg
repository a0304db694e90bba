SPECIFICATION FairSpec
CONSTANTS
    NoPassword = NoPassword
    NoOrder = NoOrder
    Names <- MCNames
    Passwords <- MCPasswords
    SeededAccounts <- MCSeeded
    Orders <- MCOrders
    QuoteTTL = 1
    MaxAsked = 2
    FirstSession <- MCFirst
    Loads <- MCLoads
INVARIANTS
    HoldingsCoverTrades
    SessionIsOwners
    QuoteIsOfInputs
PROPERTY InputsAreQuoted
CHECK_DEADLOCK FALSE
