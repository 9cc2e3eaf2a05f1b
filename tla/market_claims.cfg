SPECIFICATION BoundedSpec
CONSTANTS
    Users = {u1, u2}
    PaidAmounts = {1000}
    ShareAmounts = {}
    TradeAmounts = {1201}
    PairAmounts = {600}
    LPAmounts = {7}
    GiftAmounts = {}
    CoreEnd = 5
    Hour = 1
    RTarget = 1500
    K = 1
    CurveScale = 1
    Scale = 2
    Wad = 1000
    LnOnePlusExp <- MCLnOnePlusExp
    GuardFloor = 1
    GuardDepth = 1000
    GuardSlack = 1
    Limit = 100000
    MaxOutcomeSupply = 100000
    Supply = 9000
    MaxTrades = 4
SYMMETRY UserSymmetry
INVARIANTS TypeOK OutcomesBacked BooksCoverBalance BudgetsKeepTheirShare NoExitRefused
PROPERTIES TradingStopsWithTheVault
CHECK_DEADLOCK FALSE
