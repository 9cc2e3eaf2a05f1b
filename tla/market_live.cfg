SPECIFICATION FairBoundedSpec
CONSTANTS
    Users = {u1, u2}
    PaidAmounts = {700, 1000}
    ShareAmounts = {13}
    TradeAmounts = {1201}
    PairAmounts = {}
    LPAmounts = {31}
    GiftAmounts = {2500}
    CoreEnd = 5
    Hour = 1
    RTarget = 1980
    K = 1
    CurveScale = 1
    Scale = 2
    Wad = 1000
    LnOnePlusExp <- MCLnOnePlusExp
    GuardFloor = 1
    GuardDepth = 1000
    GuardSlack = 1
    Limit = 100000
    MaxOutcomeSupply = 100000
    Supply = 4500
    MaxTrades = 3
INVARIANTS CurveBacked
PROPERTIES EverybodyIsPaid MarketEmpties
CHECK_DEADLOCK FALSE
