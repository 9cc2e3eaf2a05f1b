SPECIFICATION LaunchedSpec
CONSTANTS
    Users = {u1, u2, u3}
    Nobody = nobody
    Market = market
    ExtraMarkets = {}
    StakeAmounts = {1, 2}
    FeeAmounts = {1}
    GiftAmounts = {}
    Bond = 0
    ResolutionTime = 1
    Window = 1
    Precision = 4
    Supply = 6
SYMMETRY UserSymmetry
INVARIANTS TypeOK NoClaimRefused FeeHistoryIsExact
PROPERTIES FeeClaimsPayTheEarnings WithdrawalsPayTheShare
CHECK_DEADLOCK FALSE
