SPECIFICATION HSpec
CONSTANTS
    Users = {u1, u2}
    Nobody = nobody
    Market = market
    ExtraMarkets = {adapter}
    StakeAmounts = {1, 2}
    FeeAmounts = {1}
    GiftAmounts = {1}
    Bond = 1
    ResolutionTime = 3
    Window = 1
    Precision = 2
    Supply = 4
SYMMETRY UserSymmetry
INVARIANTS VaultIsExact OutcomeIsTheVoteAtTheDeadline
CHECK_DEADLOCK FALSE
