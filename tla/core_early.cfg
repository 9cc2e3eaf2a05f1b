SPECIFICATION FairLaunchedSpec
CONSTANTS
    Users = {u1, u2}
    Nobody = nobody
    Market = market
    ExtraMarkets = {}
    StakeAmounts = {1, 2}
    FeeAmounts = {1}
    GiftAmounts = {}
    Bond = 1
    ResolutionTime = 3
    Window = 1
    Precision = 2
    Supply = 4
INVARIANTS EscrowBacksRequest
PROPERTIES VotesFrozenWhileDue SettlementIsFinal TopicSettles StakersArePaid
CHECK_DEADLOCK FALSE
