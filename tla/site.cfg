SPECIFICATION SiteSpec
CONSTANTS
    Accounts = {a1, a2}
    a1 = a1
    a2 = a2
    Nobody = Nobody
    Markets = {m1, m2}
    Contents = {x1, x2}
    Blank = Blank
    Vaults = {v1}
    NoOutcome = NoOutcome
    Charts = {c1, c2, c3}
    Keys = {k1, k2, k3}
    NoKey = NoKey
    Instances = {i1, i2}
    NoCheckpoint = NoCheckpoint
    MaxBlocks = 1
    MaxHeight = 2
    MaxFaults = 2
    TradeActs = 4
    CreateActs = 6
    Topics <- MCTopics
    Launches <- MCLaunches
    MarketEnabled = TRUE
    LocalDev = TRUE
    Typed = {Blank, 0, 1}
    Prices = {100, 102}
    MaxReads = 2
    VaultActs = 3
    Threshold = 30
    VirtualQuote = 20
    VirtualSupply = 40
    CapitalBps = 900
    Wanted = {1, 9}
    Bids = {12, 31}
    GenesisActs = 2
    Fetches = 2
    MaxTime = 2
    Creator = a1
    Grant = 20000
    K = 990
    RTarget = 3960
    Slack <- MCSlack
    Shares = {1}
    Lots = {2000}
    Budgets = {1500}
    Stakes = {1000}
    Bond = 500
    TC = 5
    Eps = 40
    MaxOrders = 3
    Networks = {"base", "other"}
    Target = "base"
    Handlers = {1, 2, 3}
    WalletActs = 4
    Times = {1, 2, 4, 9}
    MaxHead = 7
    Sample = 3
    Rounds = 4
    MaxBlock = 3
    MaxRequests = 2
    MaxConcurrent = 2
    QueueActs = 5
CHECK_DEADLOCK FALSE
INVARIANTS  PaperBookHolds
PROPERTIES NothingStaleIsSigned EveryChartIsAnswered RefinesIndex IndexIsComplete
