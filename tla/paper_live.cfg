SPECIFICATION FairOpenedSpec
CONSTANTS
    u1 = u1
    u2 = u2
    t1 = t1
    t2 = t2
    m1 = m1
    m2 = m2
    i1 = i1
    None = none
    Users = {u1, u2}
    Tabs = {t1, t2}
    Owner <- TwoOwners
    Slots = {s1, s2}
    PoolSize = 2
    Markets = {m1}
    Ids = {i2}
    CreateIds = {}
    InitialGrant = 2
    Fine = 2
    Amounts = {1}
    RecentLimit = 1
    TotalLimit = 2
    MaxOrders = 1
    ClientOps = {"buy", "share"}
PROPERTIES EveryOrderIsAnswered RefinesLedgerSteps
CHECK_DEADLOCK FALSE
