SPECIFICATION OpenedSpec
CONSTANTS
    u1 = u1
    u2 = u2
    t1 = t1
    t2 = t2
    m1 = m1
    m2 = m2
    i1 = i1
    None = none
    Users = {u1, u2}
    Tabs = {t1, t2}
    Owner <- OneOwner
    Slots = {s1, s2}
    PoolSize = 2
    Markets = {m1, m2}
    Ids = {i2, i3}
    CreateIds = {}
    InitialGrant = 2
    Fine = 2
    Amounts = {1}
    RecentLimit = 1
    TotalLimit = 1
    MaxOrders = 1
    ClientOps = {"buy", "sell", "claim", "share"}
SYMMETRY OwnerSymmetry
INVARIANTS JournalExplains MoneyConserved AnswersAreKept SnapshotQuota
PROPERTIES DoneIsNotRefused
CHECK_DEADLOCK FALSE
