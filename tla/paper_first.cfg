SPECIFICATION Spec
CONSTANTS
    u1 = u1
    u2 = u2
    t1 = t1
    t2 = t2
    m1 = m1
    m2 = m2
    i1 = i1
    None = none
    Users = {u1}
    Tabs = {t1, t2}
    Owner <- OneOwner
    Slots = {s1, s2}
    PoolSize = 1
    Markets = {m1}
    Ids = {i1, i2}
    CreateIds = {i1}
    InitialGrant = 2
    Fine = 2
    Amounts = {1}
    RecentLimit = 1
    TotalLimit = 2
    MaxOrders = 2
    ClientOps = {"create", "buy"}
SYMMETRY SlotSymmetry
INVARIANTS TypeOK
PROPERTIES RefinesLedger
CHECK_DEADLOCK FALSE
