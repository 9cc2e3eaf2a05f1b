SPECIFICATION RivalsSpec
CONSTANTS
    t1 = t1
    t2 = t2
    v1 = v1
    Tabs <- MCTabs
    Nobody = nobody
    Reviews <- MCReviews
    None = none
    Question <- MCQuestion
    MaxRequests = 2
    MaxMined = 2
INVARIANTS UnlockedIsSafe
CHECK_DEADLOCK FALSE
