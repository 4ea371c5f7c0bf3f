SPECIFICATION MCFairSpec
CONSTANTS
    NONE = NONE
    p1 = p1
    s1 = s1
    r1 = r1
    r2 = r2
    n1 = n1
    w1 = w1
    w2 = w2
    AddrBits = 1
    ScanCap = 4
    Pools <- MCPools
    Supernets <- MCSupernets
    Requests <- MCRequests2
    Nics <- MCNics
    SupernetPrefix <- MCPrefix
    SupernetFamily <- MCFamily
    PoolSettings <- MCSet
    Lengths = {1}
    AskedFamilies = {4}
    Workers <- MCWorkers1
    MaxAttempts = 2
    MaxPerTick = 1
    MaxCrashes = 1
    MaySwitch = FALSE
PROPERTY QueueIsServed
CHECK_DEADLOCK FALSE
