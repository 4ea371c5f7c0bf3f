SPECIFICATION Spec
CONSTANTS
    NONE = NONE
    p1 = p1
    p2 = p2
    s1 = s1
    s2 = s2
    r1 = r1
    r2 = r2
    n1 = n1
    AddrBits = 2
    ScanCap = 4
    Pools <- MCPools
    Supernets <- MCSupernets
    Requests <- MCRequests
    Nics <- MCNics
    SupernetPrefix <- MCPrefix
    SupernetFamily <- MCFamily
    PoolSettings <- MCSettings
    Lengths = {1, 2}
    AskedFamilies = {4, 6}
SYMMETRY SymRequests
INVARIANTS TypeOK LiveSourceAttached ApprovedHasAllocation CarvedAsAsked
PROPERTIES RegistryKeepsLedger
CHECK_DEADLOCK FALSE
