SPECIFICATION ScanSpec
CONSTANTS
    NONE = NONE
    AddrBits = 3
    ScanCap = 5
    AllocatedSets <- MCAllocatedSets
    Sizes = {0, 1, 2, 3, 4}
    Limits = {1, 3}
INVARIANTS FirstFit StaysInFamily ComputesFirstFree
PROPERTY Terminates
CHECK_DEADLOCK FALSE
