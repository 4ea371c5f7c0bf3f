CONSTANTS
    c1 = c1
    c2 = c2
    Scopes <- MCScopes
    Family <- MCFamily
    Calls <- MCCalls
    MaxId = 3
    MaxRequests = 3
    MaxEdits = 1
    NewScopes <- MCNewScopes
    EditedScopes <- MCEditedScopes
    MaxFaults = 2
    NONE = NONE
SPECIFICATION DhcpSpec
SYMMETRY SymCalls
INVARIANTS DhcpTypeOK BundleIdsAgree
PROPERTIES NoForeignChange
CHECK_DEADLOCK FALSE
