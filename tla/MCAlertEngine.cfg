CONSTANTS
    r1 = r1
    a1 = a1
    k1 = k1
    d1 = d1
    d2 = d2
    Rules <- MCRules
    Assets <- MCAssets
    Collectors <- MCCollectors
    Drains <- MCDrains
    MaxAlerts = 3
    BridgeBatch = 1
    MaxChanges = 3
    MaxLosses = 1
    NONE = NONE
SPECIFICATION AlertSpec
INVARIANTS  EventsConserved FirePoppedFirst
PROPERTIES BreachIsAlerted EventsAreHandled
CHECK_DEADLOCK FALSE
