SPECIFICATION FairSpec
CONSTANTS
    k1 = k1
    k2 = k2
    MaxReadings = 3
    BatchSize = 2
    MaxFaults = 3
    Keys <- MCKeys
    KeyOf <- MCKeyOf
    Corrupt = {2}
INVARIANTS NothingLost HistoryHasNoGaps FreshnessIsBacked
PROPERTY BufferDrains
CHECK_DEADLOCK FALSE
