CONSTANTS
    Apex = apex
    Child = child
    Zones = {apex, child}
    MaxKeys = 2
    MaxChanges = 2
    MaxFaults = 1
    NONE = NONE
SPECIFICATION BundleSpec
INVARIANTS BundleTypeOK EtagVouchesForDisk
PROPERTIES SiteConverges
CHECK_DEADLOCK FALSE
