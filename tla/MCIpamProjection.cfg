CONSTANTS
    Addresses = {a1}
    NetOf <- MCNetOf
    net1 = net1
    n1 = n1
    m1 = m1
    m2 = m2
    Names = {n1}
    Macs = {m1, m2}
    Leases <- MCLeases
    Reservations <- MCReservations
    LeaseSyncs = {l1}
    DnsSyncs = {cron, api}
    Cron = cron
    MaxRows = 2
    MaxChanges = 3
    MaxFaults = 1
    NONE = NONE
SPECIFICATION IpamSpec
INVARIANTS IpamTypeOK CopiesBounded
PROPERTIES OwnedStaysOwned ProjectionHeals
CHECK_DEADLOCK FALSE
