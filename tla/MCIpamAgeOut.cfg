CONSTANTS
    Addresses = {a1}
    NetOf <- MCNetOf
    net1 = net1
    n1 = n1
    m1 = m1
    m2 = m2
    Names = {n1}
    Macs = {m1}
    Leases <- MCAnyLease
    Reservations <- MCAnyLease
    LeaseSyncs = {l1}
    DnsSyncs = {cron}
    Cron = cron
    MaxRows = 1
    MaxChanges = 3
    MaxFaults = 0
    NONE = NONE
SPECIFICATION IpamSpec
PROPERTIES LapsedLeasesGo
CHECK_DEADLOCK FALSE
