SPECIFICATION FairSpec

CONSTANTS
    p1 = p1
    p2 = p2
    r1 = r1
    r2 = r2
    r3 = r3
    Procs = {p1, p2}
    Requests = {r1, r2, r3}
    Home <- MCHome
    MaxConcurrency = 2
    QueueLimit = 1
    MaxFaults = 3

INVARIANTS
    SlotsTypeOK
    LimitHolds

PROPERTIES
    CapacityReturns
    QueueReopens
    LostLeaseEndsCall
