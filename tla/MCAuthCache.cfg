SPECIFICATION FairSpec
CONSTANTS
    Procs = {p1, p2}
    Requests = {r1}
    NoEntry = none
    NoOne = noOne
    Dead = dead
    MaxVersion = 2
    Histories <- MCHistories
    SafetyDelay = 2
    Lease = 1
    RetryDelay = 0
    MaxRead = 1
    MaxFaults = 1
INVARIANTS
    AuthCacheTypeOK
    StaleHasEvent
PROPERTIES
    CachesConverge
