SPECIFICATION FairSpec
CONSTANTS
    RowIds = {i1, i2, i3}
    NoRow = noRow
    Fingerprints = {a, b}
    NoFingerprint = none
    Workers = {w1, w2}
    Ttl = 4
    ProcessingTimeout = 3
    RenewInterval = 1
    MaxLag = 1
    MaxRun = 1
    MaxFaults = 2
INVARIANTS
    OneOperationAtATime
PROPERTIES
    LockIsFreed
