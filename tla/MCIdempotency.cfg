SPECIFICATION FairSpec
CONSTANTS
    RowIds = {i1, i2}
    NoRow = noRow
    Fingerprints = {p, q}
    NoFingerprint = none
    Workers = {w1, w2}
    Ttl = 3
    ProcessingTimeout = 2
    Backoff = 1
    MaxLag = 1
    MaxFaults = 1
INVARIANTS
    SingleEffect
    ExecutesAlone
    ToldIsApplied
PROPERTIES
    SuccessStays
    KeyIsFreed
