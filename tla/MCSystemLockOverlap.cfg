SPECIFICATION Spec
CONSTANTS
    RowIds = {i1, i2, i3, i4}
    NoRow = noRow
    Fingerprints = {a, b}
    NoFingerprint = none
    Workers = {w1, w2, w3}
    Ttl = 4
    ProcessingTimeout = 3
    RenewInterval = 1
    MaxLag = 1
    MaxRun = 5
    MaxFaults = 0
SYMMETRY Symmetry
INVARIANTS
    OneOperationAtATime
