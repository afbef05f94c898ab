SPECIFICATION FairSpec

CHECK_DEADLOCK FALSE

CONSTANTS
    w1 = w1
    w2 = w2
    NoWorker = NoWorker
    Workers = {w1, w2}
    OtherHolds = 1
    MaxRetries = 2
    MaxReady = 2
    MaxFaults = 2

INVARIANTS
    BatchTypeOK
    NoPhantomRelease
    HoldSettledOnce
    CompletedIsCharged
    UnfinishedStaysQueued


    
