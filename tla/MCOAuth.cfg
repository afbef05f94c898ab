SPECIFICATION FairSpec

CONSTANTS
    p1 = p1
    p2 = p2
    w1 = w1
    w2 = w2
    Procs = {p1, p2}
    Workers = {w1, w2}
    Deployments <- MCDeployments
    MaxIssued = 3
    MaxRetries = 2
    MaxFaults = 2

INVARIANTS
    OAuthTypeOK
    ExclusiveRefresh

PROPERTIES
    NeverOlder
    DisablesOnlyDead
    RefreshSettles

CHECK_DEADLOCK FALSE
