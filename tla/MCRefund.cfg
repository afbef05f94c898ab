SPECIFICATION Spec
CHECK_DEADLOCK FALSE
CONSTANTS
    Workers = {w1, w2}
    MaxFaults = 2
    MaxNet = 1
SYMMETRY Symmetry
INVARIANTS
    OneRefundAtATime
    DeductedOnce
    NothingKept
    RefundIsSettled
PROPERTIES
    RefundedStays
    RollbackFailureSkips
