\* One order of either kind, two workers, up to two faults.
SPECIFICATION Spec
CONSTANTS
    Orders = {balance, subscription}
    SubOrders = {subscription}
    Workers = {w1, w2}
    NoOrder = NoOrder
    Lease = 1
    Grace = 0
    OrderTimeout = 0
    MaxAge = 1
    MaxOrders = 1
    MaxFaults = 2
SYMMETRY WorkerSymmetry
INVARIANTS
    TypeOK
    DeliveredAtMostOnce
    CompletedIsDelivered
    AckedIsDelivered
    MailedAtMostOnce
PROPERTIES
    NeverTakenBack
    DeliverySpec
