\* One balance order, two workers, one fault, with fairness.
SPECIFICATION FairSpec
CONSTANTS
    Orders = {o1}
    SubOrders = {}
    Workers = {w1, w2}
    NoOrder = NoOrder
    Lease = 1
    Grace = 0
    OrderTimeout = 0
    MaxAge = 1
    MaxOrders = 1
    MaxFaults = 1
PROPERTIES
    PaymentIsDelivered
