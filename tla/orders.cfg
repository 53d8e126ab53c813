SPECIFICATION FairSpec
CHECK_DEADLOCK FALSE
CONSTANTS
    o1 = o1
    o2 = o2
    m1 = m1
    m2 = m2
    x1 = x1
    NoOrder = none
    Orders = {o1, o2}
    Messages = {m1, m2, x1}
    OrderIn <- Held
    Processors = {p1}
    NumWorkers = 2
    BatchSize = 3
    Receiver = receiver
    Free = free
    MaxReceives <- Receives
    MaxCrashes = 1
    MaxLost = 1
INVARIANTS
    PaidOnce
    LimitsHold
    AcceptedNotLost
PROPERTIES
    OrdersSettled
