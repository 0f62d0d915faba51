SPECIFICATION FairSpec
CONSTANTS
    p1 = p1
    p2 = p2
    p3 = p3
    o1 = o1
    o2 = o2
    o3 = o3
    NoRequest = none
    none = none
    Products = {p1, p2}
    Orders = {o1}
    Qty <- OneQty
    InitialStock <- Ample
    Requests <- RetriedRequests
    Consumers = 1
    Connections = 5
    PaysLate = TRUE
    MaxFaults = 2
INVARIANT CompletedOnce
PROPERTIES CanceledIsFinal Answered
CHECK_DEADLOCK FALSE
