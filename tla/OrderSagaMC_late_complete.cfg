SPECIFICATION Spec
CONSTANTS
    p1 = p1
    p2 = p2
    p3 = p3
    o1 = o1
    o2 = o2
    o3 = o3
    NoRequest = none
    none = none
    Products = {p1, p2}
    Orders = {o1}
    Qty <- OneQty
    InitialStock <- Ample
    Requests <- RetriedRequests
    Consumers = 1
    Connections = 10
    PaysLate = FALSE
    MaxFaults = 0
INVARIANT PaidStockHeld
CHECK_DEADLOCK FALSE
