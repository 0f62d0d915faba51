SPECIFICATION SerialSpec
CONSTANTS
    p1 = p1
    p2 = p2
    o1 = o1
    o2 = o2
    Products = {p1, p2}
    Orders = {o1, o2}
    Qty <- MCQty
    InitialStock <- OneInStock
    Calls <- MCCalls
    Quantities = {0, 2}
INVARIANT ReservedRowsHaveStock
PROPERTY LedgerSpec
CHECK_DEADLOCK FALSE
