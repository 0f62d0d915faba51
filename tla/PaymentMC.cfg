SPECIFICATION Spec
CONSTANTS
    o1 = o1
    o2 = o2
    Orders = {o1, o2}
    Calls <- MCCalls

PROPERTY Lifecycle
CHECK_DEADLOCK FALSE
