SPECIFICATION Spec
CONSTANTS
    u1 = u1
    u2 = u2
    k1 = k1
    k2 = k2
    none = none
    None = none
    Users = {u1, u2}
    Messages <- MCMessages
    Consumers = {k1, k2}
    Retries = 3
    SlowWork = FALSE
    MaxFaults = 0
INVARIANT NobodyStuck
CHECK_DEADLOCK FALSE
