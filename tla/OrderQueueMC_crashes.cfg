SPECIFICATION FairSpec
CONSTANTS
    u1 = u1
    u2 = u2
    k1 = k1
    k2 = k2
    none = none
    None = none
    Users = {u1, u2}
    Messages <- MCMessages
    Consumers = {k1, k2}
    Retries = 1
    SlowWork = FALSE
    MaxFaults = 2
INVARIANTS TypeOK OneOrderPerUser NothingLost OneOrderPerMessage AnswerIsTrue
PROPERTIES EveryOrderHandled EveryClientAnswered
CHECK_DEADLOCK FALSE
