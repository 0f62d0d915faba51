SPECIFICATION FairSpec
CONSTANTS
    o1 = o1
    o2 = o2
    o3 = o3
    w1 = w1
    w2 = w2
    none = none
    None = none
    Orders = {o1, o2, o3}
    Workers = {w1, w2}
    MaxCrashes = 2
INVARIANTS MailOnlyWhenPaid ForgottenWhenTried CopiesCostCrashes
PROPERTY EveryMailTried
CHECK_DEADLOCK FALSE
