SPECIFICATION FairSpec
CONSTANTS
    v1 = v1
    v2 = v2
    up1 = up1
    re1 = re1
    in1 = in1
    in2 = in2
    none = none
    Verifies = {v1, v2}
    Updates = {up1}
    Refreshes = {re1}
    SignIns = {in1, in2}
    EndsExactly = FALSE
    None = none
INVARIANT CacheFresh
PROPERTIES WorksWithCurrentRow RefusedOnlyWhenOld SignInFailsOnlyInRace StaleCacheHeals
CHECK_DEADLOCK FALSE
