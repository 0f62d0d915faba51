SPECIFICATION FairSpec
CONSTANTS
    Calls <- MCCalls
    Categories <- MCCategories
    Items <- MCItems
    LastId = 2
    Pool = 2
    MaxCalls = 4
    MaxCrashes = 1
INVARIANTS RefsIntact ImagesOfOneCall
PROPERTIES BackOnlyByOverlap EveryCallEnds
CHECK_DEADLOCK FALSE
