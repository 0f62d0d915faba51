SPECIFICATION FairSpec
CONSTANTS
    Request = {r1}
    None = None
    Calls <- MCCalls
    Threshold = 2
    MaxDeaths = 2
INVARIANTS ServedAsMeant GuardsDecide OutagesExplained CalledOnce SuccessIsTrue
PROPERTIES EndsUnlessKept
