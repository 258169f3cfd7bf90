SPECIFICATION FairSpec
CONSTANTS
    Node = {n1, n2}
    Id = {a}
    Guarded = {n2}
    Grants = {2}
    Costs = {1}
    Actuals = {0, 2}
    MaxRequests = 3
    MaxHops = 1
    MaxCalls = 2
    MaxTokens = 10
    None = None
INVARIANT LedgerAddsUp OneAtATime OneHistory
PROPERTY EveryRequestEnds
