SPECIFICATION FairSpec
CONSTANTS
    web = web
    cap = cap
    Tool <- MCTool
    Cap <- MCCap
    Authorizes <- MCAuthorizes
    MaxTokens = 5
    InitialTotal = 3
    Costs = {1}
    GrantSizes = {2}
    ThinkReserve = 2
    ToolCost = 1
    MaxActual = 2
    MaxIters = 2
    MaxToolCalls = 1
    MaxAudit = 2
    Keys = {k1}
    CallCosts = {1}
    Jtis = {j1}
INVARIANTS
    SpendAccounted
    OverdrawBounded
    CheckpointIsPast
    AuditExplainsBill
PROPERTY RunTerminates
