SPECIFICATION Spec
CONSTANTS
    NumAgents = 2
    NumNodes = 2
    Ticks = 3
    InitialBudget = 3
    Burn = 2
    NodeCap = 1
    DownGrace = 2
    StarveGrace = 2
    MaxGrant = 2
    Grants = {1, 2}
    RefillTokens = 2
    LowDenominator = 2
    Imbalance = 2
    UpdateTicks = {1, 3}
    Suite = 2
INVARIANTS
    MasksAgree
    VerdictsAddUp
    BaselineSurvives
    RungsAreEarned
