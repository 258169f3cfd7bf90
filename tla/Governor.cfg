SPECIFICATION Spec
CONSTANTS
    Node <- MCNode
    Rank <- MCRank
    Agents = {a1, a2}
    n1 = n1
    n2 = n2
    Absent = Absent
    NotRegistered = NotRegistered
    NotTracked = NotTracked
    MissThreshold = 1
    MaxVersion = 0
    MaxGen = 0
    MaxMisses = 0
    MaxDead = 0
    MaxTokens = 5
    GovernorTotal = 2
    ThinkCost = 1
    MinActual = 1
    MaxActual = 2
    CanaryLimits = {1}
    MaxApplied = 2
SYMMETRY Symmetry
INVARIANTS
    BlastRadius
    DeliberationIsMetered
PROPERTY OnlyGoverned
