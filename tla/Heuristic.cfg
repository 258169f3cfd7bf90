SPECIFICATION FairSpec
CONSTANTS
    Node <- MCThreeNodes
    Rank <- MCRank
    Agents = {a1, a2}
    n1 = n1
    n2 = n2
    n3 = n3
    Absent = Absent
    NotRegistered = NotRegistered
    NotTracked = NotTracked
    MissThreshold = 1
    MaxVersion = 0
    MaxGen = 0
    MaxMisses = 1
    MaxDead = 1
    Imbalance = 2
INVARIANT PlanStaysApplicable
PROPERTY Takeover
