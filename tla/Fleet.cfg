SPECIFICATION FleetSpec
CONSTANTS
    Node <- MCNode
    Rank <- MCRank
    Agents = {a1}
    n1 = n1
    n2 = n2
    Absent = Absent
    NotRegistered = NotRegistered
    NotTracked = NotTracked
    MissThreshold = 1
    MaxVersion = 2
    MaxGen = 2
    MaxMisses = 1
    MaxDead = 1
INVARIANTS
    SingleInstance
    RollbackIsSafe
PROPERTY
    OnlyHealsRevive
