SPECIFICATION FairSpec
CONSTANTS
    Node = {n1, n2}
    None = None
    MissThreshold = 2
    MaxWork = 2
    MaxMisses = 2
    MaxFaults = 2
INVARIANTS
    Fence
    AuthorityKnowsLastGood
    SpendNeverInvented
PROPERTY Takeover
