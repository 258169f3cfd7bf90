SPECIFICATION Spec
CONSTANTS
    Node = {n1, n2}
    None = None
    MissThreshold = 2
    MaxWork = 1
    MaxMisses = 2
    MaxFaults = 0
INVARIANT RegistryIsFence
