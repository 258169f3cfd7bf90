SPECIFICATION Spec
CONSTANTS
    Agents <- MCAgents
    Targets <- MCTargets
    Tokens <- MCTokens
    Verifying = {"x"}
    CallKinds <- MCCallKinds
    Syscalls <- MCSyscalls
    Window = 1
    Batch = 1
    SampleCosts = {1}
    Metered = {"ToolInvoke", "MemWrite"}
    MaxTime = 2
    MaxCalls = 2
    MaxSamples = 2
INVARIANTS
    ColumnAddsUp
    FloorAgrees
PROPERTY PricesAreFinal
