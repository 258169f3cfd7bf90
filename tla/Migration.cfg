SPECIFICATION FairSpec
CONSTANTS
    VMs <- MCVMs
    a = a
    b = b
    None = None
    Total = 5
    Reserve = 2
    Cost = 1
    MaxAttempts = 3
    MaxBreaks = 3
    MaxDeaths = 1
    MaxJobs = 4
    MaxPolls = 2
INVARIANTS
    CarriesState
    CutoverIsSafe
    NoOrphans
    AcceptedWasHosted
PROPERTY ProgramsEnd
CHECK_DEADLOCK FALSE
