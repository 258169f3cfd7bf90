SPECIFICATION UpdateSpec
CONSTANTS
    State = {s1, s2, s3}
    MaxGen = 4
INVARIANTS
    NumbersNameOneGeneration
    VerdictNamesLastGood
PROPERTY KeepsPromise
