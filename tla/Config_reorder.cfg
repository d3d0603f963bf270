CONSTANTS
    r1 = r1
    r2 = r2
    Bad = Bad
    Reloaders <- TwoReloaders
    Vals <- FileVals
    Default = 5000
    SameSecond = FALSE
    MaxTime = 3
    MaxWrites = 2
    MaxReloads = 3
SPECIFICATION Spec
INVARIANT LoadedMeansApplied
