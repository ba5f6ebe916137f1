SPECIFICATION DataSpec
CONSTANTS
    r1 = r1
    r2 = r2
    c1 = c1
    c2 = c2
    file1 = file1
    file2 = file2
    None = None
    Readers <- TwoReaders
    PageSize = 2
    MaxSize = 5
    InitialSize = 5
    MaxFetch = 2
    ReadAhead = 1
    MaxChanges = 3
    Faults = {}
    Callers <- TwoCallers
    Pages <- ThreePages
    MaxPageSize = 2
    memoryLimit = 2
    margin = 1
    DirtyLimits <- SomeOrNone
    Ahead = FALSE
    GrowDirty = FALSE
    MaxCalls = 3
INVARIANTS
    Coherent
    PageHeld
    PendingServed
    CleanMeansStored
    Tracked
SYMMETRY Symmetry
CHECK_DEADLOCK FALSE
