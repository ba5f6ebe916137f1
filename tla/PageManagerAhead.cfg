SPECIFICATION Spec
CONSTANTS
    r1 = r1
    r2 = r2
    Readers <- TwoReaders
    PageSize = 2
    MaxSize = 5
    InitialSize = 5
    MaxFetch = 2
    ReadAhead = 1
    MaxChanges = 2
    Faults = {}
INVARIANTS
    FetchInRange
SYMMETRY Symmetry
CHECK_DEADLOCK FALSE
