SPECIFICATION FairCacheSpec
CONSTANTS
    c1 = c1
    c2 = c2
    file1 = file1
    file2 = file2
    None = None
    Callers <- TwoCallers
    Pages <- TwoPages
    DirtyLimits <- NoDirtyLimit
    MaxPageSize = 1
    memoryLimit = 1
    margin = 1
    Ahead = FALSE
    GrowDirty = TRUE
    MaxCalls = 3
PROPERTIES
    CallsReturn
CHECK_DEADLOCK FALSE
