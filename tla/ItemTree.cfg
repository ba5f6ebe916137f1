SPECIFICATION Spec
CONSTANTS
    t1 = t1
    t2 = t2
    p = p
    q = q
    x = x
    y = y
    n1 = n1
    n2 = n2
    None = None
    Threads <- TwoThreads
    Folders <- TwoFolders
    Items <- TwoItems
    Names <- TwoNames
    Ops <- AllOps
    Overwrite = FALSE
INVARIANTS
    ScopeProtects
    OnePlace
SYMMETRY Symmetry
CHECK_DEADLOCK FALSE
