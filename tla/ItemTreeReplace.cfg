SPECIFICATION Spec
CONSTANTS
    t1 = t1
    t2 = t2
    p = p
    q = q
    x = x
    y = y
    n1 = n1
    n2 = n2
    None = None
    Threads <- TwoThreads
    Folders <- OneFolder
    Items <- TwoItems
    Names <- TwoNames
    Ops = {"read", "rename"}
    Overwrite = TRUE
INVARIANT ScopeProtects
CHECK_DEADLOCK FALSE
