SPECIFICATION FairSpec
CONSTANTS
    t1 = t1
    t2 = t2
    r1 = r1
    r2 = r2
    home = home
    x = x
    y = y
    n1 = n1
    n2 = n2
    None = None
PROPERTIES
    CallsReturn
    ReadsEnd
CHECK_DEADLOCK FALSE
