SPECIFICATION Spec
CONSTANTS
    t1 = t1
    t2 = t2
    t3 = t3
    o1 = o1
    o2 = o2
    id1 = id1
    id2 = id2
    v1 = v1
    Zero = Zero
    Null = Null
    None = None
    Empty = Empty
    NoThread = NoThread
    Root = Root
    NoItem = NoItem
    NoHost = NoHost
    Threads = {t1, t2}
    Objs = {o1, o2}
    Ids = {id1, id2}
    Values <- ObjectValues
    Deltas = {1}
    Faults = {"query", "crash"}
    MaxCount = 2
    MaxChanges = 2
    UnlockedSave = FALSE
    FieldValues <- ObjectValues
    FieldDeltas = {1, 2}
    RefIds = {id1, id2}
    MaxDelta = 3
    MaxVersion = 3
    QueryCount = 2
    Keys = {1, 2, 3}
    Entries = {1, 2}
    MaxSize = 3
    PageSize = 3
    FileSizes = {5, 8}
    MaxPages = 3
    BodySizes = {0, 1, 4}
    MaxPiece = 3
    MaxRetries = 2
    MaxLost = 2
    PoolThreads = {t1, t2, t3}
    PoolSize = 2
    SemThreads = {1, 2, 3, 4}
    mMaxCount = 2
    Contexts = {1, 2}
    MaxSession = 4
    GivenSession = 1
    CallNames = {"a", "b"}
    CallIds = {1, 2}
    MaxAttempts = 2
    Refusals <- ServerRefusals
    ParamNames = {"x", "y"}
    Hosts = {"h1", "h2"}
    Paths = {"/a", "/b"}
    OwnParam <- OwnParameter
    MaxCalls = 2
    RunnerKinds = {"http", "cli"}
    MaxRequests = 2
    ContextFails = {3}
INVARIANTS
    WaitersAwake
    OneObject
    NothingLost
    NoOpenTransaction
    FieldIsStored
    SelectsMeant
    VersionIsTrue
    TextIsKept
    TableIsList
    PagesAreFile
    SessionsKept
    CallTruth
    RequestIsInput
    MountEnds
    CallsKeepWord
    SeenIsStored
    WrittenIsRead
    MemoryIsWhole
    ArgsAreMeant
PROPERTIES
    AllOrNothing
SYMMETRY Symmetry
CHECK_DEADLOCK FALSE
