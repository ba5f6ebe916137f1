SPECIFICATION FetchSpec
CONSTANTS
    PageSize = 3
    FileSizes = {5}
    MaxPages = 2
    BodySizes = {0}
    MaxPiece = 3
    MaxRetries = 2
    MaxLost = 1
INVARIANT NoneUnfinished
CHECK_DEADLOCK FALSE
