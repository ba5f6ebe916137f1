SPECIFICATION FairSpec
CONSTANTS
    Sizes <- MCSizes
    Limits <- MCLimits
    BufSize = 2
    MinSize = 2
    MaxRetries = 1
    MaxLost = 3
INVARIANTS
    SentWhole
PROPERTIES
    GivesUp
    AdjustShrinks
    Ends
