SPECIFICATION Spec
CONSTANTS
    P = P
    A = A
    B = B
    None = None
    Primary <- P
    NoName <- None
    SecondaryList <- TwoSecondaries
    NumURLs = 2
    Lingering = {{"adopt"}}
    Configs <- RoleSwapConfigs
    Procs = {"adopt"}
CHECK_DEADLOCK FALSE
INVARIANTS SomePrimaryRemains
