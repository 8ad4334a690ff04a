SPECIFICATION Spec
CONSTANTS
    P = P
    A = A
    B = B
    None = None
    Primary <- P
    NoName <- None
    SecondaryList <- OneSecondary
    NumURLs = 2
    Lingering = {{"serve"}}
    Configs <- RoleSwapConfigs
    Procs = {"serve"}
CHECK_DEADLOCK FALSE
INVARIANTS PromotedKeepsServing
