SPECIFICATION Spec
CONSTANTS
    P = P
    A = A
    B = B
    None = None
    Primary <- P
    NoName <- None
    SecondaryList <- OneSecondary
    NumURLs = 2
    Lingering = {{"serve"}, {"failover"}}
    Configs <- PromotionConfigs
    Procs = {"serve", "failover"}
CHECK_DEADLOCK FALSE
INVARIANTS TypeOK PromotionNeedsEvidence MismatchNeverPromoted OnlyAllowedChanges WritableOnlyAfterPromotion
PROPERTIES CancelStopsChanges ImplementsPromotion
