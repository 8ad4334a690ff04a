SPECIFICATION FairSpec
CONSTANTS
    SiteList <- OneSite
    Configs <- AllConfigs
    Things <- SmallThings
    CatalogCap = 1
    Counts <- SomeCounts
    SamplePct = 50
    MaxChanges = 1
CHECK_DEADLOCK FALSE
INVARIANTS TypeOK OKIsEarned
PROPERTIES ThreeTriesPerListing EveryReconcilerRuns SyncReturns VerdictFollowsSites
