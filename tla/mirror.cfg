SPECIFICATION FairMirrorSpec
CONSTANTS
    P = P
    A = A
    B = B
    None = None
    Primary <- P
    NoName <- None
    SecondaryList <- TwoSecondaries
    NumURLs = 2
    Lingering = {{"failover"}, {"adopt"}}
    Configs <- MirrorConfigs
    Procs = {"serve", "failover", "adopt"}
    Here <- A
    Scenarios <- Alone
CHECK_DEADLOCK FALSE
INVARIANTS PassfileRemoved AdoptedIsReadOnlyStandby
PROPERTIES HealthIsFollowed CommandsReturn ReplicaFollows
