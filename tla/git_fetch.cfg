SPECIFICATION FairSpec
CONSTANTS
    Projects = {1, 2}
    ActiveProjects = {2}
    Settings <- MCSettings
    MaxVersion = 2
CHECK_DEADLOCK FALSE
INVARIANTS TypeOK EveryProjectAccounted SuccessMeansFresh
PROPERTIES SweepReturns CatchesUp
