SPECIFICATION Spec
CONSTANTS
    Projects = {1, 2}
    ActiveProjects = {2}
    Settings <- MCSettings
    MaxVersion = 1
CHECK_DEADLOCK FALSE
INVARIANTS OKMeansEveryProjectFetched
