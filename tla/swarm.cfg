SPECIFICATION FairSwarmSpec
CONSTANTS
    a1 = a1  a2 = a2  a3 = a3
    Nothing = Nothing
    Agent <- MCAgent
    Needs <- FanIn
    BadManifest <- OneBad
    Retirable <- Waiting
    MaxConcurrent = 1
    MaxTotal = 2
    StallTicks = 2
    MaxCrashes = 1
CHECK_DEADLOCK FALSE
INVARIANTS
    StartedOnce
    WithinCeiling
    NobodyForgotten
PROPERTIES
    StallAsDrained
    Convergence
