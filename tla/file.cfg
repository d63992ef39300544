SPECIFICATION FileSpec
CONSTANTS
    p1 = p1  p2 = p2
    None = None  Abandoned = Abandoned
    Proc <- MCProc
    MaxNames = 5
    MaxCrashes = 3
CHECK_DEADLOCK FALSE
SYMMETRY ProcSymmetry
INVARIANTS
    ReturnedStays
    OneGenesis
    LocksAreTold
PROPERTIES
    OneWriteAtATime
