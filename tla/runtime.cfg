SPECIFICATION FairKernelSpec
CONSTANTS
    a1 = a1  a2 = a2  t1 = t1  p1 = p1  p2 = p2
    None = None
    Actor <- MCActor
    Artifact <- MCArtifact
    Founder <- OneFounder
    Proc <- MCProc
    HistoryTracked <- OneProc
    Ops <- ContendedOps
    MaxHead = 3
    MaxTickets = 1
    MaxLives = 2
CHECK_DEADLOCK FALSE
INVARIANTS
    NoLockWithoutRecord
PROPERTIES
    Linearizable
    OnlyHolderReleases
    OrphanLocksLapse
