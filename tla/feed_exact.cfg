SPECIFICATION EpochSpec
CONSTANTS
    a1 = a1  a2 = a2  t1 = t1  p1 = p1  p2 = p2  s1 = s1  s2 = s2
    None = None
    Actor <- MCActor
    Artifact <- MCArtifact
    Founder <- MCFounder
    Proc <- OneProc
    HistoryTracked <- NoProc
    Admission <- OneAdmission
    Ops <- CommitOps
    MaxHead = 4
    MaxTickets = 1
    MaxLives = 1
CHECK_DEADLOCK FALSE
INVARIANT
    FeedExact
