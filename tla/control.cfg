SPECIFICATION ControlSpec
CONSTANTS
    a1 = a1  a2 = a2  t1 = t1  p1 = p1  p2 = p2  s1 = s1  s2 = s2  s3 = s3
    None = None
    Actor <- MCActor
    Artifact <- MCArtifact
    Founder <- MCActor
    Proc <- MCProc
    HistoryTracked <- NoProc
    Admission <- MCAdmission
    Managed <- MCManaged
    Host = p1
    Ops <- NoOps
    MaxHead = 3
    MaxTickets = 0
    MaxLives = 2
    MaxPolicies = 1
CHECK_DEADLOCK FALSE
SYMMETRY OtherSymmetry
INVARIANTS
    ControlTypeOK
    BindingMatchesHead
    HolderNeverAhead
    DecisionWrittenAhead
    ActiveIsReal
PROPERTIES
    GenerationsConsecutive
    HolderNeverRegresses
    BindingsSucceed
