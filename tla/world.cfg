SPECIFICATION Spec
CONSTANTS
    a1 = a1
    a2 = a2
    t1 = t1
    t2 = t2
    None = None
    Actor <- TwoActors
    Artifact <- TwoArtifacts
    Founder <- OneActor
    Ops <- AllOps
    MaxSessions = 1
    MaxLinks = 1
    MaxBeats = 1
SYMMETRY ArtifactSymmetry
CHECK_DEADLOCK FALSE
INVARIANTS
    LockWithOwner
    LockNotCopied
    ControllerIsMember
PROPERTIES
    LifecycleRespected
