SPECIFICATION ToolSpec
CONSTANTS
    c1 = c1  c2 = c2  c3 = c3  c4 = c4  edit = edit  write = write  read = read
    None = None
    Call <- Calls
    Request <- Requests
    Subject <- Subjects
    Tier <- Tiers
    MaxTurns = 2
    MaxGroup = 1
    MaxRuns = 2
    MaxStops = 2
CHECK_DEADLOCK FALSE
INVARIANTS
    EffectOnce
    EffectApproved
    HonestSuccess
PROPERTIES
    StoredNotRepeated
    ReceiptsKept
