SPECIFICATION FairCommsSpec
CONSTANTS
    m1 = m1  m2 = m2  pump = pump  recovery = recovery
    None = None
    Message <- OneMessage
    Dispatcher <- Dispatchers
    Reconciler <- Reconcilers
    MaxAttempts = 2
    MaxCopies = 2
    MaxCrashes = 1
    MaxReplays = 1
    MaxFreezes = 1
CHECK_DEADLOCK FALSE
INVARIANTS
    ConsumedOnce
    RecordsEarned
    WaitingIsAlive
PROPERTIES
    EventuallySettled
